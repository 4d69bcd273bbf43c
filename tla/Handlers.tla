------------------------------ MODULE Handlers ------------------------------
(***************************************************************************)
(* The protocol handlers of main.go: one goroutine per connection that     *)
(* reads whole messages from the two ordered streams of the connection,    *)
(* pairs requests with responses by their order alone, and sends each      *)
(* exchange to the printer as one block of text.                           *)
(*                                                                         *)
(* Every Handle is the same loop with different decisions, so the loop is  *)
(* written once and a profile per protocol says what that protocol's       *)
(* Handle decides.  A message is its place in the conversation and how it  *)
(* is treated; a block is the requests and the responses printed in it.    *)
(***************************************************************************)
EXTENDS Integers, Sequences, FiniteSets

CONSTANTS
    Protocols,      \* the protocols whose handler is run
    Traffic,        \* the kinds of requests, as sets of the traits below
    Answers,        \* the answers of a server, as sequences of tags
    MaxRequests,    \* bound on the requests of the connection
    MaxTime,        \* bound on the clock
    MaxUnread,      \* bound on the unread responses, the last place for answers only
    MySQLReads,     \* responses read for a MySQL command (10)
    MongoReads,     \* responses read for a MongoDB request (5)
    UrlLevel,       \* output level "url": responses are not printed
    CostFilters     \* the cost filters, as the sets of elapsed times they accept

\* oneway: the server does not answer; heartbeat: handleDubbo takes it for a
\* heartbeat; hidden: a filter option rejects it; repeat: its request id was
\* seen before; bad: it cannot be parsed.
Traits == {"oneway", "heartbeat", "hidden", "repeat", "bad"}

\* ok ends a MySQL response, more does not; bad cannot be parsed.
Tags == {"ok", "more", "bad"}

ASSUME HandlersAssumption ==
    /\ Traffic \subseteq SUBSET Traits
    /\ \A a \in Answers : a \in Seq(Tags) /\ a # <<>>
    /\ MaxRequests \in Nat
    /\ MaxTime \in Nat
    /\ MaxUnread \in Nat
    /\ MySQLReads \in Nat \ {0}
    /\ MongoReads \in Nat \ {0}
    /\ UrlLevel \in BOOLEAN
    /\ CostFilters \subseteq SUBSET (0 .. MaxTime)

-----------------------------------------------------------------------------
(***************************************************************************)
(* What each Handle decides:                                               *)
(*   greets   reads a greeting from the server before the first request    *)
(*   dedup    drops a request whose id it has seen                         *)
(*   filter   a rejected request is skipped ("skip"), skipped after        *)
(*            reading one response ("read"), or there is no filter         *)
(*   oneway   reads no response for a oneway request, nor for a heartbeat  *)
(*   reads    responses read for one request, at most                      *)
(*   stops    stops reading them at a final one                            *)
(*   failed   after an unreadable response: "stop" leaves the loop,        *)
(*            "next" goes on with the next request                         *)
(*   cost     a response outside the cost filter takes the block with it   *)
(*            ("block"), is left out of it ("response"), or is not tested  *)
(*   always   prints responses at the output level "url" too               *)
(***************************************************************************)
Plain == [greets |-> FALSE, dedup |-> FALSE, filter |-> "none", oneway |-> FALSE,
          reads |-> 1, stops |-> FALSE, failed |-> "stop", cost |-> "block",
          always |-> FALSE]

Dubbo == [Plain EXCEPT !.dedup = TRUE, !.filter = "skip", !.oneway = TRUE,
                       !.failed = "next", !.cost = "response"]

Redis == [Plain EXCEPT !.filter = "read"]

RocketMQ == [Plain EXCEPT !.filter = "skip"]

MySQL == [Plain EXCEPT !.greets = TRUE, !.filter = "skip", !.reads = MySQLReads,
                       !.stops = TRUE, !.failed = "next", !.cost = "response"]

Mongo == [Plain EXCEPT !.filter = "skip", !.reads = MongoReads,
                       !.failed = "next", !.cost = "none"]

HTTP == [Plain EXCEPT !.cost = "response"]

WebSocket == [Plain EXCEPT !.reads = 0, !.cost = "none"]

ZooKeeper == [Plain EXCEPT !.always = TRUE]

Nacos == Plain

\* handleTriple: see ReadTriple.
Triple == [Plain EXCEPT !.filter = "skip", !.reads = 0, !.cost = "none"]

ProfileOf ==
    [dubbo |-> Dubbo, triple |-> Triple, redis |-> Redis, rocketmq |-> RocketMQ,
     mysql |-> MySQL, mongo |-> Mongo, http |-> HTTP, websocket |-> WebSocket,
     zookeeper |-> ZooKeeper, nacos |-> Nacos]

ASSUME ProtocolsAssumption == Protocols \subseteq DOMAIN ProfileOf

-----------------------------------------------------------------------------
VARIABLES
    protocol,   \* the protocol of the connection
    costShown,  \* the elapsed times that pass Proto.Cost
    midstream,  \* the capture began after the server's greeting
    asked,      \* history: the kinds of the requests sent, in order
    askedAt,    \* history: when the last request was captured
    owed,       \* the requests the server has yet to answer
    upset,      \* history: the request that was due when the server first sent
                \* something else than its answer
    up,         \* requests released to the handler and not yet read
    down,       \* responses released to the handler and not yet read
    closed,     \* the connection is finished: both channels are closed
    now,        \* the clock
    pc,         \* where the handler is
    reqTime,    \* h.reqTime
    buf,        \* h.Buf
    count,      \* responses read for the current request
    out         \* blocks sent to the printer

traffic == <<protocol, costShown, midstream, asked, askedAt, owed, upset, closed, now>>

vars == <<protocol, costShown, midstream, asked, askedAt, owed, upset, up, down, closed, now,
          pc, reqTime, buf, count, out>>

Profile == ProfileOf[protocol]

\* A response that answers no request is numbered after all of them.
Unasked == MaxRequests + 1

\* The value of upset while the server answers in turn.
Never == MaxRequests + 2

\* A block: the requests printed in it, and for each response printed the
\* request it really answers and the latency printed with it.
Empty == [reqs |-> <<>>, resps |-> <<>>]

Init ==
    /\ protocol \in Protocols
    /\ costShown \in CostFilters
    /\ midstream \in IF Profile.greets THEN BOOLEAN ELSE {FALSE}
    /\ asked = <<>>
    /\ askedAt = 0
    /\ owed = <<>>
    /\ upset = Never
    /\ up = <<>>
    /\ down = IF Profile.greets /\ ~midstream THEN <<[of |-> 0, tag |-> "more"]>> ELSE <<>>
    /\ closed = FALSE
    /\ now = 0
    /\ pc = IF Profile.greets THEN "greeting"
            ELSE IF protocol = "triple" THEN "triple" ELSE "request"
    /\ reqTime = 0
    /\ buf = Empty
    /\ count = 0
    /\ out = <<>>

-----------------------------------------------------------------------------
(***************************************************************************)
(* The two ends of the connection, as released by the assembler.           *)
(***************************************************************************)

Hides(k) == Profile.filter # "none" /\ "hidden" \in k

Repeats(k) == Profile.dedup /\ "repeat" \in k

\* A response is read for the request.  handleDubbo reads none for a oneway
\* request, nor for a heartbeat, which the server does answer.
Awaits(k) == Profile.oneway => "oneway" \notin k /\ "heartbeat" \notin k

\* The kinds that make sense for the protocol.
Kinds ==
    {k \in Traffic :
        /\ "hidden" \in k => Profile.filter # "none"
        /\ "repeat" \in k => Profile.dedup /\ asked # <<>>
        /\ "oneway" \in k => protocol \in {"dubbo", "rocketmq", "mysql", "mongo"}
        /\ "heartbeat" \in k => Profile.oneway}

Ask(k) ==
    /\ ~closed
    /\ Len(asked) < MaxRequests
    /\ asked' = Append(asked, k)
    /\ askedAt' = now
    /\ up' = Append(up, Len(asked) + 1)
    /\ owed' = IF "oneway" \in k THEN owed ELSE Append(owed, Len(asked) + 1)
    /\ UNCHANGED <<protocol, costShown, midstream, upset, down, closed, now, pc, reqTime, buf,
                   count, out>>

\* The servers that answer by request id, in any order.
Multiplexed == {"dubbo", "rocketmq"}

\* The servers that also send what nobody asked for: heartbeats, notices of a
\* broker, messages of a subscription, watch events.
Pushing == {"dubbo", "rocketmq", "redis", "zookeeper"}

\* The request whose answer a reader of the two streams expects next.
Due == IF owed = <<>> THEN Len(asked) + 1 ELSE Head(owed)

OutOfTurn == upset' = IF upset = Never THEN Due ELSE upset

\* The server answers the n-th request it has not answered, the first one
\* unless requests are multiplexed; only MySQL answers with several messages.
Answer(n, tags) ==
    /\ ~closed
    /\ n \in 1 .. Len(owed)
    /\ Len(down) < MaxUnread
    /\ n > 1 => protocol \in Multiplexed
    /\ Len(tags) > 1 => protocol = "mysql"
    /\ owed' = SubSeq(owed, 1, n - 1) \o SubSeq(owed, n + 1, Len(owed))
    /\ down' = down \o [i \in 1 .. Len(tags) |-> [of |-> owed[n], tag |-> tags[i]]]
    /\ IF n = 1 THEN UNCHANGED upset ELSE OutOfTurn
    /\ UNCHANGED <<protocol, costShown, midstream, asked, askedAt, up, closed, now, pc,
                   reqTime, buf, count, out>>

\* The server sends a message that answers no request.
Push ==
    /\ ~closed
    /\ protocol \in Pushing
    /\ Len(down) + 1 < MaxUnread
    /\ down' = Append(down, [of |-> Unasked, tag |-> "ok"])
    /\ OutOfTurn
    /\ UNCHANGED <<protocol, costShown, midstream, asked, askedAt, owed, up, closed, now, pc,
                   reqTime, buf, count, out>>

Close ==
    /\ ~closed
    /\ closed' = TRUE
    /\ UNCHANGED <<protocol, costShown, midstream, asked, askedAt, owed, upset, up, down, now, pc,
                   reqTime, buf, count, out>>

Tick ==
    /\ now < MaxTime
    /\ now' = now + 1
    /\ UNCHANGED <<protocol, costShown, midstream, asked, askedAt, owed, upset, up, down,
                   closed, pc, reqTime, buf, count, out>>

-----------------------------------------------------------------------------
(***************************************************************************)
(* The loop.                                                               *)
(***************************************************************************)

\* Fault: the buffer is not renewed.
LoopHeadKeepsBuf ==
    /\ pc' = "request"
    /\ buf' = buf
    /\ reqTime' = now
    /\ count' = 0

\* The head of the loop, initBuf and startReq, reached from everywhere just
\* before the handler waits for the next request.
LoopHead ==
    /\ pc' = "request"
    /\ buf' = Empty
    /\ reqTime' = now
    /\ count' = 0

\* A read of a message fails: unreadable, or the end of the stream.
UpFails ==
    \/ up = <<>> /\ closed
    \/ up # <<>> /\ "bad" \in asked[Head(up)]

DownFails ==
    \/ down = <<>> /\ closed
    \/ down # <<>> /\ Head(down).tag = "bad"

Rest(s) == IF s = <<>> THEN <<>> ELSE Tail(s)

\* MySQL only: one message from the server is taken for the greeting.
ReadGreeting ==
    /\ pc = "greeting"
    /\ DownFails \/ down # <<>>
    /\ down' = Rest(down)
    /\ \/ DownFails /\ UNCHANGED out
       \/ ~DownFails /\ out' = Append(out, Empty)
    /\ LoopHead
    /\ UNCHANGED <<traffic, up>>

\* Fault: `break' where the code has `continue'.
SkipRequestBreaks ==
    /\ pc = "request"
    /\ up # <<>>
    /\ ~UpFails
    /\ Repeats(asked[Head(up)]) \/ Hides(asked[Head(up)])
    /\ up' = Tail(up)
    /\ pc' = "tail"
    /\ UNCHANGED <<traffic, down, reqTime, buf, count, out>>

\* Requests that are not printed: a repeated one, or one a filter rejects.
SkipRequest ==
    /\ pc = "request"
    /\ up # <<>>
    /\ ~UpFails
    /\ up' = Tail(up)
    /\ LET k == asked[Head(up)] IN
          \/ /\ Repeats(k) \/ (Hides(k) /\ Profile.filter = "skip")
             /\ LoopHead
          \/ /\ ~Repeats(k) /\ Hides(k) /\ Profile.filter = "read"
             /\ pc' = "discard"
             /\ UNCHANGED <<reqTime, buf, count>>
    /\ UNCHANGED <<traffic, down, out>>

\* The request is printed; with no response to read the block is complete.
ReadRequest ==
    /\ pc = "request"
    /\ up # <<>>
    /\ ~UpFails
    /\ LET k == asked[Head(up)]
           b == [Empty EXCEPT !.reqs = <<Head(up)>>] IN
          /\ ~Repeats(k) /\ ~Hides(k)
          /\ \/ /\ Profile.reads = 0 \/ ~Awaits(k)
                /\ out' = Append(out, b)
                /\ LoopHead
             \/ /\ Profile.reads > 0 /\ Awaits(k)
                /\ buf' = b
                /\ pc' = "response"
                /\ UNCHANGED <<reqTime, count, out>>
    /\ up' = Tail(up)
    /\ UNCHANGED <<traffic, down>>

\* The request stream has ended or cannot be read: leave the loop.
RequestFails ==
    /\ pc = "request"
    /\ UpFails
    /\ up' = Rest(up)
    /\ pc' = "tail"
    /\ UNCHANGED <<traffic, down, reqTime, buf, count, out>>

\* Fault: the response of a rejected request is left in the stream.
DiscardResponseUnread ==
    /\ pc = "discard"
    /\ LoopHead
    /\ UNCHANGED <<traffic, up, down, out>>

\* Redis only: the response of a request that the filter rejects.
DiscardResponse ==
    /\ pc = "discard"
    /\ DownFails \/ down # <<>>
    /\ down' = Rest(down)
    /\ LoopHead
    /\ UNCHANGED <<traffic, up, out>>

\* time.Since(h.reqTime), which is printed and tested against the filter.
Elapsed == now - reqTime

WithinCost == Profile.cost = "none" \/ Elapsed \in costShown

\* Fault: one response too many is read.
ReadResponseOnceMore ==
    /\ pc = "response"
    /\ down # <<>>
    /\ ~DownFails
    /\ down' = Tail(down)
    /\ \/ /\ count < Profile.reads
          /\ count' = count + 1
          /\ UNCHANGED <<pc, reqTime, buf, out>>
       \/ /\ count = Profile.reads
          /\ out' = Append(out, buf)
          /\ LoopHead
    /\ UNCHANGED <<traffic, up>>

\* A response is printed with the request, within the cost filter; after the
\* last one the block is complete.
ReadResponse ==
    LET r     == Head(down)
        shown == WithinCost /\ (~UrlLevel \/ Profile.always)
        b     == IF shown
                 THEN [buf EXCEPT !.resps = Append(@, [of |-> r.of, latency |-> Elapsed])]
                 ELSE buf
        last  == count + 1 = Profile.reads \/ (Profile.stops /\ r.tag = "ok") IN
    /\ pc = "response"
    /\ down # <<>>
    /\ ~DownFails
    /\ down' = Tail(down)
    /\ \/ /\ ~last
          /\ buf' = b
          /\ count' = count + 1
          /\ UNCHANGED <<pc, reqTime, out>>
       \/ /\ last
          /\ out' = IF ~WithinCost /\ Profile.cost = "block" THEN out ELSE Append(out, b)
          /\ LoopHead
    /\ UNCHANGED <<traffic, up>>

\* Fault: the cost filter is asked about a response that was not read.
ResponseFailsFiltered ==
    /\ pc = "response"
    /\ DownFails
    /\ down' = Rest(down)
    /\ out' = IF WithinCost THEN Append(out, buf) ELSE out
    /\ LoopHead
    /\ UNCHANGED <<traffic, up>>

\* Fault: the error of the read is ignored and the read tried again.
ResponseFailsRetries ==
    /\ pc = "response"
    /\ DownFails
    /\ down' = Rest(down)
    /\ UNCHANGED <<traffic, up, pc, reqTime, buf, count, out>>

\* The block is sent as it is; "stop" leaves the loop with the buffer full.
ResponseFails ==
    /\ pc = "response"
    /\ DownFails
    /\ down' = Rest(down)
    /\ out' = Append(out, buf)
    /\ \/ /\ Profile.failed = "next"
          /\ LoopHead
       \/ /\ Profile.failed = "stop"
          /\ pc' = "tail"
          /\ UNCHANGED <<reqTime, buf, count>>
    /\ UNCHANGED <<traffic, up>>

\* After the loop: what the buffer still holds is sent.
SendRest ==
    /\ pc = "tail"
    /\ out' = IF buf # Empty THEN Append(out, buf) ELSE out
    /\ pc' = "drainDown"
    /\ UNCHANGED <<traffic, up, down, reqTime, buf, count>>

\* handleTriple reads the request stream to its end, and then prints all
\* the requests the filters accept in one block.
ReadTriple ==
    /\ pc = "triple"
    /\ up # <<>>
    /\ LET k == asked[Head(up)] IN
          buf' = IF "bad" \in k \/ Hides(k) THEN buf
                 ELSE [buf EXCEPT !.reqs = Append(@, Head(up))]
    /\ up' = Tail(up)
    /\ UNCHANGED <<traffic, down, pc, reqTime, count, out>>

TripleEnds ==
    /\ pc = "triple"
    /\ up = <<>> /\ closed
    /\ pc' = "tail"
    /\ UNCHANGED <<traffic, up, down, reqTime, buf, count, out>>

-----------------------------------------------------------------------------
(***************************************************************************)
(* The deferred calls: DiscardAll of the responses, then of the requests.  *)
(* (The closing of the streams is in TCPAssembler.)                        *)
(***************************************************************************)

DiscardDown ==
    /\ pc = "drainDown"
    /\ \/ down # <<>> /\ down' = Tail(down) /\ UNCHANGED pc
       \/ down = <<>> /\ closed /\ pc' = "drainUp" /\ UNCHANGED down
    /\ UNCHANGED <<traffic, up, reqTime, buf, count, out>>

DiscardUp ==
    /\ pc = "drainUp"
    /\ \/ up # <<>> /\ up' = Tail(up) /\ UNCHANGED pc
       \/ up = <<>> /\ closed /\ pc' = "done" /\ UNCHANGED up
    /\ UNCHANGED <<traffic, down, reqTime, buf, count, out>>

-----------------------------------------------------------------------------
Handle ==
    \/ ReadGreeting
    \/ SkipRequest
    \/ ReadRequest
    \/ RequestFails
    \/ DiscardResponse
    \/ ReadResponse
    \/ ResponseFails
    \/ SendRest
    \/ ReadTriple
    \/ TripleEnds
    \/ DiscardDown
    \/ DiscardUp

Next ==
    \/ \E k \in Kinds : Ask(k)
    \/ \E n \in 1 .. Len(owed), tags \in Answers : Answer(n, tags)
    \/ Push
    \/ Close
    \/ Tick
    \/ Handle

\* The handler's goroutine is scheduled; its peers promise nothing.
Spec == Init /\ [][Next]_vars /\ WF_vars(Handle)

-----------------------------------------------------------------------------
Requests == 1 .. MaxRequests

Blocks == [reqs : Seq(Requests),
           resps : Seq([of : 0 .. Unasked, latency : 0 .. MaxTime])]

\* The state of a handler and of its streams.
TypeOK ==
    /\ protocol \in Protocols
    /\ costShown \in CostFilters
    /\ midstream \in BOOLEAN
    /\ asked \in Seq(Traffic) /\ Len(asked) <= MaxRequests
    /\ askedAt \in 0 .. now
    /\ owed \in Seq(Requests)
    /\ upset \in 1 .. Never
    /\ up \in Seq(Requests)
    /\ down \in Seq([of : 0 .. Unasked, tag : Tags])
    /\ closed \in BOOLEAN
    /\ now \in 0 .. MaxTime
    /\ pc \in {"greeting", "request", "discard", "response", "triple", "tail",
               "drainDown", "drainUp", "done"}
    /\ reqTime \in 0 .. now
    /\ buf \in Blocks
    /\ count = 0 \/ count \in 1 .. Profile.reads - 1
    /\ out \in Seq(Blocks)

\* The requests printed, in the order of printing.
Printed ==
    LET reqs[i \in 0 .. Len(out)] == IF i = 0 THEN <<>> ELSE reqs[i - 1] \o out[i].reqs
    IN  reqs[Len(out)]

\* The requests that a reader of the output expects to see.
Visible ==
    {i \in 1 .. Len(asked) :
        LET k == asked[i] IN ~Hides(k) /\ ~Repeats(k) /\ "bad" \notin k}

\* The last request was printed twice.
Doubled == Len(Printed) > 1 /\ Printed[Len(Printed)] = Printed[Len(Printed) - 1]

\* Requests are printed in their order and once each.  The one exception is a
\* request whose response could not be read: protocols that stop there send
\* its block once before and once after leaving the loop.
PrintedInOrder ==
    \A i, j \in 1 .. Len(Printed) :
        i < j => \/ Printed[i] < Printed[j]
                 \/ /\ Printed[i] = Printed[j]
                    /\ i + 1 = j /\ j = Len(Printed)
                    /\ Profile.failed = "stop"
                    /\ pc \in {"drainDown", "drainUp", "done"}

\* The requests before the point where the handler left the loop: the first
\* request it could not read, or the end of the request it printed twice.
Reached ==
    {i \in 1 .. Len(asked) :
        \/ protocol = "triple"
        \/ /\ \A j \in 1 .. i : "bad" \notin asked[j]
           /\ Doubled => i <= Printed[Len(Printed)]}

IsPrinted(i) == \E n \in 1 .. Len(Printed) : Printed[n] = i

\* With no cost filter, a handler that has ended has printed every request
\* it should show up to the point where it left the loop.
NothingSkipped ==
    pc = "done" /\ costShown = 0 .. MaxTime =>
        \A i \in Visible \cap Reached : IsPrinted(i)

\* The i-th request leaves requests and responses out of step: it is answered
\* and no response is read for it (a heartbeat, a repeated request, a rejected
\* one), or the other way round.
Skews(i) ==
    LET k == asked[i]
        read == IF Repeats(k) \/ (Hides(k) /\ Profile.filter = "skip") THEN 0
                ELSE IF Awaits(k) THEN 1 ELSE 0 IN
    (IF "oneway" \in k THEN 0 ELSE 1) # read

\* A cost filter hides no request that got no answer, the slowest of all:
\* only a response that was read can be too fast or too slow.  Where the
\* streams are out of step that may be the response of another request.
UnansweredPrinted ==
    pc = "done" =>
        \A i \in Visible \cap Reached :
            /\ \E n \in 1 .. Len(owed) : owed[n] = i
            /\ i < upset /\ \A j \in 1 .. i : ~Skews(j)
            => IsPrinted(i)

\* The README pairs requests with their responses.  Of such pairs this asks no
\* more than that a block errs in one direction: it holds no response of an
\* earlier request, or none of a later one.
PairedUpToShift ==
    \A n \in 1 .. Len(out) :
        LET of == {out[n].resps[m].of : m \in 1 .. Len(out[n].resps)} IN
        out[n].reqs # <<>> =>
            \/ \A i \in of : i >= out[n].reqs[1]
            \/ \A i \in of : i <= out[n].reqs[1]

\* A handler that reads one response per request, or stops at the final one,
\* prints with each request its own responses, on four conditions: no request
\* up to it was skipped or taken for a heartbeat with its response unread; none
\* was awaited without getting one; the server had answered all of them in turn,
\* and sent nothing else, by the time their answers came; and its greeting was
\* captured.
MatchUntilSkewed ==
    (Profile.reads = 1 \/ Profile.stops) /\ ~midstream =>
        \A n \in 1 .. Len(out) :
            \A m \in 1 .. Len(out[n].resps) :
                LET r == out[n].reqs[1] IN
                r < upset /\ (\A i \in 1 .. r : ~Skews(i)) => out[n].resps[m].of = r

\* The latency printed with the response of the last request does not reach
\* back before that request was captured.
LatencyFromRequest ==
    \A n \in 1 .. Len(out) :
        \A m \in 1 .. Len(out[n].resps) :
            out[n].reqs = <<Len(asked)>> => out[n].resps[m].latency <= now - askedAt

\* Once the connection is finished its handler comes to an end, whichever
\* stream it waits on and however many responses it still expects.
HandlerEnds == closed ~> pc = "done"

=============================================================================
