---------------------------- MODULE TCPAssembler ----------------------------
(***************************************************************************)
(* TCPAssembler of tcpport/assembler.go with its two kinds of goroutine:   *)
(* the capture loop of main.go (Assemble, FlushOlderThan, FinishAll) and   *)
(* one handler per connection, which reads the two netStreams of its       *)
(* connection.  They share the bounded channels of the streams and, with   *)
(* no synchronisation at all, the streams' ignore flags.                   *)
(*                                                                         *)
(* Segments are indistinguishable tokens here (their order is the subject  *)
(* of ReceiveWindow): a stream is the number of segments in its window and *)
(* the number in its channel.  How many segments an acknowledgement        *)
(* releases, and whether insert drops a segment as a duplicate, are free.  *)
(* A handler is known by which stream it reads next; that choice is free   *)
(* except for what every Handle of main.go has in common.                  *)
(***************************************************************************)
EXTENDS Integers, FiniteSets

CONSTANTS
    Keys,           \* the connection keys, unordered pairs of endpoints
    Watched,        \* the keys that pass FilterIP and FilterPort
    MaxConns,       \* bound on the connections created
    MaxPackets,     \* bound on the packets captured
    ChanCap,        \* capacity of a stream's channel (1024)
    None            \* no connection under this key

ASSUME AssemblerAssumption ==
    /\ Watched \subseteq Keys
    /\ MaxConns \in Nat
    /\ MaxPackets \in Nat
    /\ ChanCap \in Nat \ {0}
    /\ None \notin 1 .. MaxConns

ConnIds == 1 .. MaxConns

Streams == {"up", "down"}

Other(s) == IF s = "up" THEN "down" ELSE "up"

\* The two endpoints of a key.
Sides == {"a", "b"}

VARIABLES
    dict,       \* connectionDict: key -> connection or None
    nconns,     \* number of connections created
    connKey,    \* conn.key
    client,     \* conn.ClientID, as a side of the key
    fresh,      \* connections whose lastTimestamp is within two minutes
    window,     \* segments in the receive window of each stream
    channel,    \* segments in the channel of each stream
    ending,     \* streams whose closed flag is set
    finished,   \* connections whose channels are closed
    ignore,     \* streams whose ignore flag is set
    peeked,     \* connections whose upstream has bytes put back by Prepend
    pc,         \* capture loop: "loop", "confirm", "finishing", "exited"
    cur,        \* the call of Assemble in progress
    left,       \* packets still to be captured
    handler,    \* where the handler goroutine of each connection is
    panic,      \* a close of a closed channel or a send on one has happened
    modes       \* how the program was started, see Modes

mainVars == <<dict, nconns, connKey, client, fresh, window, ending,
              finished, pc, cur, left, panic, modes>>

vars == <<dict, nconns, connKey, client, fresh, window, channel,
          ending, finished, ignore, peeked, pc, cur, left, handler, panic, modes>>

\* "auto": no protocol was named, detect it instead of accepting every
\* payload; "offline": packets come from a file, with the file's timestamps.
Modes == {"auto", "offline"}

\* What Assemble has left to do: the connection, the stream that the packet
\* acknowledges, the segments to release on it, and whether it ends the other.
Idle == [conn |-> 0, stream |-> "up", count |-> 0, fin |-> FALSE]

Calls == [conn : 0 .. MaxConns, stream : Streams, count : Nat, fin : BOOLEAN]

HandlerStates ==
    {"none", "start", "peek", "readUp", "readDown", "drainDown", "drainUp",
     "closeDown", "closeUp", "done", "rejectUp", "rejectDown", "rejected"}

Init ==
    /\ dict = [k \in Keys |-> None]
    /\ nconns = 0
    /\ connKey = [c \in ConnIds |-> None]
    /\ client = [c \in ConnIds |-> "a"]
    /\ fresh = {}
    /\ window = [c \in ConnIds |-> [s \in Streams |-> 0]]
    /\ channel = [c \in ConnIds |-> [s \in Streams |-> 0]]
    /\ ending = [c \in ConnIds |-> {}]
    /\ finished = {}
    /\ ignore = [c \in ConnIds |-> {}]
    /\ peeked = {}
    /\ pc = "loop"
    /\ cur = Idle
    /\ left = MaxPackets
    /\ handler = [c \in ConnIds |-> "none"]
    /\ panic = FALSE
    /\ modes \in SUBSET Modes

-----------------------------------------------------------------------------
(***************************************************************************)
(* Assemble.                                                               *)
(***************************************************************************)

\* A captured packet: where it belongs, who sent it, its flags (fin stands
\* for FIN or RST), whether it has a payload and whether the detector of
\* main.go accepts the payload.
Packets ==
    {p \in [key : Keys, src : Sides, syn : BOOLEAN, ack : BOOLEAN,
            fin : BOOLEAN, data : BOOLEAN, detected : BOOLEAN] :
        /\ p.detected => p.data \/ "auto" \notin modes
        /\ "auto" \notin modes => p.detected
        /\ p.syn => ~p.data /\ ~p.fin}

CreatesConn(p) == (p.syn /\ ~p.ack) \/ p.detected

\* What a read of the ignore flag of a stream may return: the handler sets
\* it without synchronisation, so the capture loop may miss it.
IgnoreRead(c, s) == {b \in BOOLEAN : b => s \in ignore[c]}

\* Filtered out, or of no known connection and not creating one.
AssembleIgnored(p) ==
    /\ pc = "loop"
    /\ left > 0
    /\ p.key \notin Watched \/ (dict[p.key] = None /\ ~CreatesConn(p))
    /\ left' = left - 1
    /\ UNCHANGED <<dict, nconns, connKey, client, fresh, window,
                   channel, ending, finished, ignore, peeked, pc, cur, handler,
                   panic, modes>>

\* onReceive up to the release loop: the segment enters the sender's window,
\* and the acknowledgement will release part of the other one.
OnReceive(c, p, cl) ==
    LET s == IF cl = p.src THEN "up" ELSE "down" IN
    /\ fresh' \in {fresh \cup {c}} \cup (IF "offline" \in modes THEN {fresh} ELSE {})
    /\ \E skip \in IgnoreRead(c, s), add \in {0, 1} :
          /\ add = 1 => p.data /\ ~skip
          /\ window' = [window EXCEPT ![c][s] = @ + add]
    /\ \E skip \in IgnoreRead(c, Other(s)), n \in 0 .. window[c][Other(s)] :
          /\ n > 0 => p.ack /\ ~skip
          /\ cur' = [conn |-> c, stream |-> Other(s), count |-> n, fin |-> p.fin]
    /\ pc' = "confirm"
    /\ left' = left - 1

AssembleKnown(p) ==
    /\ pc = "loop"
    /\ left > 0
    /\ p.key \in Watched
    /\ dict[p.key] # None
    /\ OnReceive(dict[p.key], p, client[dict[p.key]])
    /\ UNCHANGED <<dict, nconns, connKey, client, channel, ending,
                   finished, ignore, peeked, handler, panic, modes>>

\* retrieveConnection creates the connection and starts its handler; the
\* packet then makes its sender the client.
AssembleNew(p) ==
    LET c == nconns + 1 IN
    /\ pc = "loop"
    /\ left > 0
    /\ nconns < MaxConns
    /\ p.key \in Watched
    /\ dict[p.key] = None
    /\ CreatesConn(p)
    /\ nconns' = c
    /\ dict' = [dict EXCEPT ![p.key] = c]
    /\ connKey' = [connKey EXCEPT ![c] = p.key]
    /\ client' = [client EXCEPT ![c] = p.src]
    /\ handler' = [handler EXCEPT ![c] = "start"]
    /\ OnReceive(c, p, p.src)
    /\ UNCHANGED <<channel, ending, finished, ignore, peeked, panic, modes>>

\* Fault: the channel has no limit.
ConfirmSendUnbounded ==
    LET c == cur.conn
        s == cur.stream IN
    /\ pc = "confirm"
    /\ cur.count > 0
    /\ panic' = (panic \/ c \in finished)
    /\ window' = [window EXCEPT ![c][s] = @ - 1]
    /\ channel' = [channel EXCEPT ![c][s] = @ + 1]
    /\ cur' = [cur EXCEPT !.count = @ - 1]
    /\ UNCHANGED <<dict, nconns, connKey, client, fresh, ending, finished,
                   ignore, peeked, pc, left, handler, modes>>

\* One iteration of the release loop: it blocks while the channel is full.
ConfirmSend ==
    LET c == cur.conn
        s == cur.stream IN
    /\ pc = "confirm"
    /\ cur.count > 0
    /\ c \in finished \/ channel[c][s] < ChanCap
    /\ panic' = (panic \/ c \in finished)
    /\ window' = [window EXCEPT ![c][s] = @ - 1]
    /\ channel' = [channel EXCEPT ![c][s] = @ + 1]
    /\ cur' = [cur EXCEPT !.count = @ - 1]
    /\ UNCHANGED <<dict, nconns, connKey, client, fresh, ending,
                   finished, ignore, peeked, pc, left, handler, modes>>

\* finish of every connection of S: closing a channel twice panics.
Finish(S) ==
    /\ finished' = finished \cup S
    /\ panic' = (panic \/ S \cap finished # {})

\* Fault: a connection whose streams both ended is forgotten, not finished.
EndAssembleUnfinished ==
    LET c == cur.conn
        e == IF cur.fin THEN ending[c] \cup {Other(cur.stream)} ELSE ending[c] IN
    /\ pc = "confirm"
    /\ cur.count = 0
    /\ ending' = [ending EXCEPT ![c] = e]
    /\ dict' = IF e = Streams THEN [dict EXCEPT ![connKey[c]] = None] ELSE dict
    /\ pc' = "loop"
    /\ cur' = Idle
    /\ UNCHANGED <<nconns, connKey, client, fresh, window, channel, finished,
                   ignore, peeked, left, handler, panic, modes>>

\* The rest of onReceive and of Assemble: a FIN or RST ends the sender's
\* stream, and with both ended the connection is forgotten and finished.
EndAssemble ==
    LET c == cur.conn
        e == IF cur.fin THEN ending[c] \cup {Other(cur.stream)} ELSE ending[c] IN
    /\ pc = "confirm"
    /\ cur.count = 0
    /\ ending' = [ending EXCEPT ![c] = e]
    /\ \/ /\ e # Streams
          /\ UNCHANGED <<dict, finished, panic>>
       \/ /\ e = Streams
          /\ dict' = [dict EXCEPT ![connKey[c]] = None]
          /\ Finish({c})
    /\ pc' = "loop"
    /\ cur' = Idle
    /\ UNCHANGED <<nconns, connKey, client, fresh, window, channel,
                   ignore, peeked, left, handler, modes>>

-----------------------------------------------------------------------------
(***************************************************************************)
(* The rest of the capture loop.                                           *)
(***************************************************************************)

\* Time passes: two minutes after its last packet a connection is old.
Age(c) ==
    /\ c \in fresh
    /\ fresh' = fresh \ {c}
    /\ UNCHANGED <<dict, nconns, connKey, client, window, channel,
                   ending, finished, ignore, peeked, pc, cur, left, handler,
                   panic, modes>>

Linked == {dict[k] : k \in Keys} \ {None}

\* Fault: the flushed connections stay in the dictionary.
FlushOlderThanKeeps ==
    LET S == Linked \ fresh IN
    /\ pc = "loop"
    /\ S # {}
    /\ ending' = [c \in ConnIds |-> IF c \in S THEN Streams ELSE ending[c]]
    /\ Finish(S)
    /\ UNCHANGED <<dict, nconns, connKey, client, fresh, window, channel,
                   ignore, peeked, pc, cur, left, handler, modes>>

\* The ticker fires: FlushOlderThan two minutes ago.
FlushOlderThan ==
    LET S == Linked \ fresh IN
    /\ pc = "loop"
    /\ S # {}
    /\ dict' = [k \in Keys |-> IF dict[k] \in S THEN None ELSE dict[k]]
    /\ ending' = [c \in ConnIds |-> IF c \in S THEN Streams ELSE ending[c]]
    /\ Finish(S)
    /\ UNCHANGED <<nconns, connKey, client, fresh, window, channel,
                   ignore, peeked, pc, cur, left, handler, modes>>

\* The packet source is exhausted: FinishAll, which drops the dictionary.
FinishAll ==
    /\ pc = "loop"
    /\ left = 0
    /\ Finish(Linked)
    /\ dict' = [k \in Keys |-> None]
    /\ pc' = "finishing"
    /\ UNCHANGED <<nconns, connKey, client, fresh, window, channel,
                   ending, ignore, peeked, cur, left, handler, modes>>

\* main returns and takes every goroutine with it.
Exit ==
    /\ pc = "finishing"
    /\ pc' = "exited"
    /\ UNCHANGED <<dict, nconns, connKey, client, fresh, window,
                   channel, ending, finished, ignore, peeked, cur, left, handler,
                   panic, modes>>

Main ==
    \/ \E p \in Packets : AssembleIgnored(p) \/ AssembleKnown(p) \/ AssembleNew(p)
    \/ ConfirmSend
    \/ EndAssemble
    \/ FlushOlderThan
    \/ FinishAll
    \/ Exit

-----------------------------------------------------------------------------
(***************************************************************************)
(* The handler of a connection.  Each Handle reads a request from the      *)
(* upstream, then possibly responses from the downstream, and starts over  *)
(* (MySQL reads a greeting first); it ends with the request stream, or     *)
(* earlier on a message it cannot read.  Its deferred calls then discard   *)
(* the rest of the downstream, the rest of the upstream, and set the       *)
(* ignore flags.  The auto handler peeks at the upstream first and rejects *)
(* an unknown protocol without discarding anything.                        *)
(***************************************************************************)
GoTo(c, h) == handler' = [handler EXCEPT ![c] = h]

\* Fault: Handle gives up before it has deferred the discarding of its streams.
HandlerStartGivesUp(c) ==
    /\ pc # "exited"
    /\ handler[c] = "start"
    /\ GoTo(c, "done")
    /\ UNCHANGED <<mainVars, channel, ignore, peeked>>

HandlerStart(c) ==
    /\ pc # "exited"
    /\ handler[c] = "start"
    /\ \/ "auto" \in modes /\ GoTo(c, "peek")
       \/ "auto" \notin modes /\ (GoTo(c, "readUp") \/ GoTo(c, "readDown"))
    /\ UNCHANGED <<mainVars, channel, ignore, peeked>>

\* netStream.Read gets the bytes put back, or a segment from the channel ...
Receive(c, s) ==
    \/ /\ s = "up" /\ c \in peeked
       /\ peeked' = peeked \ {c}
       /\ UNCHANGED channel
    \/ /\ ~(s = "up" /\ c \in peeked)
       /\ channel[c][s] > 0
       /\ channel' = [channel EXCEPT ![c][s] = @ - 1]
       /\ UNCHANGED peeked

\* ... or io.EOF once the channel is closed and empty.
ReceiveEOF(c, s) ==
    /\ ~(s = "up" /\ c \in peeked)
    /\ channel[c][s] = 0
    /\ c \in finished
    /\ UNCHANGED <<channel, peeked>>

\* autoHandler: the first bytes decide, and are put back with Prepend.
Peek(c) ==
    /\ pc # "exited"
    /\ handler[c] = "peek"
    /\ \/ /\ channel[c]["up"] > 0
          /\ channel' = [channel EXCEPT ![c]["up"] = @ - 1]
          /\ peeked' = peeked \cup {c}
          /\ \/ GoTo(c, "readUp") \/ GoTo(c, "readDown") \/ GoTo(c, "rejectUp")
       \/ ReceiveEOF(c, "up") /\ GoTo(c, "rejectUp")
    /\ UNCHANGED <<mainVars, ignore>>

ReadUp(c) ==
    /\ pc # "exited"
    /\ handler[c] = "readUp"
    /\ \/ /\ Receive(c, "up")
          /\ \/ GoTo(c, "readUp") \/ GoTo(c, "readDown") \/ GoTo(c, "drainDown")
       \/ ReceiveEOF(c, "up") /\ GoTo(c, "drainDown")
    /\ UNCHANGED <<mainVars, ignore>>

\* Fault: the end of the downstream is not noticed.
ReadDownForever(c) ==
    /\ pc # "exited"
    /\ handler[c] = "readDown"
    /\ \/ /\ Receive(c, "down")
          /\ \/ GoTo(c, "readUp") \/ GoTo(c, "readDown") \/ GoTo(c, "drainDown")
       \/ ReceiveEOF(c, "down") /\ GoTo(c, "readDown")
    /\ UNCHANGED <<mainVars, ignore>>


ReadDown(c) ==
    /\ pc # "exited"
    /\ handler[c] = "readDown"
    /\ \/ /\ Receive(c, "down")
          /\ \/ GoTo(c, "readUp") \/ GoTo(c, "readDown") \/ GoTo(c, "drainDown")
       \/ /\ ReceiveEOF(c, "down")
          /\ GoTo(c, "readUp") \/ GoTo(c, "drainDown")
    /\ UNCHANGED <<mainVars, ignore>>

\* DiscardAll on one stream after the other.
Drain(c, s, here, next) ==
    /\ pc # "exited"
    /\ handler[c] = here
    /\ \/ Receive(c, s) /\ UNCHANGED handler
       \/ ReceiveEOF(c, s) /\ GoTo(c, next)
    /\ UNCHANGED <<mainVars, ignore>>

DrainDown(c) == Drain(c, "down", "drainDown", "drainUp")

\* Fault: the rest of the upstream is not discarded.
DrainUpSkipped(c) ==
    /\ pc # "exited"
    /\ handler[c] = "drainUp"
    /\ GoTo(c, "closeDown")
    /\ UNCHANGED <<mainVars, channel, ignore, peeked>>


DrainUp(c) == Drain(c, "up", "drainUp", "closeDown")

\* netStream.Close only sets the flag.
CloseStream(c, s, here, next) ==
    /\ pc # "exited"
    /\ handler[c] = here
    /\ ignore' = [ignore EXCEPT ![c] = @ \cup {s}]
    /\ GoTo(c, next)
    /\ UNCHANGED <<mainVars, channel, peeked>>

CloseDown(c) == CloseStream(c, "down", "closeDown", "closeUp")

CloseUp(c) == CloseStream(c, "up", "closeUp", "done")

RejectUp(c) == CloseStream(c, "up", "rejectUp", "rejectDown")

RejectDown(c) == CloseStream(c, "down", "rejectDown", "rejected")

Handle(c) ==
    \/ HandlerStart(c)
    \/ Peek(c)
    \/ ReadUp(c)
    \/ ReadDown(c)
    \/ DrainDown(c)
    \/ DrainUp(c)
    \/ CloseDown(c)
    \/ CloseUp(c)
    \/ RejectUp(c)
    \/ RejectDown(c)

-----------------------------------------------------------------------------
Next ==
    \/ Main
    \/ \E c \in ConnIds : Age(c)
    \/ \E c \in ConnIds : Handle(c)

\* The Go scheduler runs every goroutine that can run; the source of packets
\* and the clock promise nothing.
Fairness ==
    /\ WF_vars(ConfirmSend)
    /\ WF_vars(EndAssemble)
    /\ \A c \in ConnIds : WF_vars(Handle(c))

Spec == Init /\ [][Next]_vars /\ Fairness

-----------------------------------------------------------------------------
\* The values of the state; no channel holds more than its capacity.
TypeOK ==
    /\ dict \in [Keys -> ConnIds \cup {None}]
    /\ nconns \in 0 .. MaxConns
    /\ connKey \in [ConnIds -> Keys \cup {None}]
    /\ client \in [ConnIds -> Sides]
    /\ fresh \subseteq ConnIds
    /\ window \in [ConnIds -> [Streams -> Nat]]
    /\ channel \in [ConnIds -> [Streams -> 0 .. ChanCap]]
    /\ ending \in [ConnIds -> SUBSET Streams]
    /\ finished \subseteq ConnIds
    /\ ignore \in [ConnIds -> SUBSET Streams]
    /\ peeked \subseteq ConnIds
    /\ pc \in {"loop", "confirm", "finishing", "exited"}
    /\ cur \in Calls
    /\ left \in 0 .. MaxPackets
    /\ handler \in [ConnIds -> HandlerStates]
    /\ panic \in BOOLEAN
    /\ modes \subseteq Modes

\* No sequence of packets, ticks and the end of the capture makes the
\* capture loop close a stream's channel twice or send on a closed one,
\* either of which is a Go panic that ends the program.
NoPanic == ~panic

\* A connection's channels are open exactly while the dictionary can find
\* it: its handler gets an end of stream if, and only if, no packet can
\* reach the connection any more.
OpenIffLinked == Linked = (1 .. nconns) \ finished

\* A handler that recognised its protocol ends only once both of its streams
\* are closed and read to the end, so it leaves no full channel behind for
\* the capture loop to block on.
EndsDrained ==
    \A c \in ConnIds :
        handler[c] \in {"closeDown", "closeUp", "done"} =>
            c \in finished /\ \A s \in Streams : channel[c][s] = 0

\* The handler waits for a segment or the end of stream s, and neither is
\* there; or it has ended.
WaitsOn(c, s) ==
    /\ handler[c] \in (IF s = "up" THEN {"peek", "readUp", "drainUp"}
                                   ELSE {"readDown", "drainDown"})
    /\ channel[c][s] = 0
    /\ c \notin finished
    /\ ~(s = "up" /\ c \in peeked)

\* The capture loop is blocked on a full channel whose reader is waiting for
\* the other stream of the same connection, or is gone.
Stalled ==
    LET c == cur.conn
        s == cur.stream IN
    /\ pc = "confirm"
    /\ cur.count > 0
    /\ channel[c][s] = ChanCap
    /\ WaitsOn(c, Other(s)) \/ handler[c] \in {"rejectUp", "rejectDown", "rejected"}

\* A call of Assemble comes to an end, except when the handler of that very
\* connection waits for its other stream (or rejected the connection): no
\* other connection's handler can hold up the capture loop.
AssembleReturns == pc = "confirm" ~> pc # "confirm" \/ Stalled

\* Once a connection is finished its handler ends, unless the program ends
\* first; a capture loop stalled on another connection does not prevent it.
FinishedHandlerEnds ==
    \A c \in ConnIds :
        c \in finished ~> handler[c] \in {"done", "rejected"} \/ pc = "exited"

=============================================================================
