--------------------------- MODULE HandlersProofs ---------------------------
(***************************************************************************)
(* The handlers, for any number of requests, any traffic and any answers:  *)
(* requests are printed in their order.  HandlersExchangeProofs goes on to *)
(* what is printed with them.                                              *)
(***************************************************************************)
EXTENDS Handlers, RecursionFacts, SequenceTheorems

-----------------------------------------------------------------------------
(***************************************************************************)
(* The inductive invariant.                                                *)
(***************************************************************************)

\* The handler is in its loop; it has left it.
Looping == {"greeting", "request", "discard", "response"}
Leaving == {"tail", "drainDown", "drainUp", "done"}

\* The requests the handler has read so far, while it is in its loop.
ReadSoFar == Len(asked) - Len(up)

\* The request stream holds the requests that were not read, in order.
UpInOrder ==
    /\ Len(up) <= Len(asked)
    /\ \A i \in 1 .. Len(up) : up[i] = ReadSoFar + i

\* What the handler knows about the request it is working on.
Control ==
    /\ midstream => Profile.greets
    /\ pc \in Looping \cup {"triple"} => UpInOrder
    /\ pc \in Looping => protocol # "triple"
    /\ pc = "triple" => protocol = "triple" /\ out = <<>> /\ buf.resps = <<>>
    /\ pc \in {"greeting", "request", "discard"} => buf = Empty /\ count = 0
    /\ pc = "greeting" => Profile.greets /\ ReadSoFar = 0
    /\ pc = "discard" =>
          LET k == asked[ReadSoFar] IN
          ReadSoFar >= 1 /\ Hides(k) /\ ~Repeats(k) /\ Profile.filter = "read"
    /\ pc = "response" =>
          LET k == asked[ReadSoFar] IN
          /\ ReadSoFar >= 1 /\ Profile.reads > 0 /\ buf.reqs = <<ReadSoFar>>
          /\ ~Hides(k) /\ ~Repeats(k) /\ Awaits(k)

Increasing(s) == \A i, j \in 1 .. Len(s) : i < j => s[i] < s[j]

\* What has been printed, and what the buffer adds to it.
PrintOrder ==
    /\ pc \in Looping \cup {"triple", "tail"} => Increasing(Printed)
    /\ pc \in Looping => \A n \in 1 .. Len(Printed) : Printed[n] <= ReadSoFar
    /\ pc = "response" => \A n \in 1 .. Len(Printed) : Printed[n] < ReadSoFar
    /\ pc = "triple" => \A n \in 1 .. Len(buf.reqs) : buf.reqs[n] <= ReadSoFar
    /\ pc \in {"triple", "tail"} =>
          \/ Printed = <<>> /\ Increasing(buf.reqs)
          \/ buf.reqs = <<>>
          \/ /\ Profile.failed = "stop" /\ Len(Printed) > 0
             /\ buf.reqs = <<Printed[Len(Printed)]>>
    /\ PrintedInOrder

OrderInv == TypeOK /\ Control /\ PrintOrder

\* A step of one of the two ends of the connection or of the clock.
TrafficStep ==
    \/ \E k \in Kinds : Ask(k)
    \/ \E n \in 1 .. Len(owed), tags \in Answers : Answer(n, tags)
    \/ Push
    \/ Close
    \/ Tick

-----------------------------------------------------------------------------
(***************************************************************************)
(* The profiles.                                                           *)
(***************************************************************************)

\* The decisions of every Handle that the proofs rely on.
ProfileOK(p) ==
    LET f == ProfileOf[p] IN
    /\ f.reads \in Nat
    /\ f.failed \in {"stop", "next"}
    /\ f.filter \in {"none", "skip", "read"}
    /\ f.cost \in {"none", "block", "response"}
    /\ f.cost = "block" => f.reads = 1 /\ ~f.greets
    /\ f.filter = "read" => ~f.oneway /\ f.reads = 1
    /\ f.stops => p = "mysql"
    /\ p = "mysql" => f.reads = MySQLReads /\ f.greets /\ f.stops
    /\ p = "triple" => ~f.greets

LEMMA ProfileFacts == ASSUME protocol \in Protocols PROVE ProfileOK(protocol)
  <1>1. protocol \in {"dubbo", "triple", "redis", "rocketmq", "mysql", "mongo", "http",
                      "websocket", "zookeeper", "nacos"}
    BY ProtocolsAssumption DEF ProfileOf
  <1> USE HandlersAssumption DEF ProfileOK, ProfileOf, Plain
  <1>2. CASE protocol = "dubbo"
    BY <1>2 DEF Dubbo
  <1>3. CASE protocol = "triple"
    BY <1>3 DEF Triple
  <1>4. CASE protocol = "redis"
    BY <1>4 DEF Redis
  <1>5. CASE protocol = "rocketmq"
    BY <1>5 DEF RocketMQ
  <1>6. CASE protocol = "mysql"
    BY <1>6 DEF MySQL
  <1>7. CASE protocol = "mongo"
    BY <1>7 DEF Mongo
  <1>8. CASE protocol = "http"
    BY <1>8 DEF HTTP
  <1>9. CASE protocol = "websocket"
    BY <1>9 DEF WebSocket
  <1>10. CASE protocol = "zookeeper"
    BY <1>10 DEF ZooKeeper
  <1>11. CASE protocol = "nacos"
    BY <1>11 DEF Nacos
  <1> QED
    BY <1>1, <1>2, <1>3, <1>4, <1>5, <1>6, <1>7, <1>8, <1>9, <1>10, <1>11

-----------------------------------------------------------------------------
(***************************************************************************)
(* The type invariant.                                                     *)
(***************************************************************************)

Responses == [of : 0 .. Unasked, tag : Tags]

PrintedResponses == [of : 0 .. Unasked, latency : 0 .. MaxTime]

\* A queue that is read from.
LEMMA QueueFacts ==
    ASSUME NEW S, NEW q \in Seq(S)
    PROVE  /\ Len(q) \in Nat
           /\ Rest(q) \in Seq(S)
           /\ \A i \in 1 .. Len(q) : q[i] \in S
           /\ q # <<>> => /\ Len(q) > 0 /\ Head(q) = q[1] /\ Head(q) \in S
                          /\ Tail(q) \in Seq(S) /\ Len(Tail(q)) = Len(q) - 1
                          /\ Rest(q) = Tail(q)
                          /\ \A i \in 1 .. Len(q) - 1 : Tail(q)[i] = q[i + 1]
           /\ q = <<>> <=> Len(q) = 0
  <1>1. Len(q) \in Nat /\ \A i \in 1 .. Len(q) : q[i] \in S
    BY LenProperties, ElementOfSeq
  <1>2. <<>> \in Seq(S) /\ Len(<<>>) = 0 /\ (q # <<>> => Len(q) \in Nat \ {0})
    BY EmptySeq
  <1>3. CASE q = <<>>
    BY <1>1, <1>2, <1>3 DEF Rest
  <1>4. CASE q # <<>>
    <2>1. /\ Head(q) \in S /\ Tail(q) \in Seq(S) /\ Len(Tail(q)) = Len(q) - 1
          /\ \A i \in 1 .. Len(Tail(q)) : Tail(q)[i] = q[i + 1]
      BY <1>4, HeadTailProperties
    <2>2. Head(q) = q[1]
      BY <1>4
    <2> QED
      BY <1>1, <1>2, <1>4, <2>1, <2>2 DEF Rest
  <1> QED
    BY <1>3, <1>4

\* The empty block is a block, and so is one with one request.
LEMMA BlockFacts ==
    /\ Empty \in Blocks
    /\ Empty.reqs = <<>> /\ Empty.resps = <<>>
    /\ \A r \in Requests :
          LET b == [Empty EXCEPT !.reqs = <<r>>] IN
          b \in Blocks /\ b.reqs = <<r>> /\ b.resps = <<>>
    /\ \A b \in Blocks, r \in Requests :
          LET c == [b EXCEPT !.reqs = Append(@, r)] IN
          c \in Blocks /\ c.reqs = Append(b.reqs, r) /\ c.resps = b.resps
    /\ \A b \in Blocks, r \in PrintedResponses :
          LET c == [b EXCEPT !.resps = Append(@, r)] IN
          c \in Blocks /\ c.reqs = b.reqs /\ c.resps = Append(b.resps, r)
  <1>1. <<>> \in Seq(Requests) /\ <<>> \in Seq(PrintedResponses)
    BY EmptySeq
  <1>2. \A r \in Requests : <<r>> \in Seq(Requests)
    OBVIOUS
  <1>3. \A q \in Seq(Requests), r \in Requests : Append(q, r) \in Seq(Requests)
    BY AppendProperties
  <1>4. \A q \in Seq(PrintedResponses), r \in PrintedResponses :
           Append(q, r) \in Seq(PrintedResponses)
    BY AppendProperties
  <1>5. Blocks = [reqs : Seq(Requests), resps : Seq(PrintedResponses)]
    BY DEF Blocks, PrintedResponses
  <1>6. \A r \in Requests :
          LET b == [Empty EXCEPT !.reqs = <<r>>] IN
          b \in Blocks /\ b.reqs = <<r>> /\ b.resps = <<>>
    BY <1>1, <1>2, <1>5 DEF Empty
  <1>7. \A b \in Blocks, r \in Requests :
          LET c == [b EXCEPT !.reqs = Append(@, r)] IN
          c \in Blocks /\ c.reqs = Append(b.reqs, r) /\ c.resps = b.resps
    BY <1>3, <1>5
  <1>8. \A b \in Blocks, r \in PrintedResponses :
          LET c == [b EXCEPT !.resps = Append(@, r)] IN
          c \in Blocks /\ c.reqs = b.reqs /\ c.resps = Append(b.resps, r)
    BY <1>4, <1>5
  <1> QED
    BY <1>1, <1>5, <1>6, <1>7, <1>8 DEF Empty

\* The initial state has its type.
LEMMA TypeInit == Init => TypeOK
  <1> SUFFICES ASSUME Init PROVE TypeOK
    OBVIOUS
  <1>1. /\ <<>> \in Seq(Traffic) /\ <<>> \in Seq(Requests)
        /\ <<>> \in Seq(Responses) /\ <<>> \in Seq(Blocks) /\ Len(<<>>) = 0
    BY EmptySeq
  <1>2. [of |-> 0, tag |-> "more"] \in Responses
    BY HandlersAssumption DEF Responses, Tags, Unasked
  <1>3. <<[of |-> 0, tag |-> "more"]>> \in Seq(Responses)
    BY <1>2
  <1>4. down \in Seq(Responses)
    BY <1>1, <1>3 DEF Init
  <1>5. midstream \in BOOLEAN
    BY DEF Init
  <1>6. /\ asked \in Seq(Traffic) /\ Len(asked) <= MaxRequests
        /\ upset \in 1 .. Never
        /\ owed \in Seq(Requests) /\ up \in Seq(Requests) /\ out \in Seq(Blocks)
    BY <1>1, HandlersAssumption DEF Init, Never
  <1>7. buf \in Blocks
    BY BlockFacts DEF Init
  <1>8. now \in 0 .. MaxTime /\ reqTime \in 0 .. now /\ askedAt \in 0 .. now /\ count = 0
    BY HandlersAssumption DEF Init
  <1> QED
    BY <1>4, <1>5, <1>6, <1>7, <1>8 DEF Init, TypeOK, Responses

\* A sequence with its n-th element taken out.
LEMMA RemoveFacts ==
    ASSUME NEW S, NEW q \in Seq(S), NEW n \in 1 .. Len(q)
    PROVE  LET r == SubSeq(q, 1, n - 1) \o SubSeq(q, n + 1, Len(q)) IN
           /\ r \in Seq(S) /\ Len(r) = Len(q) - 1
           /\ \A i \in 1 .. Len(q) - 1 : r[i] = IF i < n THEN q[i] ELSE q[i + 1]
  <1> DEFINE a == SubSeq(q, 1, n - 1)
             b == SubSeq(q, n + 1, Len(q))
  <1>1. Len(q) \in Nat /\ \A i \in 1 .. Len(q) : q[i] \in S
    BY LenProperties, ElementOfSeq
  <1>2. a \in Seq(S) /\ Len(a) = n - 1 /\ \A i \in 1 .. n - 1 : a[i] = q[i]
    BY <1>1, SubSeqProperties
  <1>3. /\ b \in Seq(S) /\ Len(b) = Len(q) - n
        /\ \A i \in 1 .. Len(q) - n : b[i] = q[n + i]
    BY <1>1, SubSeqProperties
  <1> HIDE DEF a, b
  <1>4. /\ a \o b \in Seq(S) /\ Len(a \o b) = Len(q) - 1
        /\ \A i \in 1 .. Len(q) - 1 :
              (a \o b)[i] = IF i <= n - 1 THEN a[i] ELSE b[i - (n - 1)]
    <2>1. Len(a) \in Nat /\ Len(b) \in Nat /\ Len(a) + Len(b) = Len(q) - 1
      BY <1>1, <1>2, <1>3
    <2>2. a \o b \in Seq(S) /\ Len(a \o b) = Len(a) + Len(b)
      BY <1>2, <1>3, ConcatProperties
    <2>3. \A i \in 1 .. Len(a) + Len(b) :
             (a \o b)[i] = IF i <= Len(a) THEN a[i] ELSE b[i - Len(a)]
      BY <1>2, <1>3, ConcatProperties
    <2> QED
      BY <1>2, <2>1, <2>2, <2>3
  <1>5. ASSUME NEW i \in 1 .. Len(q) - 1
        PROVE  (a \o b)[i] = IF i < n THEN q[i] ELSE q[i + 1]
    <2>1. CASE i < n
      BY <1>1, <1>2, <1>4, <2>1
    <2>2. CASE i >= n
      <3>1. i - (n - 1) \in 1 .. Len(q) - n /\ n + (i - (n - 1)) = i + 1
        BY <1>1, <2>2
      <3> QED
        BY <1>1, <1>3, <1>4, <2>2, <3>1
    <2>3. i < n \/ i >= n
      BY <1>1
    <2> QED
      BY <2>1, <2>2, <2>3
  <1> QED
    BY <1>4, <1>5 DEF a, b

\* The request due is one that was sent, or the next one.
LEMMA DueFacts ==
    ASSUME TypeOK
    PROVE  /\ Due \in 1 .. Never - 1
           /\ OutOfTurn => upset' \in 1 .. Never
  <1>1. Len(asked) \in Nat /\ Len(asked) <= MaxRequests /\ MaxRequests \in Nat
    BY LenProperties, HandlersAssumption DEF TypeOK
  <1>2. owed # <<>> => Head(owed) \in Requests
    BY QueueFacts DEF TypeOK
  <1>3. Due \in 1 .. Never - 1
    BY <1>1, <1>2 DEF Due, Never, Requests
  <1> QED
    BY <1>1, <1>3 DEF OutOfTurn, TypeOK, Never

\* The steps of the two ends of the connection and of the clock.
LEMMA TypeTraffic ==
    ASSUME TypeOK, TrafficStep
    PROVE  TypeOK'
  <1>1. ASSUME NEW k \in Kinds, Ask(k) PROVE TypeOK'
    <2>1. k \in Traffic /\ Len(asked) \in Nat /\ Len(asked) + 1 \in Requests
      BY <1>1, LenProperties, HandlersAssumption DEF Kinds, Ask, TypeOK, Requests
    <2>2. /\ asked' \in Seq(Traffic) /\ Len(asked') = Len(asked) + 1
          /\ Len(asked') <= MaxRequests
      BY <1>1, <2>1, AppendProperties, HandlersAssumption DEF Ask, TypeOK
    <2>3. askedAt' \in 0 .. now /\ UNCHANGED upset
      BY <1>1 DEF Ask, TypeOK
    <2>4. up' \in Seq(Requests) /\ owed' \in Seq(Requests)
      BY <1>1, <2>1, AppendProperties DEF Ask, TypeOK
    <2>5. Profile' = Profile
      BY <1>1 DEF Ask, Profile
    <2> QED
      BY <1>1, <2>2, <2>3, <2>4, <2>5 DEF Ask, TypeOK
  <1>2. ASSUME NEW n \in 1 .. Len(owed), NEW tags \in Answers, Answer(n, tags)
        PROVE  TypeOK'
    <2> DEFINE new == [i \in 1 .. Len(tags) |-> [of |-> owed[n], tag |-> tags[i]]]
    <2>1. /\ tags \in Seq(Tags) /\ Len(tags) \in Nat
          /\ \A i \in 1 .. Len(tags) : tags[i] \in Tags
      BY HandlersAssumption, QueueFacts
    <2>2. owed[n] \in Requests /\ owed' \in Seq(Requests)
      BY <1>2, QueueFacts, RemoveFacts DEF Answer, TypeOK
    <2>3. \A i \in 1 .. Len(tags) : [of |-> owed[n], tag |-> tags[i]] \in Responses
      BY <2>1, <2>2, HandlersAssumption DEF Responses, Requests, Unasked
    <2>4. new \in Seq(Responses)
      BY <2>1, <2>3
    <2>5. down' \in Seq(Responses)
      <3>1. down' = down \o new /\ down \in Seq(Responses)
        BY <1>2 DEF Answer, TypeOK, Responses
      <3> HIDE DEF new
      <3> QED
        BY <2>4, <3>1, ConcatProperties
    <2>6. Profile' = Profile
      BY <1>2 DEF Answer, Profile
    <2>7. upset' \in 1 .. Never
      BY <1>2, DueFacts DEF Answer, TypeOK
    <2> QED
      BY <1>2, <2>2, <2>5, <2>6, <2>7 DEF Answer, TypeOK, Responses
  <1>5. CASE Push
    <2>1. [of |-> Unasked, tag |-> "ok"] \in Responses
      BY HandlersAssumption DEF Responses, Unasked, Tags
    <2>2. down' \in Seq(Responses)
      BY <1>5, <2>1, AppendProperties DEF Push, TypeOK, Responses
    <2>3. upset' \in 1 .. Never
      BY <1>5, DueFacts DEF Push, TypeOK
    <2> QED
      BY <1>5, <2>2, <2>3 DEF Push, TypeOK, Responses, Profile
  <1>3. CASE Close
    BY <1>3 DEF Close, TypeOK, Profile
  <1>4. CASE Tick
    <2>1. now' \in 0 .. MaxTime /\ reqTime' \in 0 .. now' /\ askedAt' \in 0 .. now'
      BY <1>4, HandlersAssumption DEF Tick, TypeOK
    <2> QED
      BY <1>4, <2>1 DEF Tick, TypeOK, Profile
  <1> QED
    BY <1>1, <1>2, <1>3, <1>4, <1>5 DEF TrafficStep

\* What a step of the handler may change.
LEMMA TypeFrame ==
    ASSUME TypeOK, UNCHANGED traffic,
           up' \in Seq(Requests), down' \in Seq(Responses),
           pc' \in Looping \cup {"triple"} \cup Leaving, reqTime' \in 0 .. now,
           buf' \in Blocks, count' = 0 \/ count' \in 1 .. Profile.reads - 1,
           out' \in Seq(Blocks)
    PROVE  TypeOK'
  BY DEF traffic, TypeOK, Profile, Responses, Looping, Leaving

\* The head of the loop.
LEMMA LoopHeadFacts ==
    ASSUME TypeOK, LoopHead
    PROVE  /\ pc' = "request" /\ buf' = Empty /\ reqTime' = now /\ count' = 0
           /\ pc' \in Looping \cup {"triple"} \cup Leaving
           /\ buf' \in Blocks /\ reqTime' \in 0 .. now
  BY BlockFacts, HandlersAssumption DEF LoopHead, TypeOK, Looping

\* The state as the steps of the handler read it.
LEMMA TypeFacts ==
    ASSUME TypeOK
    PROVE  /\ up \in Seq(Requests) /\ Rest(up) \in Seq(Requests)
           /\ up # <<>> => Tail(up) \in Seq(Requests) /\ Head(up) \in Requests
           /\ down \in Seq(Responses) /\ Rest(down) \in Seq(Responses)
           /\ down # <<>> => Tail(down) \in Seq(Responses) /\ Head(down) \in Responses
           /\ pc \in Looping \cup {"triple"} \cup Leaving
           /\ reqTime \in 0 .. now /\ now \in 0 .. MaxTime
           /\ Elapsed \in 0 .. MaxTime
           /\ buf \in Blocks /\ out \in Seq(Blocks)
           /\ \A b \in Blocks : Append(out, b) \in Seq(Blocks)
           /\ count = 0 \/ count \in 1 .. Profile.reads - 1
           /\ count \in Nat
           /\ ProfileOK(protocol) /\ Profile.reads \in Nat
  <1>1. up \in Seq(Requests) /\ down \in Seq(Responses) /\ out \in Seq(Blocks)
    BY DEF TypeOK, Responses
  <1>2. /\ Rest(up) \in Seq(Requests)
        /\ up # <<>> => Tail(up) \in Seq(Requests) /\ Head(up) \in Requests
    BY <1>1, QueueFacts
  <1>3. /\ Rest(down) \in Seq(Responses)
        /\ down # <<>> => Tail(down) \in Seq(Responses) /\ Head(down) \in Responses
    BY <1>1, QueueFacts
  <1>4. \A b \in Blocks : Append(out, b) \in Seq(Blocks)
    BY <1>1, AppendProperties
  <1>5. ProfileOK(protocol)
    BY ProfileFacts DEF TypeOK
  <1>6. Profile.reads \in Nat
    BY <1>5 DEF ProfileOK, Profile
  <1>7. count = 0 \/ count \in 1 .. Profile.reads - 1
    BY DEF TypeOK
  <1>8. count \in Nat
    BY <1>6, <1>7
  <1>9. /\ pc \in Looping \cup {"triple"} \cup Leaving
        /\ reqTime \in 0 .. now /\ now \in 0 .. MaxTime /\ buf \in Blocks
    BY DEF TypeOK, Looping, Leaving
  <1>10. Elapsed \in 0 .. MaxTime
    BY <1>9, HandlersAssumption DEF Elapsed
  <1> QED
    BY <1>1, <1>2, <1>3, <1>4, <1>5, <1>6, <1>7, <1>8, <1>9, <1>10

\* What ReadResponse adds to the buffer.
ReadBlock ==
    IF WithinCost /\ (~UrlLevel \/ Profile.always)
    THEN [buf EXCEPT !.resps = Append(@, [of |-> Head(down).of, latency |-> Elapsed])]
    ELSE buf

LEMMA ReadBlockFacts ==
    ASSUME TypeOK, down # <<>>
    PROVE  LET r == [of |-> Head(down).of, latency |-> Elapsed] IN
           /\ r \in PrintedResponses
           /\ ReadBlock \in Blocks
           /\ ReadBlock.reqs = buf.reqs
           /\ ReadBlock.resps = buf.resps \/ ReadBlock.resps = Append(buf.resps, r)
  <1> DEFINE r == [of |-> Head(down).of, latency |-> Elapsed]
  <1>1. r \in PrintedResponses /\ buf \in Blocks
    BY TypeFacts DEF PrintedResponses, Responses
  <1> HIDE DEF r
  <1>2. LET c == [buf EXCEPT !.resps = Append(@, r)] IN
        c \in Blocks /\ c.reqs = buf.reqs /\ c.resps = Append(buf.resps, r)
    BY <1>1, BlockFacts
  <1>3. ReadBlock = [buf EXCEPT !.resps = Append(@, r)] \/ ReadBlock = buf
    BY DEF ReadBlock, r
  <1> QED
    BY <1>1, <1>2, <1>3 DEF r

\* Every step of the handler keeps the types.
LEMMA TypeHandle == ASSUME TypeOK, Control, Handle PROVE TypeOK'
  <1> USE TypeFacts
  <1>1. CASE ReadGreeting
    <2>1. out' \in Seq(Blocks)
      BY <1>1, BlockFacts DEF ReadGreeting
    <2> QED
      BY <1>1, <2>1, LoopHeadFacts, TypeFrame DEF ReadGreeting
  <1>2. CASE SkipRequest
    <2>1. CASE LoopHead
      BY <1>2, <2>1, LoopHeadFacts, TypeFrame DEF SkipRequest
    <2>2. CASE pc' = "discard" /\ UNCHANGED <<reqTime, buf, count>>
      BY <1>2, <2>2, TypeFrame DEF SkipRequest, Looping
    <2> QED
      BY <1>2, <2>1, <2>2 DEF SkipRequest
  <1>3. CASE ReadRequest
    <2> DEFINE b == [Empty EXCEPT !.reqs = <<Head(up)>>]
    <2>1. b \in Blocks
      BY <1>3, BlockFacts DEF ReadRequest
    <2> HIDE DEF b
    <2>2. CASE out' = Append(out, b) /\ LoopHead
      BY <1>3, <2>1, <2>2, LoopHeadFacts, TypeFrame DEF ReadRequest
    <2>3. CASE buf' = b /\ pc' = "response" /\ UNCHANGED <<reqTime, count, out>>
      BY <1>3, <2>1, <2>3, TypeFrame DEF ReadRequest, Looping
    <2> QED
      BY <1>3, <2>2, <2>3 DEF ReadRequest, b
  <1>4. CASE RequestFails
    BY <1>4, TypeFrame DEF RequestFails, Leaving
  <1>5. CASE DiscardResponse
    BY <1>5, LoopHeadFacts, TypeFrame DEF DiscardResponse
  <1>6. CASE ReadResponse
    <2>1. /\ UNCHANGED <<traffic, up>> /\ down # <<>> /\ down' = Tail(down)
          /\ \/ /\ count + 1 # Profile.reads /\ buf' = ReadBlock /\ count' = count + 1
                /\ UNCHANGED <<pc, reqTime, out>>
             \/ /\ out' \in {out, Append(out, ReadBlock)}
                /\ LoopHead
      BY <1>6 DEF ReadResponse, ReadBlock
    <2>2. ReadBlock \in Blocks
      BY <2>1, ReadBlockFacts
    <2>3. CASE /\ count + 1 # Profile.reads /\ buf' = ReadBlock /\ count' = count + 1
               /\ UNCHANGED <<pc, reqTime, out>>
      <3>1. Profile.reads > 0
        BY <1>6 DEF ReadResponse, Control
      <3> DEFINE n == Profile.reads
      <3>2. count \in Nat /\ n \in Nat /\ n > 0 /\ (count = 0 \/ count \in 1 .. n - 1)
        BY <3>1
      <3>3. count + 1 # n /\ count' = count + 1
        BY <2>3
      <3> HIDE DEF n
      <3>4. count' \in 1 .. n - 1
        BY <3>2, <3>3
      <3> QED
        BY <2>1, <2>2, <2>3, <3>4, TypeFrame DEF n
    <2>4. CASE out' \in {out, Append(out, ReadBlock)} /\ LoopHead
      BY <2>1, <2>2, <2>4, LoopHeadFacts, TypeFrame
    <2> QED
      BY <2>1, <2>3, <2>4
  <1>7. CASE ResponseFails
    <2>1. out' \in Seq(Blocks)
      BY <1>7 DEF ResponseFails
    <2>2. CASE LoopHead
      BY <1>7, <2>1, <2>2, LoopHeadFacts, TypeFrame DEF ResponseFails
    <2>3. CASE pc' = "tail" /\ UNCHANGED <<reqTime, buf, count>>
      BY <1>7, <2>1, <2>3, TypeFrame DEF ResponseFails, Leaving
    <2> QED
      BY <1>7, <2>2, <2>3 DEF ResponseFails
  <1>8. CASE SendRest
    BY <1>8, TypeFrame DEF SendRest, Leaving
  <1>9. CASE ReadTriple
    <2>1. buf' \in Blocks
      BY <1>9, BlockFacts DEF ReadTriple
    <2> QED
      BY <1>9, <2>1, TypeFrame DEF ReadTriple
  <1>10. CASE TripleEnds
    BY <1>10, TypeFrame DEF TripleEnds, Leaving
  <1>11. CASE DiscardDown
    BY <1>11, TypeFrame DEF DiscardDown, Leaving
  <1>12. CASE DiscardUp
    BY <1>12, TypeFrame DEF DiscardUp, Leaving
  <1> QED
    BY <1>1, <1>2, <1>3, <1>4, <1>5, <1>6, <1>7, <1>8, <1>9, <1>10, <1>11, <1>12 DEF Handle

-----------------------------------------------------------------------------
(***************************************************************************)
(* The request the handler is working on.                                  *)
(***************************************************************************)

\* The requests read are among the requests sent.
LEMMA ReadFacts ==
    ASSUME TypeOK
    PROVE  /\ Len(asked) \in Nat /\ Len(up) \in Nat /\ ReadSoFar \in Int
           /\ UpInOrder => ReadSoFar \in 0 .. Len(asked)
           /\ UpInOrder /\ up # <<>> => /\ Head(up) = ReadSoFar + 1
                                        /\ ReadSoFar + 1 \in 1 .. Len(asked)
           /\ UpInOrder /\ up = <<>> => ReadSoFar = Len(asked)
  <1>1. /\ Len(asked) \in Nat /\ Len(up) \in Nat
        /\ up # <<>> => Head(up) = up[1] /\ Len(up) > 0
        /\ up = <<>> => Len(up) = 0
    BY QueueFacts, LenProperties DEF TypeOK
  <1> QED
    BY <1>1 DEF ReadSoFar, UpInOrder

\* A request is read.
LEMMA ReadOne ==
    ASSUME TypeOK, UpInOrder, up # <<>>, up' = Tail(up), asked' = asked
    PROVE  UpInOrder' /\ ReadSoFar' = ReadSoFar + 1
  <1>1. /\ Len(asked) \in Nat /\ Len(up) \in Nat /\ Len(up) > 0
        /\ Len(Tail(up)) = Len(up) - 1
        /\ \A i \in 1 .. Len(up) - 1 : Tail(up)[i] = up[i + 1]
    BY QueueFacts, LenProperties DEF TypeOK
  <1>2. ReadSoFar' = ReadSoFar + 1
    BY <1>1 DEF ReadSoFar
  <1>3. ASSUME NEW i \in 1 .. Len(up) - 1 PROVE Tail(up)[i] = ReadSoFar + 1 + i
    <2>1. i + 1 \in 1 .. Len(up) /\ ReadSoFar \in Int
      BY <1>1 DEF ReadSoFar
    <2>2. up[i + 1] = ReadSoFar + (i + 1)
      BY <2>1 DEF UpInOrder
    <2> QED
      BY <1>1, <2>1, <2>2
  <1> QED
    BY <1>1, <1>2, <1>3 DEF UpInOrder

\* Neither stream of requests changes.
LEMMA ReadNone ==
    ASSUME UNCHANGED <<asked, up>>
    PROVE  ReadSoFar' = ReadSoFar /\ (UpInOrder => UpInOrder')
  BY DEF ReadSoFar, UpInOrder

\* A request is sent.
LEMMA AskFacts ==
    ASSUME TypeOK, NEW k \in Kinds, Ask(k)
    PROVE  /\ Len(asked) \in Nat /\ Len(asked') = Len(asked) + 1
           /\ \A i \in 1 .. Len(asked) : asked'[i] = asked[i]
           /\ asked'[Len(asked) + 1] = k
           /\ ReadSoFar' = ReadSoFar
           /\ UpInOrder => UpInOrder'
           /\ Profile' = Profile
  <1>1. /\ Len(asked) \in Nat /\ Len(up) \in Nat /\ Len(asked) + 1 \in Requests
        /\ k \in Traffic
    BY LenProperties, HandlersAssumption DEF TypeOK, Ask, Requests, Kinds
  <1>2. /\ Len(asked') = Len(asked) + 1
        /\ \A i \in 1 .. Len(asked) : asked'[i] = asked[i]
        /\ asked'[Len(asked) + 1] = k
    BY <1>1, AppendProperties DEF TypeOK, Ask
  <1>3. /\ Len(up') = Len(up) + 1
        /\ \A i \in 1 .. Len(up) : up'[i] = up[i]
        /\ up'[Len(up) + 1] = Len(asked) + 1
    BY <1>1, AppendProperties DEF TypeOK, Ask
  <1>4. ReadSoFar' = ReadSoFar
    BY <1>1, <1>2, <1>3 DEF ReadSoFar
  <1>5. ASSUME UpInOrder PROVE UpInOrder'
    <2>1. ASSUME NEW i \in 1 .. Len(up) + 1 PROVE up'[i] = ReadSoFar + i
      <3>1. CASE i \in 1 .. Len(up)
        BY <1>3, <1>5, <3>1 DEF UpInOrder
      <3>2. CASE i = Len(up) + 1
        BY <1>1, <1>3, <3>2 DEF ReadSoFar
      <3> QED
        BY <1>1, <3>1, <3>2
    <2> QED
      BY <1>1, <1>2, <1>3, <1>4, <1>5, <2>1 DEF UpInOrder
  <1> QED
    BY <1>1, <1>2, <1>4, <1>5 DEF Ask, Profile

\* The kind of a request does not change once it is sent.
LEMMA KindsStay ==
    ASSUME UNCHANGED protocol
    PROVE  /\ Profile' = Profile
           /\ \A k : /\ (Hides(k)' <=> Hides(k)) /\ (Repeats(k)' <=> Repeats(k))
                     /\ (Awaits(k)' <=> Awaits(k))
  BY DEF Profile, Hides, Repeats, Awaits

\* The control invariant at the start.
LEMMA ControlInit == Init => Control
  <1> SUFFICES ASSUME Init PROVE Control
    OBVIOUS
  <1>1. TypeOK
    BY TypeInit
  <1>2. ReadSoFar = 0 /\ UpInOrder
    BY DEF Init, ReadSoFar, UpInOrder
  <1>3. ProfileOK(protocol)
    BY <1>1, TypeFacts
  <1> QED
    BY <1>2, <1>3, BlockFacts DEF Init, Control, Looping, ProfileOK, Profile

\* The traffic leaves the handler where it is.
LEMMA ControlTraffic ==
    ASSUME TypeOK, Control, TrafficStep
    PROVE  Control'
  <1>1. UNCHANGED <<protocol, midstream, pc, buf, count, out>>
    BY DEF TrafficStep, Ask, Answer, Push, Close, Tick
  <1>2. /\ Profile' = Profile
        /\ \A k : /\ (Hides(k)' <=> Hides(k)) /\ (Repeats(k)' <=> Repeats(k))
                  /\ (Awaits(k)' <=> Awaits(k))
    BY <1>1, KindsStay
  <1>3. /\ ReadSoFar' = ReadSoFar /\ (UpInOrder => UpInOrder')
        /\ \A i \in 1 .. Len(asked) : asked'[i] = asked[i]
    <2>1. CASE \E k \in Kinds : Ask(k)
      BY <2>1, AskFacts
    <2>2. CASE ~\E k \in Kinds : Ask(k)
      BY <2>2, ReadNone DEF TrafficStep, Answer, Push, Close, Tick
    <2> QED
      BY <2>1, <2>2
  <1>4. UpInOrder => ReadSoFar \in 0 .. Len(asked)
    BY ReadFacts
  <1>5. pc \in {"discard", "response"} => asked'[ReadSoFar] = asked[ReadSoFar]
    <2>1. pc \in {"discard", "response"} => UpInOrder /\ ReadSoFar >= 1
      BY DEF Control, Looping
    <2> QED
      BY <1>3, <1>4, <2>1
  <1> QED
    BY <1>1, <1>2, <1>3, <1>5 DEF Control, Looping

\* The handler knows what it is working on.
LEMMA ControlHandle == ASSUME TypeOK, Control, Handle PROVE Control'
  <1>1. UNCHANGED traffic
    BY DEF Handle, ReadGreeting, SkipRequest, ReadRequest, RequestFails, DiscardResponse,
       ReadResponse, ResponseFails, SendRest, ReadTriple, TripleEnds, DiscardDown, DiscardUp
  <1>2. /\ UNCHANGED <<protocol, midstream, asked>>
        /\ Profile' = Profile
        /\ \A k : /\ (Hides(k)' <=> Hides(k)) /\ (Repeats(k)' <=> Repeats(k))
                  /\ (Awaits(k)' <=> Awaits(k))
    BY <1>1, KindsStay DEF traffic
  <1>3. ASSUME LoopHead, pc \in Looping,
               up' = up \/ (up # <<>> /\ up' = Tail(up))
        PROVE  Control'
    <2>1. UpInOrder' /\ protocol # "triple"
      BY <1>2, <1>3, ReadNone, ReadOne DEF Control
    <2> QED
      BY <1>2, <1>3, <2>1 DEF Control, LoopHead, Looping
  <1>4. ASSUME pc' \in Leaving PROVE Control'
    BY <1>2, <1>4 DEF Control, Looping, Leaving
  <1>5. CASE ReadGreeting
    BY <1>3, <1>5 DEF ReadGreeting, Looping
  <1>6. CASE SkipRequest
    <2>1. CASE LoopHead
      BY <1>3, <1>6, <2>1 DEF SkipRequest, Looping
    <2>2. CASE pc' = "discard"
      <3>1. /\ UpInOrder /\ up # <<>> /\ up' = Tail(up) /\ protocol # "triple"
            /\ buf' = Empty /\ count' = 0
        BY <1>6, <2>2 DEF SkipRequest, Control, Looping, LoopHead
      <3>2. UpInOrder' /\ ReadSoFar' = Head(up) /\ ReadSoFar' >= 1
        BY <1>2, <3>1, ReadOne, ReadFacts
      <3>3. LET k == asked[Head(up)] IN
            Hides(k) /\ ~Repeats(k) /\ Profile.filter = "read"
        BY <1>6, <2>2 DEF SkipRequest, LoopHead
      <3> QED
        BY <1>2, <2>2, <3>1, <3>2, <3>3 DEF Control, Looping
    <2> QED
      BY <1>6, <2>1, <2>2 DEF SkipRequest
  <1>7. CASE ReadRequest
    <2>1. CASE LoopHead
      BY <1>3, <1>7, <2>1 DEF ReadRequest, Looping
    <2>2. CASE pc' = "response"
      <3>1. /\ UpInOrder /\ up # <<>> /\ up' = Tail(up) /\ protocol # "triple"
            /\ buf' = [Empty EXCEPT !.reqs = <<Head(up)>>]
        BY <1>7, <2>2 DEF ReadRequest, Control, Looping, LoopHead
      <3>2. UpInOrder' /\ ReadSoFar' = Head(up) /\ ReadSoFar' >= 1
        BY <1>2, <3>1, ReadOne, ReadFacts
      <3>3. LET k == asked[Head(up)] IN
            /\ ~Hides(k) /\ ~Repeats(k) /\ Profile.reads > 0
            /\ Awaits(k)
        BY <1>7, <2>2 DEF ReadRequest, LoopHead
      <3>4. buf'.reqs = <<ReadSoFar'>>
        BY <3>1, <3>2, BlockFacts, TypeFacts
      <3> QED
        BY <1>2, <2>2, <3>1, <3>2, <3>3, <3>4 DEF Control, Looping
    <2> QED
      BY <1>7, <2>1, <2>2 DEF ReadRequest
  <1>8. CASE RequestFails
    BY <1>4, <1>8 DEF RequestFails, Leaving
  <1>9. CASE DiscardResponse
    BY <1>3, <1>9 DEF DiscardResponse, Looping
  <1>10. CASE ReadResponse
    <2>1. CASE LoopHead
      BY <1>3, <1>10, <2>1 DEF ReadResponse, Looping
    <2>2. CASE pc' = pc /\ buf' = ReadBlock
      <3>1. pc = "response" /\ buf'.reqs = buf.reqs
        BY <1>10, <2>2, ReadBlockFacts DEF ReadResponse
      <3>2. ReadSoFar' = ReadSoFar /\ (UpInOrder => UpInOrder')
        BY <1>2, <1>10, ReadNone DEF ReadResponse
      <3> QED
        BY <1>2, <2>2, <3>1, <3>2 DEF Control, Looping
    <2> QED
      BY <1>10, <2>1, <2>2 DEF ReadResponse, ReadBlock
  <1>11. CASE ResponseFails
    <2>1. CASE LoopHead
      BY <1>3, <1>11, <2>1 DEF ResponseFails, Looping
    <2>2. CASE pc' = "tail"
      BY <1>4, <2>2 DEF Leaving
    <2> QED
      BY <1>11, <2>1, <2>2 DEF ResponseFails
  <1>12. CASE SendRest
    BY <1>4, <1>12 DEF SendRest, Leaving
  <1>13. CASE ReadTriple
    <2>1. /\ UpInOrder /\ up # <<>> /\ up' = Tail(up) /\ pc = "triple" /\ pc' = pc
          /\ out' = out
      BY <1>13 DEF ReadTriple, Control
    <2>2. UpInOrder'
      BY <1>2, <2>1, ReadOne
    <2>3. buf'.resps = buf.resps
      BY <1>13, BlockFacts, TypeFacts DEF ReadTriple
    <2> QED
      BY <1>2, <2>1, <2>2, <2>3 DEF Control, Looping
  <1>14. CASE TripleEnds
    BY <1>4, <1>14 DEF TripleEnds, Leaving
  <1>15. CASE DiscardDown
    BY <1>4, <1>15 DEF DiscardDown, Leaving
  <1>16. CASE DiscardUp
    BY <1>4, <1>16 DEF DiscardUp, Leaving
  <1> QED
    BY <1>5, <1>6, <1>7, <1>8, <1>9, <1>10, <1>11, <1>12, <1>13, <1>14, <1>15, <1>16
       DEF Handle

-----------------------------------------------------------------------------
(***************************************************************************)
(* What has been printed.                                                  *)
(***************************************************************************)

\* The recursive function of Printed, over any sequence of blocks.
PrintedOf(q) ==
    CHOOSE reqs : reqs = [i \in 0 .. Len(q) |->
                             IF i = 0 THEN <<>> ELSE reqs[i - 1] \o q[i].reqs]

\* The recursion is well founded.
LEMMA PrintedOfFacts ==
    ASSUME NEW q \in Seq(Blocks)
    PROVE  /\ PrintedOf(q)[0] = <<>>
           /\ \A i \in 1 .. Len(q) : PrintedOf(q)[i] = PrintedOf(q)[i - 1] \o q[i].reqs
           /\ \A i \in 0 .. Len(q) : PrintedOf(q)[i] \in Seq(Requests)
  <1> DEFINE n == Len(q)
             S == Seq(Requests)
             step == [i \in 1 .. n |-> [v \in S |-> v \o q[i].reqs]]
             g == PrintedOf(q)
  <1>1. n \in Nat /\ n = Len(q) /\ \A i \in 1 .. n : q[i].reqs \in Seq(Requests)
    <2>1. n \in Nat /\ n = Len(q) /\ \A i \in 1 .. n : q[i] \in Blocks
      BY QueueFacts
    <2> QED
      BY <2>1 DEF Blocks
  <1>2. <<>> \in S
    BY EmptySeq
  <1>3. \A i \in 1 .. n, v \in S : v \o q[i].reqs \in S
    BY <1>1, ConcatProperties
  <1> HIDE DEF n, S
  <1>4. /\ step \in [1 .. n -> [S -> S]]
        /\ \A i \in 1 .. n, v \in S : step[i][v] = v \o q[i].reqs
    BY <1>3
  <1> HIDE DEF step
  <1>5. PICK f \in [0 .. n -> S] : Follows(f, n, <<>>, step)
    BY <1>1, <1>2, <1>4, RecursiveFunction, Zenon
  <1>6. ASSUME NEW i \in 0 .. n PROVE f[i] = IF i = 0 THEN <<>> ELSE f[i - 1] \o q[i].reqs
    <2>1. CASE i = 0
      BY <1>5, <2>1 DEF Follows
    <2>2. CASE i # 0
      <3>1. i \in 1 .. n /\ i - 1 \in 0 .. n
        BY <1>1, <2>2
      <3> QED
        BY <1>4, <1>5, <2>2, <3>1 DEF Follows
    <2> QED
      BY <2>1, <2>2
  <1>7. f = [i \in 0 .. n |-> IF i = 0 THEN <<>> ELSE f[i - 1] \o q[i].reqs]
    BY <1>6
  <1>8. g = [i \in 0 .. n |-> IF i = 0 THEN <<>> ELSE g[i - 1] \o q[i].reqs]
    BY <1>1, <1>7 DEF PrintedOf
  <1> HIDE DEF g
  <1>9. g[0] = <<>> /\ \A i \in 1 .. n : g[i] = g[i - 1] \o q[i].reqs
    <2>1. \A i \in 0 .. n : g[i] = IF i = 0 THEN <<>> ELSE g[i - 1] \o q[i].reqs
      BY <1>8, Zenon
    <2>2. 0 \in 0 .. n /\ \A i \in 1 .. n : i \in 0 .. n /\ i # 0
      BY <1>1
    <2> QED
      BY <2>1, <2>2, Zenon
  <1>10. FollowsIn(S, g, n, <<>>, step)
    BY <1>4, <1>9 DEF FollowsIn
  <1>11. \A i \in 0 .. n : g[i] \in S
    BY <1>1, <1>2, <1>4, <1>10, RecursionType, Zenon
  <1> QED
    BY <1>1, <1>9, <1>11 DEF g, S

\* One block more.
LEMMA PrintedOfAppend ==
    ASSUME NEW q \in Seq(Blocks), NEW b \in Blocks
    PROVE  LET r == Append(q, b) IN
           PrintedOf(r)[Len(r)] = PrintedOf(q)[Len(q)] \o b.reqs
  <1> DEFINE r == Append(q, b)
             n == Len(q)
             f == PrintedOf(q)
             g == PrintedOf(r)
  <1>1. /\ n \in Nat /\ r \in Seq(Blocks) /\ Len(r) = n + 1
        /\ r[n + 1] = b /\ \A i \in 1 .. n : r[i] = q[i]
    BY LenProperties, AppendProperties
  <1>2. f[0] = <<>> /\ \A i \in 1 .. n : f[i] = f[i - 1] \o q[i].reqs
    BY PrintedOfFacts
  <1>3. g[0] = <<>> /\ \A i \in 1 .. n + 1 : g[i] = g[i - 1] \o r[i].reqs
    BY <1>1, PrintedOfFacts
  <1> HIDE DEF f, g, r, n
  <1>4. ASSUME NEW i \in 1 .. n, f[i - 1] = g[i - 1] PROVE f[i] = g[i]
    <2>1. i \in 1 .. n + 1
      BY <1>1
    <2> QED
      BY <1>1, <1>2, <1>3, <1>4, <2>1
  <1>5. SameSteps(f, g, n)
    BY <1>2, <1>3, <1>4 DEF SameSteps
  <1>6. f[n] = g[n]
    <2>1. n \in 0 .. n
      BY <1>1
    <2> QED
      BY <1>1, <1>5, <2>1, RecursionUnique, ZenonT(60)
  <1>7. n + 1 \in 1 .. n + 1 /\ (n + 1) - 1 = n
    BY <1>1
  <1>8. g[n + 1] = f[n] \o b.reqs
    BY <1>1, <1>3, <1>6, <1>7
  <1> QED
    BY <1>1, <1>8 DEF f, g, r, n

\* What a step prints.
LEMMA PrintedNext ==
    ASSUME TypeOK
    PROVE  /\ Printed \in Seq(Requests)
           /\ out' = out => Printed' = Printed
           /\ \A b \in Blocks : out' = Append(out, b) => Printed' = Printed \o b.reqs
           /\ out = <<>> => Printed = <<>>
  <1>1. out \in Seq(Blocks) /\ Len(out) \in Nat
    BY LenProperties DEF TypeOK
  <1>2. Printed = PrintedOf(out)[Len(out)]
    BY DEF Printed, PrintedOf
  <1>3. Printed' = PrintedOf(out')[Len(out')]
    BY DEF Printed, PrintedOf
  <1>4. Printed \in Seq(Requests)
    <2>1. Len(out) \in 0 .. Len(out)
      BY <1>1
    <2> QED
      BY <1>1, <1>2, <2>1, PrintedOfFacts
  <1>5. out = <<>> => Printed = <<>>
    <2>1. Len(<<>>) = 0
      BY EmptySeq
    <2> QED
      BY <1>1, <1>2, <2>1, PrintedOfFacts
  <1> QED
    BY <1>1, <1>2, <1>3, <1>4, <1>5, PrintedOfAppend

\* The requests printed are requests.
LEMMA PrintedType ==
    ASSUME TypeOK
    PROVE  /\ Printed \in Seq(Requests) /\ Len(Printed) \in Nat
           /\ \A n \in 1 .. Len(Printed) : Printed[n] \in Requests /\ Printed[n] \in Nat
  <1>1. Printed \in Seq(Requests)
    BY PrintedNext
  <1>2. Len(Printed) \in Nat /\ \A n \in 1 .. Len(Printed) : Printed[n] \in Requests
    BY <1>1, QueueFacts
  <1> QED
    BY <1>1, <1>2 DEF Requests

\* A block of one request adds it, and one without requests adds nothing.
LEMMA PrintedBlock ==
    ASSUME TypeOK, NEW b \in Blocks, out' = Append(out, b)
    PROVE  /\ b.reqs = <<>> => Printed' = Printed
           /\ Printed = <<>> => Printed' = b.reqs
           /\ \A r \in Requests : b.reqs = <<r>> =>
                 /\ Len(Printed') = Len(Printed) + 1
                 /\ \A n \in 1 .. Len(Printed) : Printed'[n] = Printed[n]
                 /\ Printed'[Len(Printed) + 1] = r
  <1>1. Printed \in Seq(Requests) /\ Printed' = Printed \o b.reqs /\ b.reqs \in Seq(Requests)
    BY PrintedNext DEF Blocks
  <1>2. b.reqs = <<>> => Printed' = Printed
    BY <1>1, ConcatEmptySeq
  <1>3. Printed = <<>> => Printed' = b.reqs
    BY <1>1, ConcatEmptySeq
  <1>4. ASSUME NEW r \in Requests, b.reqs = <<r>>
        PROVE  /\ Len(Printed') = Len(Printed) + 1
               /\ \A n \in 1 .. Len(Printed) : Printed'[n] = Printed[n]
               /\ Printed'[Len(Printed) + 1] = r
    <2>1. Printed' = Append(Printed, r)
      BY <1>1, <1>4, AppendIsConcat
    <2> QED
      BY <1>1, <2>1, AppendProperties
  <1> QED
    BY <1>2, <1>3, <1>4

-----------------------------------------------------------------------------
(***************************************************************************)
(* Requests are printed in their order.                                    *)
(***************************************************************************)

\* The handler stays where it is and prints nothing.
LEMMA OrderStays ==
    ASSUME TypeOK, PrintOrder, UNCHANGED <<protocol, pc>>, Printed' = Printed,
           buf'.reqs = buf.reqs, ReadSoFar' = ReadSoFar
    PROVE  PrintOrder'
  BY KindsStay DEF PrintOrder, PrintedInOrder, Increasing

\* The handler moves on in its loop and prints nothing.
LEMMA OrderMoves ==
    ASSUME TypeOK, PrintOrder, UNCHANGED protocol, Printed' = Printed, pc \in Looping,
           UpInOrder,
           \/ pc' \in {"request", "discard"} /\ ReadSoFar' \in {ReadSoFar, ReadSoFar + 1}
           \/ pc' = "response" /\ ReadSoFar' = ReadSoFar + 1
    PROVE  PrintOrder'
  <1>1. /\ Increasing(Printed) /\ \A n \in 1 .. Len(Printed) : Printed[n] <= ReadSoFar
        /\ ReadSoFar \in Nat
    BY ReadFacts DEF PrintOrder, Looping
  <1>2. \A n \in 1 .. Len(Printed) : Printed[n] \in Nat
    BY PrintedType
  <1>3. PrintedInOrder'
    BY <1>1 DEF PrintedInOrder, Increasing
  <1>4. \A n \in 1 .. Len(Printed) :
           /\ Printed[n] <= ReadSoFar'
           /\ pc' = "response" => Printed[n] < ReadSoFar'
    BY <1>1, <1>2
  <1> QED
    BY <1>1, <1>3, <1>4 DEF PrintOrder, Increasing, Looping

\* The handler prints the request it has read last.
LEMMA OrderPrints ==
    ASSUME TypeOK, PrintOrder, UNCHANGED protocol, UpInOrder, NEW b \in Blocks,
           out' = Append(out, b), b.reqs = <<ReadSoFar'>>, ReadSoFar' \in Requests,
           \/ pc = "request" /\ ReadSoFar' = ReadSoFar + 1
           \/ pc = "response" /\ ReadSoFar' = ReadSoFar,
           \/ pc' = "request"
           \/ pc' = "tail" /\ Profile.failed = "stop" /\ buf'.reqs = <<ReadSoFar'>>
    PROVE  PrintOrder'
  <1> DEFINE len == Len(Printed)
             r == ReadSoFar'
  <1>1. /\ Increasing(Printed)
        /\ \A n \in 1 .. len : Printed[n] <= ReadSoFar
        /\ pc = "response" => \A n \in 1 .. len : Printed[n] < ReadSoFar
        /\ ReadSoFar \in Nat
    BY ReadFacts DEF PrintOrder, Looping
  <1>2. len \in Nat /\ \A n \in 1 .. len : Printed[n] \in Nat
    BY PrintedType
  <1>3. \A n \in 1 .. len : Printed[n] < r
    BY <1>1, <1>2
  <1>4. /\ Len(Printed') = len + 1 /\ Printed'[len + 1] = r
        /\ \A n \in 1 .. len : Printed'[n] = Printed[n]
    BY PrintedBlock
  <1>5. r \in Nat
    BY DEF Requests
  <1> HIDE DEF len, r
  <1>6. \A n \in 1 .. len + 1 : Printed'[n] <= r
    BY <1>2, <1>3, <1>4, <1>5
  <1>7. \A i, j \in 1 .. len + 1 : i < j => Printed'[i] < Printed'[j]
    <2> SUFFICES ASSUME NEW i \in 1 .. len + 1, NEW j \in 1 .. len + 1, i < j
                 PROVE  Printed'[i] < Printed'[j]
      OBVIOUS
    <2>1. i \in 1 .. len /\ (j \in 1 .. len \/ j = len + 1)
      BY <1>2
    <2> QED
      BY <1>1, <1>3, <1>4, <2>1 DEF Increasing, len
  <1>8. Increasing(Printed') /\ PrintedInOrder'
    BY <1>4, <1>7 DEF Increasing, PrintedInOrder
  <1>9. Profile' = Profile
    BY KindsStay
  <1>10. pc' = "tail" => Len(Printed') > 0 /\ buf'.reqs = <<Printed'[Len(Printed')]>>
    BY <1>2, <1>4 DEF r
  <1> QED
    BY <1>4, <1>6, <1>8, <1>9, <1>10 DEF PrintOrder, Looping, r

\* The handler leaves its loop, or goes on discarding, and prints nothing.
LEMMA OrderLeaves ==
    ASSUME TypeOK, PrintOrder, UNCHANGED protocol, Printed' = Printed,
           \/ pc \in Looping /\ buf'.reqs = <<>> /\ pc' = "tail"
           \/ pc = "triple" /\ buf' = buf /\ pc' = "tail"
           \/ pc = "tail" /\ pc' \in Leaving \ {"tail"}
           \/ pc \in Leaving \ {"tail"} /\ pc' \in Leaving \ {"tail"}
    PROVE  PrintOrder'
  <1>1. Profile' = Profile
    BY KindsStay
  <1>2. Increasing(Printed) => PrintedInOrder'
    BY DEF Increasing, PrintedInOrder
  <1> QED
    BY <1>1, <1>2 DEF PrintOrder, PrintedInOrder, Increasing, Looping, Leaving

\* The rest of the buffer is sent after the loop: the requests of handleTriple,
\* or the request of a response that could not be read, for the second time.
LEMMA OrderSendRest ==
    ASSUME TypeOK, PrintOrder, SendRest
    PROVE  PrintOrder'
  <1>1. /\ UNCHANGED protocol /\ pc = "tail" /\ pc' = "drainDown" /\ buf \in Blocks
        /\ out' = IF buf # Empty THEN Append(out, buf) ELSE out
    BY TypeFacts DEF SendRest, traffic
  <1>2. Profile' = Profile
    BY <1>1, KindsStay
  <1>3. CASE out' = out \/ buf.reqs = <<>>
    BY <1>1, <1>3, PrintedNext, PrintedBlock, OrderLeaves DEF Leaving
  <1>4. CASE out' = Append(out, buf) /\ Printed = <<>> /\ Increasing(buf.reqs)
    <2>1. Printed' = buf.reqs
      BY <1>1, <1>4, PrintedBlock
    <2>2. PrintedInOrder'
      BY <1>4, <2>1 DEF PrintedInOrder, Increasing
    <2> QED
      BY <1>1, <2>2 DEF PrintOrder, Looping
  <1>5. CASE /\ out' = Append(out, buf)
             /\ Profile.failed = "stop" /\ Len(Printed) > 0
             /\ buf.reqs = <<Printed[Len(Printed)]>>
    <2> DEFINE len == Len(Printed)
    <2>1. len \in Nat /\ len > 0 /\ \A n \in 1 .. len : Printed[n] \in Requests /\ Printed[n] \in Nat
      BY <1>5, PrintedType
    <2>2. len \in 1 .. len
      BY <2>1
    <2>3. /\ Len(Printed') = len + 1 /\ Printed'[len + 1] = Printed[len]
          /\ \A n \in 1 .. len : Printed'[n] = Printed[n]
      BY <1>1, <1>5, <2>1, <2>2, PrintedBlock
    <2>4. \A i, j \in 1 .. len : i < j => Printed[i] < Printed[j]
      BY <1>1 DEF PrintOrder, Increasing
    <2> HIDE DEF len
    <2>5. ASSUME NEW i \in 1 .. len + 1, NEW j \in 1 .. len + 1, i < j
          PROVE  \/ Printed'[i] < Printed'[j]
                 \/ Printed'[i] = Printed'[j] /\ i + 1 = j /\ j = len + 1
      <3>1. i \in 1 .. len
        BY <2>1, <2>5
      <3>2. CASE j \in 1 .. len
        BY <2>3, <2>4, <2>5, <3>1, <3>2
      <3>3. CASE j = len + 1 /\ i = len
        BY <2>3, <3>1, <3>3
      <3>4. CASE j = len + 1 /\ i # len
        <4>1. Printed[i] < Printed[len]
          BY <2>1, <2>2, <2>4, <3>1, <3>4
        <4> QED
          BY <2>3, <3>1, <3>4, <4>1
      <3> QED
        BY <2>1, <3>2, <3>3, <3>4
    <2>6. PrintedInOrder'
      BY <1>1, <1>2, <1>5, <2>3, <2>5 DEF PrintedInOrder
    <2> QED
      BY <1>1, <2>6 DEF PrintOrder, Looping
  <1> QED
    BY <1>1, <1>3, <1>4, <1>5 DEF PrintOrder

\* handleTriple adds a request to the buffer, or leaves it out.
LEMMA OrderTriple ==
    ASSUME TypeOK, Control, PrintOrder, ReadTriple
    PROVE  PrintOrder'
  <1>1. /\ UNCHANGED <<protocol, asked, out>> /\ pc = "triple" /\ pc' = "triple"
        /\ up # <<>> /\ up' = Tail(up) /\ UpInOrder /\ out = <<>>
    BY DEF ReadTriple, traffic, Control
  <1>2. /\ ReadSoFar' = ReadSoFar + 1 /\ Head(up) = ReadSoFar + 1 /\ ReadSoFar \in Nat
        /\ Head(up) \in Requests
    BY <1>1, ReadOne, ReadFacts, TypeFacts
  <1>3. Printed = <<>> /\ Printed' = <<>>
    BY <1>1, PrintedNext
  <1> DEFINE q == buf.reqs
  <1>4. q \in Seq(Requests)
    BY TypeFacts DEF Blocks
  <1>5. /\ Len(q) \in Nat /\ \A n \in 1 .. Len(q) : q[n] \in Nat /\ q[n] <= ReadSoFar
    <2>1. Len(q) \in Nat /\ \A n \in 1 .. Len(q) : q[n] \in Requests
      BY <1>4, QueueFacts
    <2> QED
      BY <1>1, <2>1 DEF Requests, PrintOrder
  <1>6. Increasing(q)
    <2>1. CASE q = <<>>
      BY <2>1 DEF Increasing
    <2>2. CASE q # <<>>
      <3>1. Len(Printed) = 0
        BY <1>3
      <3> QED
        BY <1>1, <2>2, <3>1 DEF PrintOrder
    <2> QED
      BY <2>1, <2>2
  <1>7. buf'.reqs = q \/ buf'.reqs = Append(q, Head(up))
    BY <1>2, BlockFacts, TypeFacts DEF ReadTriple
  <1> HIDE DEF q
  <1>8. Increasing(buf'.reqs) /\ \A n \in 1 .. Len(buf'.reqs) : buf'.reqs[n] <= ReadSoFar'
    <2>1. CASE buf'.reqs = q
      BY <1>2, <1>5, <1>6, <2>1
    <2>2. CASE buf'.reqs = Append(q, Head(up))
      <3> DEFINE p == buf'.reqs
      <3>1. /\ Len(p) = Len(q) + 1 /\ p[Len(q) + 1] = ReadSoFar + 1
            /\ \A n \in 1 .. Len(q) : p[n] = q[n]
        BY <1>2, <1>4, <2>2, AppendProperties
      <3> HIDE DEF p
      <3>2. \A n \in 1 .. Len(q) + 1 : p[n] <= ReadSoFar + 1
        BY <1>2, <1>5, <3>1
      <3>3. ASSUME NEW i \in 1 .. Len(q) + 1, NEW j \in 1 .. Len(q) + 1, i < j
            PROVE  p[i] < p[j]
        <4>1. i \in 1 .. Len(q) /\ (j \in 1 .. Len(q) \/ j = Len(q) + 1)
          BY <1>5, <3>3
        <4>2. p[i] < ReadSoFar + 1
          BY <1>2, <1>5, <3>1, <4>1
        <4> QED
          BY <1>6, <3>1, <3>3, <4>1, <4>2 DEF Increasing
      <3> QED
        BY <1>2, <3>1, <3>2, <3>3 DEF Increasing, p
    <2> QED
      BY <1>7, <2>1, <2>2
  <1>9. Increasing(Printed') /\ PrintedInOrder'
    BY <1>3 DEF Increasing, PrintedInOrder
  <1> QED
    BY <1>1, <1>3, <1>8, <1>9 DEF PrintOrder, Looping

\* Every step of the handler keeps the order.
LEMMA OrderHandle == ASSUME TypeOK, Control, PrintOrder, Handle PROVE PrintOrder'
  <1>1. UNCHANGED traffic /\ UNCHANGED <<protocol, asked>>
    BY DEF Handle, ReadGreeting, SkipRequest, ReadRequest, RequestFails, DiscardResponse,
       ReadResponse, ResponseFails, SendRest, ReadTriple, TripleEnds, DiscardDown, DiscardUp,
       traffic
  <1>2. pc \in Looping => UpInOrder
    BY DEF Control
  <1>3. up' = up => ReadSoFar' = ReadSoFar
    BY <1>1, ReadNone
  <1>4. CASE ReadGreeting
    <2>1. Printed' = Printed
      BY <1>4, PrintedNext, PrintedBlock, BlockFacts DEF ReadGreeting
    <2> QED
      BY <1>1, <1>2, <1>3, <1>4, <2>1, OrderMoves DEF ReadGreeting, LoopHead, Looping
  <1>5. CASE SkipRequest
    <2>1. /\ pc = "request" /\ pc' \in {"request", "discard"} /\ up # <<>>
          /\ up' = Tail(up) /\ out' = out
      BY <1>5 DEF SkipRequest, LoopHead
    <2>2. ReadSoFar' = ReadSoFar + 1 /\ Printed' = Printed
      BY <1>1, <1>2, <2>1, ReadOne, PrintedNext DEF Looping
    <2> QED
      BY <1>1, <1>2, <2>1, <2>2, OrderMoves DEF Looping
  <1>6. CASE ReadRequest
    <2> DEFINE b == [Empty EXCEPT !.reqs = <<Head(up)>>]
    <2>1. pc = "request" /\ up # <<>> /\ up' = Tail(up) /\ UpInOrder
      BY <1>2, <1>6 DEF ReadRequest, Looping
    <2>2. /\ ReadSoFar' = ReadSoFar + 1 /\ Head(up) = ReadSoFar'
          /\ Head(up) \in Requests
      BY <1>1, <2>1, ReadOne, ReadFacts, TypeFacts
    <2>3. b \in Blocks /\ b.reqs = <<ReadSoFar'>>
      BY <2>2, BlockFacts
    <2> HIDE DEF b
    <2>4. CASE out' = Append(out, b) /\ LoopHead
      BY <1>1, <2>1, <2>2, <2>3, <2>4, OrderPrints DEF LoopHead
    <2>5. CASE out' = out /\ pc' = "response"
      BY <1>1, <2>1, <2>2, <2>5, PrintedNext, OrderMoves DEF Looping
    <2> QED
      BY <1>6, <2>4, <2>5 DEF ReadRequest, b
  <1>7. CASE RequestFails
    <2>1. buf'.reqs = <<>>
      BY <1>7, BlockFacts DEF RequestFails, Control
    <2> QED
      BY <1>1, <1>7, <2>1, PrintedNext, OrderLeaves DEF RequestFails, Looping
  <1>8. CASE DiscardResponse
    BY <1>1, <1>2, <1>3, <1>8, PrintedNext, OrderMoves DEF DiscardResponse, LoopHead, Looping
  <1>9. CASE ReadResponse
    <2>1. /\ pc = "response" /\ UpInOrder /\ ReadSoFar' = ReadSoFar
          /\ ReadBlock \in Blocks /\ ReadBlock.reqs = buf.reqs
          /\ buf.reqs = <<ReadSoFar>> /\ ReadSoFar \in Requests
      <3>1. pc = "response" /\ down # <<>> /\ UpInOrder /\ buf.reqs = <<ReadSoFar>> /\ up' = up
            /\ ReadSoFar >= 1
        BY <1>2, <1>9 DEF ReadResponse, Control, Looping
      <3>2. ReadSoFar \in Requests
        BY <3>1, ReadFacts, HandlersAssumption DEF TypeOK, Requests
      <3> QED
        BY <1>3, <3>1, <3>2, ReadBlockFacts
    <2>2. CASE UNCHANGED <<pc, out>> /\ buf' = ReadBlock
      BY <1>1, <2>1, <2>2, PrintedNext, OrderStays
    <2>3. CASE LoopHead /\ out' = out
      BY <1>1, <2>1, <2>3, PrintedNext, OrderMoves DEF LoopHead, Looping
    <2>4. CASE LoopHead /\ out' = Append(out, ReadBlock)
      BY <1>1, <2>1, <2>4, OrderPrints DEF LoopHead
    <2> QED
      BY <1>9, <2>2, <2>3, <2>4 DEF ReadResponse, ReadBlock
  <1>10. CASE ResponseFails
    <2>1. /\ pc = "response" /\ UpInOrder /\ ReadSoFar' = ReadSoFar
          /\ buf \in Blocks /\ buf.reqs = <<ReadSoFar>> /\ out' = Append(out, buf)
          /\ ReadSoFar \in Requests
      <3>1. /\ pc = "response" /\ UpInOrder /\ buf.reqs = <<ReadSoFar>> /\ up' = up
            /\ ReadSoFar >= 1 /\ out' = Append(out, buf)
        BY <1>2, <1>10 DEF ResponseFails, Control, Looping
      <3>2. ReadSoFar \in Requests
        BY <3>1, ReadFacts, HandlersAssumption DEF TypeOK, Requests
      <3> QED
        BY <1>3, <3>1, <3>2, TypeFacts
    <2>2. CASE LoopHead
      BY <1>1, <2>1, <2>2, OrderPrints DEF LoopHead
    <2>3. CASE Profile.failed = "stop" /\ pc' = "tail" /\ buf' = buf
      BY <1>1, <2>1, <2>3, OrderPrints
    <2> QED
      BY <1>10, <2>2, <2>3 DEF ResponseFails
  <1>11. CASE SendRest
    BY <1>11, OrderSendRest
  <1>12. CASE ReadTriple
    BY <1>12, OrderTriple
  <1>13. CASE TripleEnds
    BY <1>1, <1>13, PrintedNext, OrderLeaves DEF TripleEnds
  <1>14. CASE DiscardDown
    BY <1>1, <1>14, PrintedNext, OrderLeaves DEF DiscardDown, Leaving
  <1>15. CASE DiscardUp
    BY <1>1, <1>15, PrintedNext, OrderLeaves DEF DiscardUp, Leaving
  <1> QED
    BY <1>4, <1>5, <1>6, <1>7, <1>8, <1>9, <1>10, <1>11, <1>12, <1>13, <1>14, <1>15
       DEF Handle

\* The traffic prints nothing.
LEMMA OrderTraffic ==
    ASSUME TypeOK, PrintOrder, TrafficStep
    PROVE  PrintOrder'
  <1>1. UNCHANGED <<protocol, pc, buf, out>>
    BY DEF TrafficStep, Ask, Answer, Push, Close, Tick
  <1>2. ReadSoFar' = ReadSoFar
    <2>1. CASE \E k \in Kinds : Ask(k)
      BY <2>1, AskFacts
    <2>2. CASE ~\E k \in Kinds : Ask(k)
      BY <2>2, ReadNone DEF TrafficStep, Answer, Push, Close, Tick
    <2> QED
      BY <2>1, <2>2
  <1> QED
    BY <1>1, <1>2, PrintedNext, OrderStays

\* Nothing is printed at the start.
LEMMA OrderInit == Init => PrintOrder
  <1> SUFFICES ASSUME Init PROVE PrintOrder
    OBVIOUS
  <1>1. Printed = <<>> /\ Len(<<>>) = 0
    BY TypeInit, PrintedNext, EmptySeq DEF Init
  <1>2. buf.reqs = <<>>
    BY BlockFacts DEF Init
  <1> QED
    BY <1>1, <1>2 DEF PrintOrder, PrintedInOrder, Increasing

-----------------------------------------------------------------------------
(***************************************************************************)
(* The theorems.                                                           *)
(***************************************************************************)

\* The invariant holds in every reachable state.
LEMMA OrderInvariant == Spec => []OrderInv
  <1>1. Init => OrderInv
    BY TypeInit, ControlInit, OrderInit DEF OrderInv
  <1>2. OrderInv /\ [Next]_vars => OrderInv'
    <2> SUFFICES ASSUME OrderInv, [Next]_vars PROVE OrderInv'
      OBVIOUS
    <2>1. CASE Handle
      BY <2>1, TypeHandle, ControlHandle, OrderHandle DEF OrderInv
    <2>2. CASE TrafficStep
      BY <2>2, TypeTraffic, ControlTraffic, OrderTraffic DEF OrderInv
    <2>3. CASE UNCHANGED vars
      <3>1. UNCHANGED traffic /\ UNCHANGED <<up, down, pc, reqTime, buf, count, out>>
        BY <2>3 DEF vars, traffic
      <3>2. UNCHANGED <<protocol, asked, pc, buf, count, out, midstream>>
        BY <2>3 DEF vars
      <3>3. TypeOK'
        BY <3>1 DEF OrderInv, TypeOK, Profile, traffic
      <3>4. Control'
        BY <3>1, <3>2, ReadNone, KindsStay DEF OrderInv, Control
      <3>5. PrintOrder'
        BY <3>1, <3>2, ReadNone, PrintedNext, OrderStays DEF OrderInv
      <3> QED
        BY <3>3, <3>4, <3>5 DEF OrderInv
    <2> QED
      BY <2>1, <2>2, <2>3 DEF Next, TrafficStep
  <1> QED
    BY <1>1, <1>2, PTL DEF Spec

\* The state of a handler and of its streams keeps its type: the response
\* counter of the read loops in main.go stays below the number of reads.
THEOREM HandlersTypeCorrect == Spec => []TypeOK
  <1>1. OrderInv => TypeOK
    BY DEF OrderInv
  <1> QED
    BY <1>1, OrderInvariant, PTL

\* Every Handle prints the requests of its connection in their order, once
\* each, except the one whose response could not be read, whose block a
\* protocol that stops there sends once more after the loop.
THEOREM HandlersPrintInOrder == Spec => []PrintedInOrder
  <1>1. OrderInv => PrintedInOrder
    BY DEF OrderInv, PrintOrder
  <1> QED
    BY <1>1, OrderInvariant, PTL

=============================================================================
