----------------------- MODULE HandlersExchangeProofs -----------------------
(***************************************************************************)
(* What the handlers print with their requests, for any number of          *)
(* requests, any traffic, any answers in any order and any messages that   *)
(* nobody asked for: no request that should be shown is missing, and       *)
(* responses are printed with the request they answer until the two        *)
(* streams get out of step.                                                *)
(***************************************************************************)
EXTENDS HandlersProofs

-----------------------------------------------------------------------------
(***************************************************************************)
(* The inductive invariant, beyond OrderInv.                               *)
(***************************************************************************)

\* The request is in step with its response, and so are the ones before it:
\* none of them skews the streams and the server answered them in turn.
Unskewed(i) == i < upset /\ \A j \in 1 .. i : ~Skews(j)

IsOwed(i) == \E n \in 1 .. Len(owed) : owed[n] = i

\* A cost filter may hide the i-th request.
Excused(i) == costShown # 0 .. MaxTime /\ ~(IsOwed(i) /\ Unskewed(i))

InBuf(i) == \E n \in 1 .. Len(buf.reqs) : buf.reqs[n] = i

\* No request that should be shown has been passed over.  A handler leaves
\* its loop at the end of the requests, at one it cannot read, or behind the
\* one that it prints twice.
Coverage ==
    /\ pc \in Looping =>
          \A i \in Visible : i <= ReadSoFar =>
              IsPrinted(i) \/ Excused(i) \/ (pc = "response" /\ i = ReadSoFar)
    /\ pc = "triple" => \A i \in Visible : i <= ReadSoFar => InBuf(i)
    /\ pc \in Leaving =>
          \/ /\ closed
             /\ \A i \in Visible : IsPrinted(i) \/ Excused(i) \/ (pc = "tail" /\ InBuf(i))
          \/ /\ protocol # "triple"
             /\ \E r \in 1 .. Len(asked) :
                   /\ "bad" \in asked[r]
                   /\ \A i \in Visible : i < r => IsPrinted(i) \/ Excused(i)
          \/ /\ protocol # "triple"
             /\ Len(Printed) > 0 /\ Printed[Len(Printed)] <= Len(asked)
             /\ IF pc = "tail" THEN buf.reqs = <<Printed[Len(Printed)]>> ELSE Doubled
             /\ \A i \in Visible : i <= Printed[Len(Printed)] => IsPrinted(i) \/ Excused(i)

\* The answers of a MySQL server that the handler can tell the end of: only
\* the last message is final, and there are no more than it reads.
CompleteAnswers ==
    \A a \in Answers :
        /\ Len(a) <= MySQLReads
        /\ a[Len(a)] # "more"
        /\ \A i \in 1 .. Len(a) - 1 : a[i] = "more"

\* The protocols and connections for which order alone pairs a request with
\* its responses.
Paired ==
    /\ Profile.reads = 1 \/ Profile.stops
    /\ ~midstream
    /\ protocol = "mysql" => CompleteAnswers

\* The answers that came in turn, and those still to come, are in the order
\* of the requests, each of them complete; once the server has sent something
\* else than the answer due, it owes no answer for an earlier request.
AnswersInOrder ==
    /\ \A i, j \in 1 .. Len(down) : i < j /\ down[j].of < upset =>
          /\ down[i].of <= down[j].of
          /\ down[i].of = down[j].of =>
                down[i].tag = "more" /\ j - i + 1 <= Profile.reads
    /\ \A i \in 1 .. Len(down) :
          /\ down[i].of = 0 => i = 1 /\ pc = "greeting"
          /\ down[i].of # 0 /\ down[i].of < upset =>
                down[i].of <= Len(asked) /\ "oneway" \notin asked[down[i].of]
          /\ down[i].of # 0 /\ down[i].tag = "more" /\ Profile.reads # 1 =>
                i < Len(down) /\ down[i + 1].of = down[i].of
          /\ \A n \in 1 .. Len(owed) : down[i].of < upset => down[i].of < owed[n]
    /\ \A n \in 1 .. Len(owed) :
          owed[n] <= Len(asked) /\ "oneway" \notin asked[owed[n]]
    /\ Increasing(owed)
    /\ upset # Never =>
          /\ protocol # "mysql" /\ upset <= Len(asked) + 1
          /\ \A n \in 1 .. Len(owed) : owed[n] >= upset
    /\ pc = "greeting" => down # <<>> /\ down[1].of = 0

\* The request whose response the handler reads next.
Awaited ==
    IF pc = "greeting" THEN 0
    ELSE IF pc \in {"discard", "response"} THEN ReadSoFar ELSE ReadSoFar + 1

\* Nothing was read that answers a later request, nothing is left that
\* answers an earlier one.
StreamsInStep ==
    /\ \A i \in 1 .. Len(down) : down[i].of >= Awaited
    /\ \A n \in 1 .. Len(owed) : owed[n] >= Awaited
    /\ \A j \in 1 .. Len(asked) : j >= Awaited /\ "oneway" \notin asked[j] =>
          IsOwed(j) \/ \E i \in 1 .. Len(down) : down[i].of = j
    /\ pc = "response" =>
          /\ \A i \in 1 .. Len(down) : down[i].of = ReadSoFar => count + i <= Profile.reads
          /\ count > 0 => ~IsOwed(ReadSoFar)

Pairing ==
    pc \in Looping /\ Paired =>
        /\ AnswersInOrder
        /\ Unskewed(ReadSoFar) /\ ~(closed /\ down = <<>>) => StreamsInStep

\* A block with responses has a request, and they are its own.
GoodBlock(b) ==
    /\ \A n \in 1 .. Len(b.reqs) : b.reqs[n] <= Len(asked)
    /\ b.resps # <<>> => b.reqs # <<>>
    /\ Paired => \A m \in 1 .. Len(b.resps) :
                    Unskewed(b.reqs[1]) => b.resps[m].of = b.reqs[1]

Matching == GoodBlock(buf) /\ \A n \in 1 .. Len(out) : GoodBlock(out[n])

Inv == OrderInv /\ Coverage /\ Pairing /\ Matching

-----------------------------------------------------------------------------
(***************************************************************************)
(* What a step leaves alone.                                               *)
(***************************************************************************)

\* The server gets out of turn once.
LEMMA UpsetFacts ==
    ASSUME TypeOK
    PROVE  /\ upset \in Nat /\ upset > 0 /\ upset <= Never /\ Never \in Nat
           /\ OutOfTurn => upset' \in Nat /\ upset' > 0 /\ upset' <= upset /\ upset' # Never
  <1>1. Never \in Nat /\ upset \in 1 .. Never
    BY HandlersAssumption DEF TypeOK, Never
  <1>2. Due \in 1 .. Never - 1
    BY DueFacts
  <1> QED
    BY <1>1, <1>2 DEF OutOfTurn

\* The traffic leaves the handler and the requests already sent alone; a
\* request that is answered is no longer owed an answer.
LEMMA TrafficFacts ==
    ASSUME TypeOK, TrafficStep
    PROVE  /\ UNCHANGED <<protocol, costShown, midstream, pc, buf, count, out>>
           /\ closed => asked' = asked /\ down' = down /\ owed' = owed /\ closed'
           /\ Len(asked) \in Nat /\ Len(asked') \in Nat /\ Len(asked) <= Len(asked')
           /\ \A i \in 1 .. Len(asked) : asked'[i] = asked[i]
           /\ ReadSoFar' = ReadSoFar
           /\ \A i \in 1 .. Len(asked) : IsOwed(i)' => IsOwed(i)
           /\ upset \in Nat /\ upset' \in Nat /\ upset' <= upset
  <1> USE UpsetFacts
  <1>1. CASE \E k \in Kinds : Ask(k)
    <2>1. PICK k \in Kinds : Ask(k)
      BY <1>1
    <2>2. /\ Len(asked) \in Nat /\ Len(asked') = Len(asked) + 1
          /\ \A i \in 1 .. Len(asked) : asked'[i] = asked[i]
          /\ ReadSoFar' = ReadSoFar
      BY <2>1, AskFacts
    <2>3. owed \in Seq(Requests) /\ Len(owed) \in Nat
      BY LenProperties DEF TypeOK
    <2>4. owed' = owed \/ owed' = Append(owed, Len(asked) + 1)
      BY <2>1 DEF Ask
    <2>5. ASSUME NEW i \in 1 .. Len(asked), IsOwed(i)' PROVE IsOwed(i)
      <3>1. PICK n \in 1 .. Len(owed') : owed'[n] = i
        BY <2>5 DEF IsOwed
      <3>2. CASE owed' = owed
        BY <3>1, <3>2 DEF IsOwed
      <3>3. CASE owed' = Append(owed, Len(asked) + 1)
        <4>1. Len(asked) + 1 \in Requests
          BY <2>1, <2>2, HandlersAssumption DEF Ask, Requests
        <4>2. /\ Len(owed') = Len(owed) + 1 /\ owed'[Len(owed) + 1] = Len(asked) + 1
              /\ \A m \in 1 .. Len(owed) : owed'[m] = owed[m]
          BY <2>3, <3>3, <4>1, AppendProperties
        <4>3. n \in 1 .. Len(owed)
          BY <2>2, <2>3, <3>1, <4>2
        <4> QED
          BY <3>1, <4>2, <4>3 DEF IsOwed
      <3> QED
        BY <2>4, <3>2, <3>3
    <2> QED
      BY <2>1, <2>2, <2>5 DEF Ask
  <1>2. CASE \E n \in 1 .. Len(owed), tags \in Answers : Answer(n, tags)
    <2>1. PICK n \in 1 .. Len(owed), tags \in Answers : Answer(n, tags)
      BY <1>2
    <2>2. /\ ~closed
          /\ UNCHANGED <<protocol, costShown, midstream, asked, up, pc, buf, count, out>>
      BY <2>1 DEF Answer
    <2>3. /\ Len(owed) \in Nat /\ Len(owed') = Len(owed) - 1
          /\ \A m \in 1 .. Len(owed) - 1 : owed'[m] = IF m < n THEN owed[m] ELSE owed[m + 1]
      BY <2>1, RemoveFacts, LenProperties DEF Answer, TypeOK
    <2>4. \A i : IsOwed(i)' => IsOwed(i)
      BY <2>3 DEF IsOwed
    <2>5. Len(asked) \in Nat
      BY LenProperties DEF TypeOK
    <2>6. upset' = upset \/ OutOfTurn
      BY <2>1 DEF Answer
    <2> QED
      BY <2>2, <2>4, <2>5, <2>6, ReadNone
  <1>4. CASE Push
    <2>1. /\ ~closed /\ OutOfTurn
          /\ UNCHANGED <<protocol, costShown, midstream, asked, owed, up, pc, buf, count, out>>
      BY <1>4 DEF Push
    <2>2. Len(asked) \in Nat
      BY LenProperties DEF TypeOK
    <2> QED
      BY <2>1, <2>2, ReadNone DEF IsOwed
  <1>3. CASE Close \/ Tick
    <2>1. /\ UNCHANGED <<protocol, costShown, midstream, asked, owed, upset, up, down>>
          /\ UNCHANGED <<pc, buf, count, out>>
          /\ closed => closed'
      BY <1>3 DEF Close, Tick
    <2>2. Len(asked) \in Nat
      BY LenProperties DEF TypeOK
    <2> QED
      BY <2>1, <2>2, ReadNone DEF IsOwed
  <1> QED
    BY <1>1, <1>2, <1>3, <1>4 DEF TrafficStep

\* What is said of the requests sent stays true of them.
LEMMA RequestsKept ==
    ASSUME UNCHANGED <<protocol, costShown>>, Len(asked) \in Nat, Len(asked') \in Nat,
           Len(asked) <= Len(asked'),
           \A i \in 1 .. Len(asked) : asked'[i] = asked[i],
           upset \in Nat, upset > 0, upset' \in Nat, upset' <= upset
    PROVE  /\ \A i \in 1 .. Len(asked) :
                 /\ i \in Visible' <=> i \in Visible
                 /\ Skews(i)' <=> Skews(i)
                 /\ Unskewed(i)' => Unskewed(i)
                 /\ (IsOwed(i)' => IsOwed(i)) => (Excused(i) => Excused(i)')
           /\ Unskewed(0)
  <1>1. \A k : /\ (Hides(k)' <=> Hides(k)) /\ (Repeats(k)' <=> Repeats(k))
               /\ (Awaits(k)' <=> Awaits(k))
    BY KindsStay
  <1>2. Profile' = Profile
    BY KindsStay
  <1>3. ASSUME NEW i \in 1 .. Len(asked)
        PROVE  (i \in Visible' <=> i \in Visible) /\ (Skews(i)' <=> Skews(i))
    BY <1>1, <1>2, <1>3 DEF Visible, Skews
  <1>4. ASSUME NEW i \in 1 .. Len(asked) PROVE Unskewed(i)' => Unskewed(i)
    <2>1. \A j \in 1 .. i : j \in 1 .. Len(asked)
      OBVIOUS
    <2> QED
      BY <1>3, <2>1 DEF Unskewed
  <1>5. Unskewed(0)
    BY DEF Unskewed
  <1> QED
    BY <1>3, <1>4, <1>5 DEF Excused

\* A step of the handler leaves the traffic alone.
LEMMA HandleFrame ==
    ASSUME UNCHANGED traffic
    PROVE  /\ UNCHANGED <<protocol, costShown, midstream, asked, owed, upset, closed>>
           /\ Profile' = Profile /\ Visible' = Visible
           /\ \A k : /\ (Hides(k)' <=> Hides(k)) /\ (Repeats(k)' <=> Repeats(k))
                     /\ (Awaits(k)' <=> Awaits(k))
           /\ \A i : /\ Skews(i)' <=> Skews(i)
                     /\ Unskewed(i)' <=> Unskewed(i)
                     /\ Excused(i)' <=> Excused(i)
                     /\ IsOwed(i)' <=> IsOwed(i)
           /\ Paired' <=> Paired
  <1>1. UNCHANGED <<protocol, costShown, midstream, asked, owed, upset, closed>>
    BY DEF traffic
  <1>2. /\ Profile' = Profile
        /\ \A k : /\ (Hides(k)' <=> Hides(k)) /\ (Repeats(k)' <=> Repeats(k))
                  /\ (Awaits(k)' <=> Awaits(k))
    BY <1>1, KindsStay
  <1>3. Visible' = Visible /\ \A i : Skews(i)' <=> Skews(i)
    BY <1>1, <1>2 DEF Visible, Skews
  <1>4. \A i : Unskewed(i)' <=> Unskewed(i)
    BY <1>1, <1>3 DEF Unskewed
  <1>5. \A i : IsOwed(i)' <=> IsOwed(i)
    BY <1>1 DEF IsOwed
  <1>6. Paired' <=> Paired
    BY <1>1, <1>2 DEF Paired, CompleteAnswers
  <1> QED
    BY <1>1, <1>2, <1>3, <1>4, <1>5, <1>6 DEF Excused

-----------------------------------------------------------------------------
(***************************************************************************)
(* No request is passed over.                                              *)
(***************************************************************************)

\* What is printed stays printed.
LEMMA PrintedStays ==
    ASSUME TypeOK, out' = out \/ \E b \in Blocks : out' = Append(out, b)
    PROVE  \A i : IsPrinted(i) => IsPrinted(i)'
  <1>1. CASE out' = out
    BY <1>1, PrintedNext DEF IsPrinted
  <1>2. ASSUME NEW b \in Blocks, out' = Append(out, b)
        PROVE  \A i : IsPrinted(i) => IsPrinted(i)'
    <2>1. /\ Printed' = Printed \o b.reqs /\ Printed \in Seq(Requests)
          /\ b.reqs \in Seq(Requests)
      BY <1>2, PrintedNext DEF Blocks
    <2>2. /\ Len(Printed') = Len(Printed) + Len(b.reqs)
          /\ Len(Printed) \in Nat /\ Len(b.reqs) \in Nat
          /\ \A n \in 1 .. Len(Printed) : Printed'[n] = Printed[n]
      BY <2>1, ConcatProperties, LenProperties
    <2> QED
      BY <2>2 DEF IsPrinted
  <1> QED
    BY <1>1, <1>2

\* A block that is sent prints its requests.
LEMMA BlockPrinted ==
    ASSUME TypeOK, NEW b \in Blocks, out' = Append(out, b)
    PROVE  /\ \A i : (\E n \in 1 .. Len(b.reqs) : b.reqs[n] = i) => IsPrinted(i)'
           /\ \A r \in Requests : b.reqs = <<r>> => IsPrinted(r)'
  <1>1. /\ Printed' = Printed \o b.reqs /\ Printed \in Seq(Requests)
        /\ b.reqs \in Seq(Requests)
    BY PrintedNext DEF Blocks
  <1>2. /\ Len(Printed') = Len(Printed) + Len(b.reqs)
        /\ Len(Printed) \in Nat /\ Len(b.reqs) \in Nat
        /\ \A n \in 1 .. Len(b.reqs) : Printed'[Len(Printed) + n] = b.reqs[n]
    <2>1. /\ Len(Printed') = Len(Printed) + Len(b.reqs)
          /\ Len(Printed) \in Nat /\ Len(b.reqs) \in Nat
      BY <1>1, ConcatProperties, LenProperties
    <2>2. \A n \in 1 .. Len(b.reqs) : Printed'[Len(Printed) + n] = b.reqs[n]
      BY <1>1, <2>1
    <2> QED
      BY <2>1, <2>2
  <1>3. ASSUME NEW n \in 1 .. Len(b.reqs) PROVE IsPrinted(b.reqs[n])'
    <2>1. Len(Printed) + n \in 1 .. Len(Printed')
      BY <1>2
    <2> QED
      BY <1>2, <2>1 DEF IsPrinted
  <1>4. ASSUME NEW r \in Requests, b.reqs = <<r>> PROVE IsPrinted(r)'
    <2>1. 1 \in 1 .. Len(b.reqs) /\ b.reqs[1] = r
      BY <1>4
    <2> QED
      BY <1>3, <2>1
  <1> QED
    BY <1>3, <1>4

\* The traffic adds only requests that have yet to be read.
LEMMA CoverageTraffic ==
    ASSUME TypeOK, Control, Coverage, TrafficStep
    PROVE  Coverage'
  <1>1. /\ UNCHANGED <<protocol, costShown, midstream, pc, buf, count, out>>
        /\ closed => asked' = asked /\ closed'
        /\ Len(asked) \in Nat /\ Len(asked') \in Nat /\ Len(asked) <= Len(asked')
        /\ \A i \in 1 .. Len(asked) : asked'[i] = asked[i]
        /\ ReadSoFar' = ReadSoFar
        /\ \A i \in 1 .. Len(asked) : IsOwed(i)' => IsOwed(i)
        /\ upset \in Nat /\ upset > 0 /\ upset' \in Nat /\ upset' <= upset
    BY TrafficFacts, UpsetFacts
  <1>2. Printed' = Printed
    BY <1>1, PrintedNext
  <1>3. \A i \in 1 .. Len(asked) :
           /\ i \in Visible' <=> i \in Visible
           /\ Excused(i) => Excused(i)'
           /\ IsPrinted(i)' <=> IsPrinted(i)
           /\ InBuf(i)' <=> InBuf(i)
    BY <1>1, <1>2, RequestsKept DEF IsPrinted, InBuf
  <1>4. Visible' \subseteq 1 .. Len(asked') /\ Visible \subseteq 1 .. Len(asked)
    BY DEF Visible
  <1>5. pc \in Looping \cup {"triple"} => ReadSoFar \in 0 .. Len(asked)
    BY ReadFacts DEF Control
  <1>6. CASE pc \in Looping
    BY <1>1, <1>3, <1>4, <1>5, <1>6 DEF Coverage, Looping, Leaving
  <1>7. CASE pc = "triple"
    BY <1>1, <1>3, <1>4, <1>5, <1>7 DEF Coverage, Looping, Leaving
  <1>8. CASE pc \in Leaving
    <2>1. CASE /\ closed
               /\ \A i \in Visible : IsPrinted(i) \/ Excused(i) \/ (pc = "tail" /\ InBuf(i))
      <3>1. Visible' = Visible /\ closed'
        BY <1>1, <1>3, <1>4, <2>1
      <3> QED
        BY <1>1, <1>3, <1>4, <1>8, <2>1, <3>1 DEF Coverage, Looping, Leaving
    <2>2. CASE /\ protocol # "triple"
               /\ \E r \in 1 .. Len(asked) :
                     /\ "bad" \in asked[r]
                     /\ \A i \in Visible : i < r => IsPrinted(i) \/ Excused(i)
      <3>1. PICK r \in 1 .. Len(asked) :
                     /\ "bad" \in asked[r]
                     /\ \A i \in Visible : i < r => IsPrinted(i) \/ Excused(i)
        BY <2>2
      <3>2. r \in 1 .. Len(asked') /\ "bad" \in asked'[r]
        BY <1>1, <3>1
      <3>3. \A i \in Visible' : i < r => IsPrinted(i)' \/ Excused(i)'
        BY <1>1, <1>3, <1>4, <3>1
      <3> QED
        BY <1>1, <1>8, <2>2, <3>2, <3>3 DEF Coverage, Looping, Leaving
    <2>3. CASE /\ protocol # "triple"
               /\ Len(Printed) > 0 /\ Printed[Len(Printed)] <= Len(asked)
               /\ IF pc = "tail" THEN buf.reqs = <<Printed[Len(Printed)]>> ELSE Doubled
               /\ \A i \in Visible : i <= Printed[Len(Printed)] => IsPrinted(i) \/ Excused(i)
      <3>1. Printed[Len(Printed)] \in Nat
        BY <2>3, PrintedType
      <3>2. \A i \in Visible' : i <= Printed[Len(Printed)] => IsPrinted(i)' \/ Excused(i)'
        BY <1>1, <1>3, <1>4, <2>3, <3>1
      <3>3. Printed'[Len(Printed')] <= Len(asked')
        BY <1>1, <1>2, <2>3, <3>1
      <3> QED
        BY <1>1, <1>2, <1>8, <2>3, <3>2, <3>3 DEF Coverage, Looping, Leaving, Doubled
    <2> QED
      BY <1>8, <2>1, <2>2, <2>3 DEF Coverage
  <1> QED
    BY <1>6, <1>7, <1>8, TypeFacts

-----------------------------------------------------------------------------
(***************************************************************************)
(* The response the handler reads.                                         *)
(***************************************************************************)

\* The request in hand, when its response is read.
LEMMA InHand ==
    ASSUME TypeOK, Control, pc \in {"discard", "response"}
    PROVE  /\ ReadSoFar \in 1 .. Len(asked) /\ ReadSoFar \in Requests /\ ReadSoFar \in Nat
           /\ UpInOrder
           /\ ~Skews(ReadSoFar) => "oneway" \notin asked[ReadSoFar]
           /\ pc = "response" => buf.reqs = <<ReadSoFar>>
  <1>1. UpInOrder /\ ReadSoFar >= 1
    BY DEF Control, Looping
  <1>2. ReadSoFar \in 1 .. Len(asked) /\ Len(asked) \in Nat
    BY <1>1, ReadFacts
  <1>3. ReadSoFar \in Requests /\ ReadSoFar \in Nat
    BY <1>2, HandlersAssumption DEF TypeOK, Requests
  <1>4. ASSUME ~Skews(ReadSoFar) PROVE "oneway" \notin asked[ReadSoFar]
    <2> DEFINE k == asked[ReadSoFar]
    <2>1. CASE pc = "response"
      <3>1. ~Hides(k) /\ ~Repeats(k) /\ Awaits(k)
        BY <2>1 DEF Control
      <3> QED
        BY <1>4, <3>1 DEF Skews
    <2>2. CASE pc = "discard"
      <3>1. Hides(k) /\ ~Repeats(k) /\ Profile.filter = "read"
        BY <2>2 DEF Control
      <3>2. ~Profile.oneway
        BY <3>1, TypeFacts DEF ProfileOK, Profile
      <3> QED
        BY <1>4, <3>1, <3>2 DEF Skews, Awaits
    <2> QED
      BY <2>1, <2>2
  <1> QED
    BY <1>1, <1>2, <1>3, <1>4 DEF Control

\* The two streams of the server as the proofs read them.
LEMMA StreamTypes ==
    ASSUME TypeOK
    PROVE  /\ Len(down) \in Nat /\ Len(owed) \in Nat /\ Len(asked) \in Nat
           /\ \A i \in 1 .. Len(down) :
                 down[i].of \in Nat /\ down[i].of < Never /\ down[i].tag \in Tags
           /\ \A n \in 1 .. Len(owed) : owed[n] \in Nat /\ owed[n] > 0
           /\ down # <<>> =>
                /\ Len(down) > 0 /\ Len(Tail(down)) = Len(down) - 1 /\ Head(down) = down[1]
                /\ Rest(down) = Tail(down)
                /\ \A i \in 1 .. Len(down) - 1 : Tail(down)[i] = down[i + 1]
           /\ down = <<>> => Rest(down) = <<>> /\ Len(down) = 0
           /\ Len(<<>>) = 0
  <1>1. /\ down \in Seq(Responses) /\ Len(down) \in Nat
        /\ \A i \in 1 .. Len(down) : down[i] \in Responses
    BY TypeFacts, QueueFacts
  <1>2. \A i \in 1 .. Len(down) :
           down[i].of \in Nat /\ down[i].of < Never /\ down[i].tag \in Tags
    BY <1>1, HandlersAssumption DEF Responses, Unasked, Never
  <1>3. Len(owed) \in Nat /\ \A n \in 1 .. Len(owed) : owed[n] \in Requests
    BY QueueFacts DEF TypeOK
  <1>4. \A n \in 1 .. Len(owed) : owed[n] \in Nat /\ owed[n] > 0
    BY <1>3 DEF Requests
  <1>5. Len(asked) \in Nat
    BY LenProperties DEF TypeOK
  <1>6. down # <<>> =>
           /\ Len(down) > 0 /\ Len(Tail(down)) = Len(down) - 1 /\ Head(down) = down[1]
           /\ Rest(down) = Tail(down)
           /\ \A i \in 1 .. Len(down) - 1 : Tail(down)[i] = down[i + 1]
    BY <1>1, QueueFacts
  <1>7. down = <<>> => Rest(down) = <<>>
    BY DEF Rest
  <1> QED
    BY <1>1, <1>2, <1>3, <1>4, <1>5, <1>6, <1>7, EmptySeq

\* As long as the streams are in step, the next response is the one of the
\* request in hand, and the server does not owe it any more.
LEMMA HeadAnswers ==
    ASSUME TypeOK, Control, Pairing, Paired, pc \in {"discard", "response"},
           Unskewed(ReadSoFar), down # <<>>
    PROVE  down[1].of = ReadSoFar /\ ~IsOwed(ReadSoFar)
  <1>1. AnswersInOrder /\ StreamsInStep
    BY DEF Pairing, Looping
  <1>2. ReadSoFar \in 1 .. Len(asked) /\ ReadSoFar \in Nat /\ Awaited = ReadSoFar
    BY InHand DEF Awaited
  <1>3. "oneway" \notin asked[ReadSoFar]
    BY <1>2, InHand DEF Unskewed
  <1>4. /\ Len(down) \in Nat /\ Len(down) > 0 /\ 1 \in 1 .. Len(down)
        /\ \A i \in 1 .. Len(down) : down[i].of \in Nat
    <2>1. Len(down) \in Nat /\ Len(down) > 0 /\ \A i \in 1 .. Len(down) : down[i] \in Responses
      BY TypeFacts, QueueFacts
    <2> QED
      BY <2>1, HandlersAssumption DEF Responses, Unasked
  <1>5. down[1].of >= ReadSoFar
    BY <1>1, <1>2, <1>4 DEF StreamsInStep
  <1>9. ReadSoFar < upset /\ upset \in Nat /\ \A i \in 1 .. Len(down) : down[i].of < Never
    BY StreamTypes, UpsetFacts DEF Unskewed
  <1>6. ~IsOwed(ReadSoFar)
    <2> SUFFICES ASSUME NEW n \in 1 .. Len(owed), owed[n] = ReadSoFar PROVE FALSE
      BY DEF IsOwed
    <2>1. upset = Never
      BY <1>1, <1>2, <1>9 DEF AnswersInOrder
    <2>2. down[1].of < owed[n]
      BY <1>1, <1>4, <1>9, <2>1 DEF AnswersInOrder
    <2> QED
      BY <1>2, <1>4, <1>5, <2>2
  <1>7. PICK i \in 1 .. Len(down) : down[i].of = ReadSoFar
    BY <1>1, <1>2, <1>3, <1>6 DEF StreamsInStep
  <1>8. down[1].of <= down[i].of
    BY <1>1, <1>4, <1>7, <1>9 DEF AnswersInOrder
  <1> QED
    BY <1>2, <1>4, <1>5, <1>6, <1>7, <1>8
-----------------------------------------------------------------------------
(***************************************************************************)
(* No request is passed over by the handler.                               *)
(***************************************************************************)

\* The handler goes on in its loop: what it has dealt with is either not to
\* be shown, or printed, or hidden by the cost filter.
LEMMA CoverageMoves ==
    ASSUME TypeOK, Control, Coverage, UNCHANGED traffic, pc \in Looping,
           \A i : IsPrinted(i) => IsPrinted(i)',
           \/ pc' \in {"request", "discard"} /\ ReadSoFar' \in {ReadSoFar, ReadSoFar + 1}
           \/ pc' = "response" /\ ReadSoFar' = ReadSoFar + 1,
           pc # "response" \/ ReadSoFar' = ReadSoFar,
           \/ pc' = "response"
           \/ pc # "response" /\ ReadSoFar' = ReadSoFar
           \/ \A i \in Visible : i = ReadSoFar' => IsPrinted(i)' \/ Excused(i)
    PROVE  Coverage'
  <1>1. Visible' = Visible /\ \A i : Excused(i)' <=> Excused(i)
    BY HandleFrame
  <1>2. ReadSoFar \in Nat
    BY ReadFacts DEF Control
  <1>3. Visible \subseteq Nat
    BY DEF Visible
  <1>4. ASSUME NEW i \in Visible, i <= ReadSoFar'
        PROVE  IsPrinted(i)' \/ Excused(i)' \/ (pc' = "response" /\ i = ReadSoFar')
    <2>1. CASE i = ReadSoFar'
      <3>1. CASE pc' = "response"
        BY <2>1, <3>1
      <3>2. CASE pc # "response" /\ ReadSoFar' = ReadSoFar
        <4>1. IsPrinted(i) \/ Excused(i)
          BY <1>2, <1>4, <2>1, <3>2 DEF Coverage
        <4> QED
          BY <1>1, <4>1
      <3>3. CASE \A j \in Visible : j = ReadSoFar' => IsPrinted(j)' \/ Excused(j)
        BY <1>1, <1>4, <2>1, <3>3
      <3> QED
        BY <3>1, <3>2, <3>3
    <2>2. CASE i # ReadSoFar'
      <3>1. i <= ReadSoFar /\ (pc # "response" \/ i # ReadSoFar)
        BY <1>2, <1>3, <1>4, <2>2
      <3>2. IsPrinted(i) \/ Excused(i)
        BY <1>4, <3>1 DEF Coverage
      <3> QED
        BY <1>1, <3>2
    <2> QED
      BY <2>1, <2>2
  <1> QED
    BY <1>1, <1>4 DEF Coverage, Looping, Leaving

\* A handler that has left its loop discards what is left.
LEMMA CoverageDrains ==
    ASSUME TypeOK, Coverage, UNCHANGED traffic, out' = out,
           pc \in Leaving \ {"tail"}, pc' \in Leaving \ {"tail"}
    PROVE  Coverage'
  <1>1. /\ Visible' = Visible /\ (\A i : Excused(i)' <=> Excused(i))
        /\ UNCHANGED <<protocol, closed, asked>>
    BY HandleFrame
  <1>2. Printed' = Printed
    BY PrintedNext
  <1>3. (Doubled' <=> Doubled) /\ \A i : IsPrinted(i)' <=> IsPrinted(i)
    BY <1>2 DEF Doubled, IsPrinted
  <1>4. pc # "tail" /\ pc' # "tail" /\ pc \in Leaving
    BY DEF Leaving
  <1> QED
    BY <1>1, <1>2, <1>3, <1>4 DEF Coverage, Looping, Leaving

\* The rest of the buffer is sent.
LEMMA CoverageSendRest ==
    ASSUME TypeOK, Coverage, SendRest
    PROVE  Coverage'
  <1>1. /\ pc = "tail" /\ pc' = "drainDown" /\ UNCHANGED traffic /\ buf \in Blocks
        /\ out' = IF buf # Empty THEN Append(out, buf) ELSE out
    BY TypeFacts DEF SendRest
  <1>2. /\ Visible' = Visible /\ (\A i : Excused(i)' <=> Excused(i))
        /\ UNCHANGED <<protocol, closed, asked>>
    BY <1>1, HandleFrame
  <1>3. \A i : IsPrinted(i) => IsPrinted(i)'
    BY <1>1, PrintedStays
  <1>4. pc \in Leaving /\ pc' \in Leaving /\ pc' \notin Looping \cup {"triple"}
    BY <1>1 DEF Leaving, Looping
  <1>5. CASE /\ closed
             /\ \A i \in Visible : IsPrinted(i) \/ Excused(i) \/ (pc = "tail" /\ InBuf(i))
    <2>1. \A i : InBuf(i) => IsPrinted(i)'
      <3>1. CASE out' = Append(out, buf)
        BY <1>1, <3>1, BlockPrinted DEF InBuf
      <3>2. CASE buf = Empty
        BY <3>2, BlockFacts DEF InBuf
      <3> QED
        BY <1>1, <3>1, <3>2
    <2> QED
      BY <1>1, <1>2, <1>3, <1>4, <1>5, <2>1 DEF Coverage
  <1>6. CASE /\ protocol # "triple"
             /\ \E r \in 1 .. Len(asked) :
                   /\ "bad" \in asked[r]
                   /\ \A i \in Visible : i < r => IsPrinted(i) \/ Excused(i)
    BY <1>1, <1>2, <1>3, <1>4, <1>6 DEF Coverage
  <1>7. CASE /\ protocol # "triple"
             /\ Len(Printed) > 0 /\ Printed[Len(Printed)] <= Len(asked)
             /\ IF pc = "tail" THEN buf.reqs = <<Printed[Len(Printed)]>> ELSE Doubled
             /\ \A i \in Visible : i <= Printed[Len(Printed)] => IsPrinted(i) \/ Excused(i)
    <2> DEFINE len == Len(Printed)
    <2>1. len \in Nat /\ len > 0 /\ Printed[len] \in Requests
      BY <1>7, PrintedType
    <2>2. buf # Empty
      <3>1. buf.reqs # <<>>
        <4>1. buf.reqs = <<Printed[len]>>
          BY <1>1, <1>7
        <4> QED
          BY <4>1
      <3> QED
        BY <3>1, BlockFacts
    <2>3. /\ Len(Printed') = len + 1 /\ Printed'[len + 1] = Printed[len]
          /\ \A n \in 1 .. len : Printed'[n] = Printed[n]
      BY <1>1, <1>7, <2>1, <2>2, PrintedBlock
    <2>4. Printed'[Len(Printed')] = Printed[len] /\ Len(Printed') > 0
      BY <2>1, <2>3
    <2>5. Doubled'
      <3>1. Len(Printed') > 1 /\ Len(Printed') - 1 = len /\ len \in 1 .. len
        BY <2>1, <2>3
      <3> QED
        BY <2>3, <2>4, <3>1 DEF Doubled
    <2> QED
      BY <1>1, <1>2, <1>3, <1>4, <1>7, <2>4, <2>5 DEF Coverage
  <1> QED
    BY <1>4, <1>5, <1>6, <1>7 DEF Coverage

\* handleTriple leaves out only the requests that are not to be shown.
LEMMA CoverageTriple ==
    ASSUME TypeOK, Control, Coverage, ReadTriple
    PROVE  Coverage'
  <1>1. /\ pc = "triple" /\ pc' = "triple" /\ UNCHANGED traffic /\ UpInOrder
        /\ up # <<>> /\ up' = Tail(up)
    BY DEF ReadTriple, Control
  <1>2. Visible' = Visible /\ UNCHANGED asked
    BY <1>1, HandleFrame
  <1>3. /\ ReadSoFar' = ReadSoFar + 1 /\ Head(up) = ReadSoFar + 1 /\ ReadSoFar \in Nat
        /\ Head(up) \in Requests
    BY <1>1, <1>2, ReadOne, ReadFacts, TypeFacts
  <1> DEFINE q == buf.reqs
  <1>4. q \in Seq(Requests) /\ Len(q) \in Nat
    BY TypeFacts, LenProperties DEF Blocks
  <1>5. CASE Head(up) \notin Visible /\ buf' = buf
    <2>1. \A i \in Visible : i <= ReadSoFar + 1 => i <= ReadSoFar
      BY <1>3, <1>5 DEF Visible
    <2> QED
      BY <1>1, <1>2, <1>3, <1>5, <2>1 DEF Coverage, InBuf, Looping, Leaving
  <1>6. CASE buf'.reqs = Append(q, Head(up))
    <2>1. /\ Len(buf'.reqs) = Len(q) + 1 /\ buf'.reqs[Len(q) + 1] = Head(up)
          /\ \A n \in 1 .. Len(q) : buf'.reqs[n] = q[n]
      BY <1>3, <1>4, <1>6, AppendProperties
    <2>2. \A i : InBuf(i) \/ i = Head(up) => InBuf(i)'
      BY <1>4, <2>1 DEF InBuf
    <2>3. \A i \in Visible : i <= ReadSoFar + 1 => i <= ReadSoFar \/ i = Head(up)
      BY <1>3 DEF Visible
    <2>4. \A i \in Visible : i <= ReadSoFar => InBuf(i)
      BY <1>1 DEF Coverage
    <2> QED
      BY <1>1, <1>2, <1>3, <2>2, <2>3, <2>4 DEF Coverage, Looping, Leaving
  <1>7. "bad" \in asked[Head(up)] \/ Hides(asked[Head(up)]) => Head(up) \notin Visible
    BY DEF Visible
  <1> QED
    BY <1>3, <1>5, <1>6, <1>7, BlockFacts, TypeFacts DEF ReadTriple

\* A block that the cost filter takes away belongs to a request that was
\* answered, or to one whose response was not its own.
LEMMA DroppedExcused ==
    ASSUME TypeOK, Control, Pairing, pc = "response", down # <<>>,
           ~WithinCost, Profile.cost = "block"
    PROVE  Excused(ReadSoFar)
  <1>1. Paired
    BY TypeFacts DEF ProfileOK, Profile, Control, Paired
  <1>2. costShown # 0 .. MaxTime
    BY TypeFacts DEF WithinCost
  <1>3. ~(IsOwed(ReadSoFar) /\ Unskewed(ReadSoFar))
    BY <1>1, HeadAnswers
  <1> QED
    BY <1>2, <1>3 DEF Excused

\* The handler leaves its loop because of the request stream.
LEMMA CoverageRequestFails ==
    ASSUME TypeOK, Control, Coverage, RequestFails
    PROVE  Coverage'
  <1>1. /\ pc = "request" /\ pc' = "tail" /\ UNCHANGED traffic /\ out' = out /\ UpInOrder
        /\ protocol # "triple" /\ UpFails
    BY DEF RequestFails, Control, Looping
  <1>2. /\ Visible' = Visible /\ (\A i : Excused(i)' <=> Excused(i))
        /\ UNCHANGED <<protocol, closed, asked>>
    BY <1>1, HandleFrame
  <1>3. \A i : IsPrinted(i) => IsPrinted(i)'
    BY <1>1, PrintedStays
  <1>4. \A i \in Visible : i <= ReadSoFar => IsPrinted(i)' \/ Excused(i)'
    BY <1>1, <1>2, <1>3 DEF Coverage, Looping
  <1>5. Visible \subseteq 1 .. Len(asked)
    BY DEF Visible
  <1>6. pc' \in Leaving /\ pc' \notin Looping \cup {"triple"}
    BY <1>1 DEF Leaving, Looping
  <1>7. CASE up = <<>> /\ closed
    <2>1. ReadSoFar = Len(asked) /\ Len(asked) \in Nat
      BY <1>1, <1>7, ReadFacts
    <2>2. \A i \in Visible : IsPrinted(i)' \/ Excused(i)'
      BY <1>4, <1>5, <2>1
    <2> QED
      BY <1>2, <1>6, <1>7, <2>2 DEF Coverage
  <1>8. CASE up # <<>> /\ "bad" \in asked[Head(up)]
    <2>1. Head(up) = ReadSoFar + 1 /\ ReadSoFar + 1 \in 1 .. Len(asked) /\ ReadSoFar \in Nat
      BY <1>1, <1>8, ReadFacts
    <2>2. \A i \in Visible : i < Head(up) => IsPrinted(i)' \/ Excused(i)'
      BY <1>4, <1>5, <2>1
    <2> QED
      BY <1>1, <1>2, <1>6, <1>8, <2>1, <2>2 DEF Coverage
  <1> QED
    BY <1>1, <1>7, <1>8 DEF UpFails

\* The handler leaves its loop because of the response stream.
LEMMA CoverageResponseFails ==
    ASSUME TypeOK, Control, Coverage, ResponseFails, pc' = "tail", buf' = buf
    PROVE  Coverage'
  <1> DEFINE r == ReadSoFar
  <1>1. /\ pc = "response" /\ UNCHANGED traffic /\ out' = Append(out, buf)
        /\ protocol # "triple" /\ buf \in Blocks
    BY TypeFacts DEF ResponseFails, Control, Looping
  <1>2. /\ Visible' = Visible /\ (\A i : Excused(i)' <=> Excused(i))
        /\ UNCHANGED <<protocol, closed, asked>>
    BY <1>1, HandleFrame
  <1>3. \A i : IsPrinted(i) => IsPrinted(i)'
    BY <1>1, PrintedStays
  <1>4. r \in 1 .. Len(asked) /\ r \in Requests /\ r \in Nat /\ buf.reqs = <<r>>
    BY <1>1, InHand
  <1>5. /\ Len(Printed') = Len(Printed) + 1 /\ Printed'[Len(Printed) + 1] = r
        /\ Len(Printed) \in Nat
    BY <1>1, <1>4, PrintedBlock, PrintedType
  <1>6. \A i : i = r => IsPrinted(i)'
    <2>1. Len(Printed) + 1 \in 1 .. Len(Printed')
      BY <1>5
    <2> QED
      BY <1>5, <2>1 DEF IsPrinted
  <1>7. \A i \in Visible : i < r => IsPrinted(i)' \/ Excused(i)'
    BY <1>1, <1>2, <1>3, <1>4 DEF Coverage, Looping, Visible
  <1>8. \A i \in Visible : i <= r => IsPrinted(i)' \/ Excused(i)'
    BY <1>4, <1>6, <1>7 DEF Visible
  <1>9. pc' \in Leaving /\ pc' \notin Looping \cup {"triple"}
    BY DEF Leaving, Looping
  <1> HIDE DEF r
  <1>10. Len(Printed') > 0 /\ Printed'[Len(Printed')] = r
    BY <1>5
  <1> QED
    BY <1>1, <1>2, <1>4, <1>8, <1>9, <1>10 DEF Coverage

\* Every step of the handler.
LEMMA CoverageHandle ==
    ASSUME TypeOK, Control, Coverage, Pairing, Handle
    PROVE  Coverage'
  <1>1. UNCHANGED traffic /\ UNCHANGED <<protocol, asked>>
    BY DEF Handle, ReadGreeting, SkipRequest, ReadRequest, RequestFails, DiscardResponse,
       ReadResponse, ResponseFails, SendRest, ReadTriple, TripleEnds, DiscardDown, DiscardUp,
       traffic
  <1>2. pc \in Looping => UpInOrder
    BY DEF Control
  <1>3. up' = up => ReadSoFar' = ReadSoFar
    BY <1>1, ReadNone
  <1>4. CASE ReadGreeting
    <2>1. \A i : IsPrinted(i) => IsPrinted(i)'
      BY <1>4, PrintedStays, BlockFacts DEF ReadGreeting
    <2> QED
      BY <1>1, <1>3, <1>4, <2>1, CoverageMoves DEF ReadGreeting, LoopHead, Looping
  <1>5. ASSUME pc = "request", up # <<>>, up' = Tail(up)
        PROVE  ReadSoFar' = ReadSoFar + 1 /\ Head(up) = ReadSoFar' /\ Head(up) \in Requests
    BY <1>1, <1>2, <1>5, ReadOne, ReadFacts, TypeFacts DEF Looping
  <1>6. CASE SkipRequest
    <2>1. /\ pc = "request" /\ pc' \in {"request", "discard"} /\ up # <<>>
          /\ up' = Tail(up) /\ out' = out
      BY <1>6 DEF SkipRequest, LoopHead
    <2>2. Head(up) \notin Visible
      BY <1>6 DEF SkipRequest, Visible
    <2>3. \A i : IsPrinted(i) => IsPrinted(i)'
      BY <2>1, PrintedStays
    <2> QED
      BY <1>1, <1>5, <2>1, <2>2, <2>3, CoverageMoves DEF Looping
  <1>7. CASE ReadRequest
    <2> DEFINE b == [Empty EXCEPT !.reqs = <<Head(up)>>]
    <2>1. pc = "request" /\ up # <<>> /\ up' = Tail(up)
      BY <1>7 DEF ReadRequest
    <2>2. /\ ReadSoFar' = ReadSoFar + 1 /\ Head(up) = ReadSoFar' /\ Head(up) \in Requests
      BY <1>5, <2>1
    <2>3. b \in Blocks /\ b.reqs = <<Head(up)>>
      BY <2>2, BlockFacts
    <2> HIDE DEF b
    <2>4. CASE out' = Append(out, b) /\ LoopHead
      <3>1. \A i : IsPrinted(i) => IsPrinted(i)'
        BY <2>3, <2>4, PrintedStays
      <3>2. \A i : i = Head(up) => IsPrinted(i)'
        BY <2>2, <2>3, <2>4, BlockPrinted
      <3> QED
        BY <1>1, <2>1, <2>2, <2>4, <3>1, <3>2, CoverageMoves DEF LoopHead, Looping
    <2>5. CASE out' = out /\ pc' = "response"
      BY <1>1, <2>1, <2>2, <2>5, PrintedStays, CoverageMoves DEF Looping
    <2> QED
      BY <1>7, <2>4, <2>5 DEF ReadRequest, b
  <1>8. CASE RequestFails
    BY <1>8, CoverageRequestFails
  <1>9. CASE DiscardResponse
    <2>1. pc = "discard" /\ pc' = "request" /\ up' = up /\ out' = out
      BY <1>9 DEF DiscardResponse, LoopHead
    <2>2. \A i : IsPrinted(i) => IsPrinted(i)'
      BY <2>1, PrintedStays
    <2> QED
      BY <1>1, <1>3, <2>1, <2>2, CoverageMoves DEF Looping
  <1>10. CASE ReadResponse
    <2>1. /\ pc = "response" /\ down # <<>> /\ ReadSoFar' = ReadSoFar
          /\ ReadBlock \in Blocks /\ ReadBlock.reqs = <<ReadSoFar>> /\ ReadSoFar \in Requests
      BY <1>3, <1>10, InHand, ReadBlockFacts DEF ReadResponse
    <2>2. CASE UNCHANGED <<pc, out>>
      <3>1. /\ Visible' = Visible /\ (\A i : Excused(i)' <=> Excused(i))
        BY <1>1, HandleFrame
      <3>2. \A i : IsPrinted(i) => IsPrinted(i)'
        BY <2>2, PrintedStays
      <3> QED
        BY <2>1, <2>2, <3>1, <3>2 DEF Coverage, Looping, Leaving
    <2>3. CASE LoopHead /\ out' = out /\ ~WithinCost /\ Profile.cost = "block"
      <3>1. Excused(ReadSoFar)
        BY <2>1, <2>3, DroppedExcused
      <3>2. \A i : IsPrinted(i) => IsPrinted(i)'
        BY <2>3, PrintedStays
      <3> QED
        BY <1>1, <2>1, <2>3, <3>1, <3>2, CoverageMoves DEF LoopHead, Looping
    <2>4. CASE LoopHead /\ out' = Append(out, ReadBlock)
      <3>1. \A i : IsPrinted(i) => IsPrinted(i)'
        BY <2>1, <2>4, PrintedStays
      <3>2. \A i : i = ReadSoFar => IsPrinted(i)'
        BY <2>1, <2>4, BlockPrinted
      <3> QED
        BY <1>1, <2>1, <2>4, <3>1, <3>2, CoverageMoves DEF LoopHead, Looping
    <2> QED
      BY <1>10, <2>2, <2>3, <2>4 DEF ReadResponse, ReadBlock
  <1>11. CASE ResponseFails
    <2>1. /\ pc = "response" /\ ReadSoFar' = ReadSoFar /\ out' = Append(out, buf)
          /\ buf \in Blocks /\ buf.reqs = <<ReadSoFar>> /\ ReadSoFar \in Requests
      BY <1>3, <1>11, InHand, TypeFacts DEF ResponseFails
    <2>2. CASE LoopHead
      <3>1. \A i : IsPrinted(i) => IsPrinted(i)'
        BY <2>1, PrintedStays
      <3>2. \A i : i = ReadSoFar => IsPrinted(i)'
        BY <2>1, BlockPrinted
      <3> QED
        BY <1>1, <2>1, <2>2, <3>1, <3>2, CoverageMoves DEF LoopHead, Looping
    <2>3. CASE pc' = "tail" /\ buf' = buf
      BY <1>11, <2>3, CoverageResponseFails
    <2> QED
      BY <1>11, <2>2, <2>3 DEF ResponseFails
  <1>12. CASE SendRest
    BY <1>12, CoverageSendRest
  <1>13. CASE ReadTriple
    BY <1>13, CoverageTriple
  <1>14. CASE TripleEnds
    <2>1. /\ pc = "triple" /\ up = <<>> /\ closed /\ pc' = "tail" /\ buf' = buf /\ UpInOrder
      BY <1>14 DEF TripleEnds, Control
    <2>2. Visible' = Visible /\ UNCHANGED closed
      BY <1>1, HandleFrame
    <2>3. ReadSoFar = Len(asked) /\ Len(asked) \in Nat
      BY <2>1, ReadFacts
    <2>4. \A i \in Visible : InBuf(i)'
      <3>1. \A i \in Visible : i <= ReadSoFar
        BY <2>3 DEF Visible
      <3> QED
        BY <2>1, <3>1 DEF Coverage, InBuf
    <2> QED
      BY <2>1, <2>2, <2>4 DEF Coverage, Looping, Leaving
  <1>15. CASE DiscardDown
    BY <1>1, <1>15, CoverageDrains DEF DiscardDown, Leaving
  <1>16. CASE DiscardUp
    BY <1>1, <1>16, CoverageDrains DEF DiscardUp, Leaving
  <1> QED
    BY <1>4, <1>6, <1>7, <1>8, <1>9, <1>10, <1>11, <1>12, <1>13, <1>14, <1>15, <1>16
       DEF Handle

\* Nothing has been asked at the start.
LEMMA CoverageInit == Init => Coverage
  <1> SUFFICES ASSUME Init PROVE Coverage
    OBVIOUS
  <1>1. Visible = {}
    <2>1. Len(asked) = 0
      BY EmptySeq DEF Init
    <2> QED
      BY <2>1 DEF Visible
  <1>2. pc \notin Leaving
    BY DEF Init, Leaving
  <1> QED
    BY <1>1, <1>2 DEF Coverage

-----------------------------------------------------------------------------
(***************************************************************************)
(* Requests and responses stay in step.                                    *)
(***************************************************************************)

\* The server has sent nothing but its greeting at the start.
LEMMA PairingInit == Init => Pairing
  <1> SUFFICES ASSUME Init, pc \in Looping, Paired
               PROVE  AnswersInOrder /\ StreamsInStep
    BY DEF Pairing
  <1>1. Len(asked) = 0 /\ Len(owed) = 0 /\ Len(up) = 0 /\ ~midstream /\ upset = Never
    BY EmptySeq DEF Init, Paired
  <1>2. pc = "greeting" <=> Profile.greets
    BY DEF Init
  <1>3. CASE Profile.greets
    <2>1. Len(down) = 1 /\ down[1] = [of |-> 0, tag |-> "more"] /\ down # <<>>
      <3>1. down = <<[of |-> 0, tag |-> "more"]>>
        BY <1>1, <1>3 DEF Init
      <3> QED
        BY <3>1
    <2>2. AnswersInOrder
      BY <1>1, <1>2, <1>3, <2>1 DEF AnswersInOrder, Increasing
    <2>3. StreamsInStep
      BY <1>1, <1>2, <1>3, <2>1 DEF StreamsInStep, Awaited
    <2> QED
      BY <2>2, <2>3
  <1>4. CASE ~Profile.greets
    <2>1. Len(down) = 0
      BY <1>4, EmptySeq DEF Init
    <2>2. pc # "response"
      BY DEF Init
    <2> QED
      BY <1>1, <1>2, <1>4, <2>1, <2>2 DEF AnswersInOrder, Increasing, StreamsInStep
  <1> QED
    BY <1>3, <1>4

\* A request is sent, and the server may owe it an answer.
LEMMA AskPairing ==
    ASSUME TypeOK, NEW k \in Kinds, Ask(k), UpInOrder
    PROVE  /\ AnswersInOrder => AnswersInOrder'
           /\ AnswersInOrder /\ StreamsInStep => StreamsInStep'
  <1> DEFINE new == Len(asked) + 1
  <1>1. /\ Len(asked) \in Nat /\ Len(asked') = new
        /\ \A i \in 1 .. Len(asked) : asked'[i] = asked[i]
        /\ asked'[new] = k
        /\ ReadSoFar' = ReadSoFar
        /\ Profile' = Profile
    BY AskFacts
  <1>2. /\ Len(down) \in Nat /\ Len(owed) \in Nat
        /\ \A i \in 1 .. Len(down) : down[i].of \in Nat
        /\ \A n \in 1 .. Len(owed) : owed[n] \in Nat /\ owed[n] > 0
    BY StreamTypes
  <1>3. ReadSoFar \in 0 .. Len(asked)
    BY ReadFacts
  <1>4. UNCHANGED <<protocol, down, upset, pc, count>> /\ upset \in Nat
    BY UpsetFacts DEF Ask
  <1>5. Awaited' = Awaited /\ Awaited \in Nat /\ Awaited <= new
    BY <1>1, <1>3, <1>4 DEF Awaited
  <1>6. /\ \A n \in 1 .. Len(owed) : owed'[n] = owed[n]
        /\ \/ Len(owed') = Len(owed) /\ "oneway" \in k
           \/ Len(owed') = Len(owed) + 1 /\ owed'[Len(owed) + 1] = new /\ "oneway" \notin k
    <2>1. CASE "oneway" \in k
      BY <2>1 DEF Ask
    <2>2. CASE "oneway" \notin k
      <3>1. new \in Requests
        BY <1>1, HandlersAssumption DEF Ask, Requests
      <3>2. owed' = Append(owed, new) /\ owed \in Seq(Requests)
        BY <2>2 DEF Ask, TypeOK
      <3> QED
        BY <2>2, <3>1, <3>2, AppendProperties
    <2> QED
      BY <2>1, <2>2
  <1> HIDE DEF new
  <1>7. new \in Nat /\ new = Len(asked) + 1
    BY <1>1 DEF new
  <1>8. ASSUME AnswersInOrder PROVE AnswersInOrder'
    <2>1. \A n \in 1 .. Len(owed') :
             /\ owed'[n] <= Len(asked') /\ "oneway" \notin asked'[owed'[n]]
             /\ \A i \in 1 .. Len(down) : down[i].of < upset => down[i].of < owed'[n]
             /\ upset # Never => owed'[n] >= upset
      <3> SUFFICES ASSUME NEW n \in 1 .. Len(owed')
                   PROVE  /\ owed'[n] <= Len(asked') /\ "oneway" \notin asked'[owed'[n]]
                          /\ \A i \in 1 .. Len(down) : down[i].of < upset => down[i].of < owed'[n]
                          /\ upset # Never => owed'[n] >= upset
        OBVIOUS
      <3>1. CASE n \in 1 .. Len(owed)
        <4>1. owed[n] \in 1 .. Len(asked) /\ "oneway" \notin asked[owed[n]]
          BY <1>1, <1>2, <1>8, <3>1 DEF AnswersInOrder
        <4>2. /\ \A i \in 1 .. Len(down) : down[i].of < upset => down[i].of < owed[n]
              /\ upset # Never => owed[n] >= upset
          BY <1>8, <3>1 DEF AnswersInOrder
        <4>3. owed'[n] = owed[n] /\ asked'[owed[n]] = asked[owed[n]]
          BY <1>1, <1>6, <3>1, <4>1
        <4> QED
          BY <1>1, <1>7, <4>1, <4>2, <4>3
      <3>2. CASE n \notin 1 .. Len(owed)
        <4>1. n = Len(owed) + 1 /\ owed'[n] = new /\ "oneway" \notin k
          BY <1>2, <1>6, <3>2
        <4>2. /\ \A i \in 1 .. Len(down) : down[i].of < upset => down[i].of <= Len(asked)
              /\ upset # Never => upset <= new
          BY <1>1, <1>7, <1>8 DEF AnswersInOrder
        <4> QED
          BY <1>1, <1>2, <1>4, <1>7, <4>1, <4>2
      <3> QED
        BY <3>1, <3>2
    <2>2. Increasing(owed')
      <3>1. \A n \in 1 .. Len(owed) : owed[n] < new
        BY <1>1, <1>2, <1>7, <1>8 DEF AnswersInOrder
      <3>2. \A i, j \in 1 .. Len(owed) : i < j => owed[i] < owed[j]
        BY <1>8 DEF AnswersInOrder, Increasing
      <3> QED
        BY <1>2, <1>6, <3>1, <3>2, SMTT(60) DEF Increasing
    <2>3. \A i \in 1 .. Len(down) : down[i].of # 0 /\ down[i].of < upset =>
             down[i].of <= Len(asked') /\ "oneway" \notin asked'[down[i].of]
      BY <1>1, <1>2, <1>7, <1>8, SMTT(60) DEF AnswersInOrder
    <2>4. upset # Never => protocol # "mysql" /\ upset <= Len(asked') + 1
      BY <1>1, <1>4, <1>7, <1>8 DEF AnswersInOrder
    <2> QED
      BY <1>1, <1>4, <1>8, <2>1, <2>2, <2>3, <2>4 DEF AnswersInOrder
  <1>9. ASSUME AnswersInOrder, StreamsInStep PROVE StreamsInStep'
    <2>1. \A n \in 1 .. Len(owed') : owed'[n] >= Awaited
      BY <1>2, <1>5, <1>6, <1>7, <1>9 DEF StreamsInStep
    <2>2. \A j \in 1 .. Len(asked) : IsOwed(j) => IsOwed(j)'
      BY <1>2, <1>6 DEF IsOwed
    <2>3. "oneway" \notin k => \A j : j = new => IsOwed(j)'
      BY <1>2, <1>6 DEF IsOwed
    <2>4. ASSUME NEW j \in 1 .. Len(asked'), j >= Awaited, "oneway" \notin asked'[j]
          PROVE  IsOwed(j)' \/ \E i \in 1 .. Len(down) : down[i].of = j
      <3>1. CASE j \in 1 .. Len(asked)
        BY <1>1, <1>9, <2>2, <2>4, <3>1 DEF StreamsInStep
      <3>2. CASE j = new
        BY <1>1, <2>3, <2>4, <3>2
      <3> QED
        BY <1>1, <1>7, <3>1, <3>2
    <2>5. pc = "response" /\ count > 0 => \A j : j = ReadSoFar => ~IsOwed(j)'
      <3>1. pc = "response" /\ count > 0 => ~IsOwed(ReadSoFar)
        BY <1>9 DEF StreamsInStep
      <3>2. \A n \in 1 .. Len(owed') : n \in 1 .. Len(owed) \/ owed'[n] = new
        BY <1>2, <1>6
      <3>3. ReadSoFar # new
        BY <1>3, <1>7
      <3> QED
        BY <1>6, <3>1, <3>2, <3>3 DEF IsOwed
    <2>6. pc = "response" /\ count > 0 => ~(IsOwed(ReadSoFar)')
      BY <1>1, <2>5 DEF IsOwed
    <2> QED
      BY <1>1, <1>4, <1>5, <1>9, <2>1, <2>4, <2>6 DEF StreamsInStep
  <1> QED
    BY <1>8, <1>9

\* What an answer adds to the response stream.
LEMMA AnswerFacts ==
    ASSUME TypeOK, NEW n \in 1 .. Len(owed), NEW tags \in Answers, Answer(n, tags)
    PROVE  /\ Len(tags) \in Nat /\ Len(tags) > 0
           /\ Len(tags) > 1 => protocol = "mysql"
           /\ Len(owed) > 0 /\ Len(owed') = Len(owed) - 1
           /\ \A m \in 1 .. Len(owed) - 1 : owed'[m] = IF m < n THEN owed[m] ELSE owed[m + 1]
           /\ Len(down') = Len(down) + Len(tags)
           /\ \A i \in 1 .. Len(down) : down'[i] = down[i]
           /\ \A i \in 1 .. Len(tags) :
                 down'[Len(down) + i].of = owed[n] /\ down'[Len(down) + i].tag = tags[i]
           /\ \A i \in 1 .. Len(down') :
                 i \in 1 .. Len(down) \/ i - Len(down) \in 1 .. Len(tags)
  <1> DEFINE new == [i \in 1 .. Len(tags) |-> [of |-> owed[n], tag |-> tags[i]]]
  <1>1. /\ tags \in Seq(Tags) /\ tags # <<>> /\ Len(tags) \in Nat /\ Len(tags) > 0
        /\ \A i \in 1 .. Len(tags) : tags[i] \in Tags
    BY HandlersAssumption, QueueFacts
  <1>2. /\ Len(owed) > 0 /\ Len(owed) \in Nat /\ Len(owed') = Len(owed) - 1
        /\ \A m \in 1 .. Len(owed) - 1 : owed'[m] = IF m < n THEN owed[m] ELSE owed[m + 1]
        /\ owed[n] \in Requests
    <2>1. owed \in Seq(Requests) /\ Len(owed) \in Nat /\ owed[n] \in Requests
      BY QueueFacts DEF TypeOK
    <2>2. owed' = SubSeq(owed, 1, n - 1) \o SubSeq(owed, n + 1, Len(owed))
      BY DEF Answer
    <2> DEFINE q == SubSeq(owed, 1, n - 1) \o SubSeq(owed, n + 1, Len(owed))
    <2>3. /\ Len(q) = Len(owed) - 1
          /\ \A m \in 1 .. Len(owed) - 1 : q[m] = IF m < n THEN owed[m] ELSE owed[m + 1]
      BY <2>1, RemoveFacts
    <2>4. owed' = q
      BY <2>2
    <2>5. Len(owed) > 0
      BY <2>1
    <2> HIDE DEF q
    <2> QED
      BY <2>1, <2>3, <2>4, <2>5
  <1>3. \A i \in 1 .. Len(tags) : [of |-> owed[n], tag |-> tags[i]] \in Responses
    BY <1>1, <1>2, HandlersAssumption DEF Responses, Requests, Unasked
  <1>4. /\ new \in Seq(Responses) /\ Len(new) = Len(tags)
        /\ \A i \in 1 .. Len(tags) : new[i].of = owed[n] /\ new[i].tag = tags[i]
    BY <1>1, <1>2, <1>3
  <1>5. down' = down \o new /\ down \in Seq(Responses)
    BY TypeFacts DEF Answer
  <1> HIDE DEF new
  <1>6. /\ Len(down') = Len(down) + Len(tags) /\ Len(down) \in Nat
        /\ \A i \in 1 .. Len(down) : down'[i] = down[i]
    <2>1. Len(new) \in Nat /\ Len(down) \in Nat
      BY <1>1, <1>4, <1>5, LenProperties
    <2>2. Len(down \o new) = Len(down) + Len(new)
      BY <1>4, <1>5, ConcatProperties
    <2>3. \A i \in 1 .. Len(down) : (down \o new)[i] = down[i]
      BY <1>4, <1>5, <2>1
    <2> QED
      BY <1>4, <1>5, <2>1, <2>2, <2>3
  <1>7. \A i \in 1 .. Len(tags) : down'[Len(down) + i] = new[i]
    BY <1>1, <1>4, <1>5, <1>6
  <1>8. \A i \in 1 .. Len(down') : i \in 1 .. Len(down) \/ i - Len(down) \in 1 .. Len(tags)
    BY <1>1, <1>6
  <1> QED
    BY <1>1, <1>2, <1>4, <1>6, <1>7, <1>8 DEF Answer

\* The server answers the request it has owed an answer for longest.
LEMMA AnswerPairing ==
    ASSUME TypeOK, NEW tags \in Answers, 1 \in 1 .. Len(owed), Answer(1, tags),
           UpInOrder, Paired, upset = Never
    PROVE  /\ AnswersInOrder => AnswersInOrder'
           /\ AnswersInOrder /\ StreamsInStep => StreamsInStep'
  <1> DEFINE d == Len(down)
             t == Len(tags)
             a == owed[1]
             reads == Profile.reads
  <1>1. /\ UNCHANGED <<protocol, asked, up, upset, pc, count>> /\ Profile' = Profile
        /\ ReadSoFar' = ReadSoFar
    BY ReadNone, KindsStay DEF Answer
  <1>2. Awaited' = Awaited /\ Awaited \in Nat
    BY <1>1, ReadFacts DEF Awaited
  <1>3. /\ t \in Nat /\ t > 0 /\ Len(owed) \in Nat
        /\ Len(owed) > 0 /\ Len(owed') = Len(owed) - 1
        /\ \A n \in 1 .. Len(owed) - 1 : owed'[n] = owed[n + 1]
        /\ d \in Nat /\ Len(down') = d + t
        /\ \A i \in 1 .. d : down'[i] = down[i]
        /\ \A i \in 1 .. t : down'[d + i].of = a /\ down'[d + i].tag = tags[i]
        /\ \A i \in 1 .. d + t : i \in 1 .. d \/ i - d \in 1 .. t
        /\ \A i \in 1 .. d : down[i].of \in Nat /\ down[i].of < upset
        /\ \A n \in 1 .. Len(owed) : owed[n] \in Nat /\ owed[n] > 0
    BY AnswerFacts, StreamTypes
  <1>4. /\ reads \in Nat /\ t <= reads
        /\ \A i \in 1 .. t - 1 : tags[i] = "more"
        /\ reads # 1 => tags[t] # "more"
        /\ count \in Nat
    <2>1. reads \in Nat /\ ProfileOK(protocol) /\ count \in Nat
      BY TypeFacts
    <2>2. CASE protocol = "mysql"
      <3>1. reads = MySQLReads /\ CompleteAnswers
        BY <2>1, <2>2 DEF ProfileOK, Profile, Paired
      <3> QED
        BY <1>3, <2>1, <3>1 DEF CompleteAnswers
    <2>3. CASE protocol # "mysql"
      <3>1. reads = 1
        BY <2>1, <2>3 DEF ProfileOK, Profile, Paired
      <3>2. t = 1
        <4>1. t \in Nat /\ t > 0 /\ ~(t > 1)
          BY <1>3, <2>3 DEF Answer
        <4> HIDE DEF t
        <4> QED
          BY <4>1
      <3> QED
        BY <2>1, <3>1, <3>2
    <2> QED
      BY <2>2, <2>3
  <1>5. 1 \in 1 .. Len(owed) /\ a \in Nat /\ a > 0
    BY <1>3
  <1> HIDE DEF d, t, a, reads
  <1>6. \A i \in 1 .. d + t : i \notin 1 .. d => /\ i - d \in 1 .. t
                                                 /\ down'[i].of = a /\ down'[i].tag = tags[i - d]
    <2> SUFFICES ASSUME NEW i \in 1 .. d + t, i \notin 1 .. d
                 PROVE  /\ i - d \in 1 .. t
                        /\ down'[i].of = a /\ down'[i].tag = tags[i - d]
      OBVIOUS
    <2>1. i - d \in 1 .. t /\ d + (i - d) = i
      BY <1>3
    <2> QED
      BY <1>3, <2>1
  <1>7. ASSUME AnswersInOrder
        PROVE  /\ \A i \in 1 .. d : down[i].of < a
               /\ \A n \in 1 .. Len(owed) - 1 : owed'[n] > a
    <2>1. \A i \in 1 .. d : down[i].of < a
      BY <1>3, <1>5, <1>7 DEF AnswersInOrder, d, a
    <2>2. \A n \in 1 .. Len(owed) - 1 : n + 1 \in 1 .. Len(owed) /\ n + 1 > 1
      BY <1>3
    <2>3. \A n \in 1 .. Len(owed) - 1 : owed'[n] > a
      BY <1>3, <1>5, <1>7, <2>2 DEF AnswersInOrder, Increasing, a
    <2> QED
      BY <2>1, <2>3
  <1>8. ASSUME AnswersInOrder PROVE AnswersInOrder'
    <2>1. ASSUME NEW i \in 1 .. d + t, NEW j \in 1 .. d + t, i < j
          PROVE  /\ down'[i].of <= down'[j].of
                 /\ down'[i].of = down'[j].of => down'[i].tag = "more" /\ j - i + 1 <= reads
      <3>1. CASE i \in 1 .. d /\ j \in 1 .. d
        <4>1. down'[i] = down[i] /\ down'[j] = down[j]
          BY <1>3, <3>1
        <4>2. /\ down[i].of <= down[j].of
              /\ down[i].of = down[j].of => down[i].tag = "more" /\ j - i + 1 <= reads
          BY <1>3, <1>8, <2>1, <3>1, Zenon DEF AnswersInOrder, d, reads
        <4> QED
          BY <4>1, <4>2, Zenon
      <3>2. CASE i \in 1 .. d /\ j \notin 1 .. d
        <4>1. down'[i] = down[i] /\ down[i].of \in Nat
          BY <1>3, <3>2
        <4>2. down[i].of < a
          BY <1>7, <1>8, <3>2
        <4>3. down'[j].of = a
          BY <1>6, <3>2
        <4> QED
          BY <1>5, <4>1, <4>2, <4>3
      <3>3. CASE i \notin 1 .. d
        <4>1. j \notin 1 .. d
          BY <1>3, <2>1, <3>3
        <4>2. /\ down'[i].of = a /\ down'[j].of = a /\ down'[i].tag = tags[i - d]
              /\ i - d \in 1 .. t /\ j - d \in 1 .. t
          BY <1>6, <3>3, <4>1
        <4>3. i - d \in 1 .. t - 1 /\ j - i + 1 <= t
          BY <1>3, <2>1, <4>2
        <4> QED
          BY <1>3, <1>4, <1>5, <4>2, <4>3, SMTT(60)
      <3> QED
        BY <3>1, <3>2, <3>3
    <2>2. ASSUME NEW i \in 1 .. d + t
          PROVE  /\ down'[i].of = 0 => i = 1 /\ pc = "greeting"
                 /\ down'[i].of # 0 =>
                       down'[i].of <= Len(asked) /\ "oneway" \notin asked[down'[i].of]
                 /\ down'[i].of # 0 /\ down'[i].tag = "more" /\ reads # 1 =>
                       i < d + t /\ down'[i + 1].of = down'[i].of
                 /\ \A n \in 1 .. Len(owed') : down'[i].of < owed'[n]
      <3>1. CASE i \in 1 .. d
        <4>1. down'[i] = down[i] /\ down[i].of < a /\ down[i].of \in Nat
          BY <1>3, <1>7, <1>8, <3>1
        <4>2. /\ down[i].of = 0 => i = 1 /\ pc = "greeting"
              /\ down[i].of # 0 =>
                    down[i].of <= Len(asked) /\ "oneway" \notin asked[down[i].of]
              /\ down[i].of # 0 /\ down[i].tag = "more" /\ reads # 1 =>
                    i < d /\ down[i + 1].of = down[i].of
          BY <1>3, <1>8, <3>1 DEF AnswersInOrder, d, reads
        <4>3. i < d => i + 1 \in 1 .. d /\ i < d + t
          BY <1>3, <3>1
        <4>4. \A n \in 1 .. Len(owed) - 1 : owed'[n] \in Nat /\ down[i].of < owed'[n]
          <5>1. \A n \in 1 .. Len(owed) - 1 : n + 1 \in 1 .. Len(owed)
            BY <1>3
          <5> QED
            BY <1>3, <1>5, <1>7, <1>8, <4>1, <5>1, SMTT(60)
        <4> QED
          BY <1>3, <4>1, <4>2, <4>3, <4>4
      <3>2. CASE i \notin 1 .. d
        <4>1. down'[i].of = a /\ down'[i].tag = tags[i - d] /\ i - d \in 1 .. t
          BY <1>6, <3>2
        <4>2. a <= Len(asked) /\ "oneway" \notin asked[a]
          BY <1>5, <1>8 DEF AnswersInOrder, a
        <4>3. ASSUME tags[i - d] = "more", reads # 1
              PROVE  i < d + t /\ down'[i + 1].of = a
          <5>1. i - d # t
            BY <1>4, <4>3
          <5>2. i + 1 \in 1 .. d + t /\ i + 1 \notin 1 .. d
            BY <1>3, <3>2, <4>1, <5>1
          <5> QED
            BY <1>3, <1>6, <5>2
        <4>4. \A n \in 1 .. Len(owed) - 1 : a < owed'[n]
          <5>1. \A n \in 1 .. Len(owed) - 1 : n + 1 \in 1 .. Len(owed)
            BY <1>3
          <5> QED
            BY <1>3, <1>5, <1>7, <1>8, <5>1
        <4> QED
          BY <1>3, <1>5, <4>1, <4>2, <4>3, <4>4
      <3> QED
        BY <3>1, <3>2
    <2>3. /\ \A n \in 1 .. Len(owed') : owed'[n] <= Len(asked) /\ "oneway" \notin asked[owed'[n]]
          /\ Increasing(owed')
      <3>1. \A n \in 1 .. Len(owed) : owed[n] <= Len(asked) /\ "oneway" \notin asked[owed[n]]
        BY <1>8 DEF AnswersInOrder
      <3>2. \A i, j \in 1 .. Len(owed) : i < j => owed[i] < owed[j]
        BY <1>8 DEF AnswersInOrder, Increasing
      <3>3. \A n \in 1 .. Len(owed') : n + 1 \in 1 .. Len(owed) /\ owed'[n] = owed[n + 1]
        BY <1>3
      <3>4. \A i, j \in 1 .. Len(owed') : i < j => i + 1 < j + 1
        BY <1>3
      <3> QED
        BY <3>1, <3>2, <3>3, <3>4 DEF Increasing
    <2>4. pc = "greeting" => down' # <<>> /\ down'[1].of = 0
      <3>1. pc = "greeting" => down # <<>> /\ down[1].of = 0
        BY <1>8 DEF AnswersInOrder
      <3>2. down # <<>> => d > 0
        BY StreamTypes DEF d
      <3>3. Len(<<>>) = 0
        BY StreamTypes
      <3> QED
        BY <1>3, <3>1, <3>2, <3>3
    <2> QED
      BY <1>1, <1>3, <2>1, <2>2, <2>3, <2>4 DEF AnswersInOrder, reads
  <1>9. ASSUME AnswersInOrder, StreamsInStep PROVE StreamsInStep'
    <2>1. a >= Awaited /\ \A i \in 1 .. d : down[i].of >= Awaited
      BY <1>5, <1>9 DEF StreamsInStep, a, d
    <2>2. \A i \in 1 .. d + t : down'[i].of >= Awaited
      BY <1>3, <1>6, <2>1
    <2>3. \A n \in 1 .. Len(owed') : owed'[n] >= Awaited
      <3>1. \A n \in 1 .. Len(owed') : n + 1 \in 1 .. Len(owed) /\ owed'[n] = owed[n + 1]
        BY <1>3
      <3> QED
        BY <1>9, <3>1 DEF StreamsInStep
    <2>4. \A j : IsOwed(j) => j = a \/ IsOwed(j)'
      <3> SUFFICES ASSUME NEW n \in 1 .. Len(owed), owed[n] # a
                   PROVE  \E m \in 1 .. Len(owed') : owed'[m] = owed[n]
        BY DEF IsOwed
      <3>1. n # 1
        BY DEF a
      <3>2. n - 1 \in 1 .. Len(owed) - 1 /\ (n - 1) + 1 = n
        BY <1>3, <3>1
      <3> QED
        BY <1>3, <3>2
    <2>5. ASSUME NEW j \in 1 .. Len(asked), j >= Awaited, "oneway" \notin asked[j]
          PROVE  IsOwed(j)' \/ \E i \in 1 .. d + t : down'[i].of = j
      <3>1. IsOwed(j) \/ \E i \in 1 .. d : down[i].of = j
        BY <1>9, <2>5 DEF StreamsInStep, d
      <3>2. d + 1 \in 1 .. d + t /\ down'[d + 1].of = a
        BY <1>3
      <3>3. \A i \in 1 .. d : i \in 1 .. d + t /\ down'[i].of = down[i].of
        BY <1>3
      <3> QED
        BY <2>4, <3>1, <3>2, <3>3
    <2>6. ASSUME pc = "response"
          PROVE  /\ \A i \in 1 .. d + t : down'[i].of = ReadSoFar => count + i <= reads
                 /\ count > 0 => \A j : j = ReadSoFar => ~(IsOwed(j)')
      <3>1. \A i \in 1 .. d : down[i].of = ReadSoFar => count + i <= reads
        BY <1>9, <2>6 DEF StreamsInStep, d, reads
      <3>2. count > 0 => ~IsOwed(ReadSoFar)
        BY <1>9, <2>6 DEF StreamsInStep
      <3>3. Awaited = ReadSoFar
        BY <2>6 DEF Awaited
      <3>4. ASSUME NEW i \in 1 .. d + t, down'[i].of = ReadSoFar
            PROVE  count + i <= reads
        <4>1. CASE i \in 1 .. d
          BY <1>3, <3>1, <3>4, <4>1
        <4>2. CASE i \notin 1 .. d
          <5>1. a = ReadSoFar /\ i - d \in 1 .. t
            BY <1>6, <3>4, <4>2
          <5>2. d = 0
            BY <1>3, <1>5, <1>7, <1>9, <2>1, <3>3, <5>1
          <5>3. IsOwed(ReadSoFar)
            BY <1>5, <5>1 DEF IsOwed, a
          <5>4. count = 0
            BY <1>4, <3>2, <5>3
          <5> QED
            BY <1>3, <1>4, <5>1, <5>2, <5>4
        <4> QED
          BY <4>1, <4>2
      <3>5. \A j : IsOwed(j)' => IsOwed(j)
        <4>1. \A n \in 1 .. Len(owed') : n + 1 \in 1 .. Len(owed) /\ owed'[n] = owed[n + 1]
          BY <1>3
        <4> QED
          BY <4>1 DEF IsOwed
      <3> QED
        BY <3>2, <3>4, <3>5
    <2>7. pc = "response" /\ count > 0 => ~(IsOwed(ReadSoFar)')
      BY <1>1, <2>6 DEF IsOwed
    <2> QED
      BY <1>1, <1>2, <1>3, <2>2, <2>3, <2>5, <2>6, <2>7 DEF StreamsInStep, reads
  <1> QED
    BY <1>8, <1>9

\* The server sends something else than the answer that is due.
LEMMA OutOfTurnPairing ==
    ASSUME TypeOK, UpInOrder, AnswersInOrder, NEW e,
           UNCHANGED <<protocol, asked, up, pc, count>>,
           OutOfTurn \/ (upset # Never /\ upset' = upset),
           Profile.reads = 1, protocol # "mysql",
           Len(down') = Len(down) + 1,
           \A i \in 1 .. Len(down) : down'[i] = down[i],
           down'[Len(down) + 1].of = e, e \in Nat, e >= upset',
           owed' \in Seq(Requests),
           \A m \in 1 .. Len(owed') : \E n \in 1 .. Len(owed) : owed'[m] = owed[n],
           \A n \in 1 .. Len(owed) : owed[n] = e \/ \E m \in 1 .. Len(owed') : owed'[m] = owed[n],
           Increasing(owed')
    PROVE  /\ AnswersInOrder' /\ upset' \in Nat
           /\ StreamsInStep /\ ReadSoFar < upset' => StreamsInStep'
  <1> DEFINE d == Len(down)
  <1>1. Profile' = Profile /\ ReadSoFar' = ReadSoFar /\ ReadSoFar \in Nat
    BY KindsStay, ReadNone, ReadFacts
  <1>2. /\ d \in Nat /\ Len(owed) \in Nat /\ Len(asked) \in Nat /\ Len(owed') \in Nat
        /\ \A i \in 1 .. d : down[i].of \in Nat /\ down[i].of < Never
        /\ \A n \in 1 .. Len(owed) : owed[n] \in Nat /\ owed[n] > 0
        /\ owed # <<>> => Head(owed) = owed[1] /\ 1 \in 1 .. Len(owed)
        /\ owed = <<>> => Len(owed) = 0
    <2>1. owed \in Seq(Requests) /\ Len(owed) \in Nat /\ Len(owed') \in Nat
      BY LenProperties DEF TypeOK
    <2>2. /\ owed # <<>> => Head(owed) = owed[1] /\ 1 \in 1 .. Len(owed)
          /\ owed = <<>> => Len(owed) = 0
      BY <2>1, QueueFacts
    <2> QED
      BY <2>1, <2>2, StreamTypes
  <1>3. /\ upset \in Nat /\ upset' \in Nat /\ upset' > 0 /\ upset' <= upset /\ upset' # Never
    BY UpsetFacts
  <1>4. upset = Never => upset' = Due
    BY DEF OutOfTurn
  <1>5. upset' <= Len(asked) + 1 /\ \A n \in 1 .. Len(owed) : owed[n] >= upset'
    <2>1. CASE upset = Never
      <3>1. CASE owed = <<>>
        BY <1>2, <1>4, <2>1, <3>1 DEF Due
      <3>2. CASE owed # <<>>
        <4>1. upset' = owed[1] /\ owed[1] <= Len(asked)
          BY <1>2, <1>4, <2>1, <3>2 DEF Due, AnswersInOrder
        <4>2. \A n \in 1 .. Len(owed) : n = 1 \/ owed[1] < owed[n]
          BY <1>2, <3>2 DEF AnswersInOrder, Increasing
        <4>3. owed[1] \in Nat
          BY <1>2, <3>2
        <4> QED
          BY <1>2, <4>1, <4>2, <4>3
      <3> QED
        BY <3>1, <3>2
    <2>2. CASE upset # Never
      <3>1. upset' = upset
        BY <2>2 DEF OutOfTurn
      <3> QED
        BY <2>2, <3>1 DEF AnswersInOrder
    <2> QED
      BY <2>1, <2>2
  <1>6. \A i \in 1 .. d : down[i].of < upset => down[i].of < upset'
    <2>1. CASE upset = Never
      <3>1. CASE owed = <<>>
        <4>1. \A i \in 1 .. d : down[i].of <= Len(asked)
          BY <1>2, <2>1 DEF AnswersInOrder
        <4> QED
          BY <1>2, <1>4, <2>1, <3>1, <4>1 DEF Due
      <3>2. CASE owed # <<>>
        BY <1>2, <1>4, <2>1, <3>2 DEF Due, AnswersInOrder
      <3> QED
        BY <3>1, <3>2
    <2>2. CASE upset # Never
      BY <2>2 DEF OutOfTurn
    <2> QED
      BY <2>1, <2>2
  <1>7. \A i \in 1 .. d + 1 :
           i \in 1 .. d \/ (i = d + 1 /\ down'[i].of >= upset' /\ down'[i].of # 0)
    <2>1. \A i \in 1 .. d + 1 : i \in 1 .. d \/ i = d + 1
      BY <1>2
    <2>2. e # 0
      BY <1>3
    <2> QED
      BY <2>1, <2>2
  <1>8. \A i \in 1 .. d : down'[i] = down[i]
    OBVIOUS
  <1>9. AnswersInOrder'
    <2>1. ASSUME NEW i \in 1 .. d + 1, NEW j \in 1 .. d + 1, i < j, down'[j].of < upset'
          PROVE  /\ down'[i].of <= down'[j].of
                 /\ down'[i].of = down'[j].of => down'[i].tag = "more" /\ j - i + 1 <= 1
      <3>1. j \in 1 .. d
        BY <1>2, <1>3, <1>7, <2>1
      <3>2. i \in 1 .. d
        BY <1>2, <2>1, <3>1
      <3>3. down'[i] = down[i] /\ down'[j] = down[j] /\ down[j].of < upset
        BY <1>2, <1>3, <1>8, <2>1, <3>1, <3>2
      <3> QED
        BY <2>1, <3>1, <3>2, <3>3 DEF AnswersInOrder
    <2>2. ASSUME NEW i \in 1 .. d + 1
          PROVE  /\ down'[i].of = 0 => i = 1 /\ pc = "greeting"
                 /\ down'[i].of # 0 /\ down'[i].of < upset' =>
                       down'[i].of <= Len(asked) /\ "oneway" \notin asked[down'[i].of]
                 /\ \A n \in 1 .. Len(owed) : down'[i].of < upset' => down'[i].of < owed[n]
      <3>1. CASE i \in 1 .. d
        <4>1. down'[i] = down[i] /\ (down[i].of < upset' => down[i].of < upset)
          BY <1>2, <1>3, <1>8, <3>1
        <4> QED
          BY <3>1, <4>1 DEF AnswersInOrder
      <3>2. CASE i = d + 1
        BY <1>3, <1>7, <3>2
      <3> QED
        BY <1>7, <3>1, <3>2
    <2>3. \A m \in 1 .. Len(owed') :
             owed'[m] <= Len(asked) /\ "oneway" \notin asked[owed'[m]] /\ owed'[m] >= upset'
      BY <1>5 DEF AnswersInOrder
    <2>4. pc = "greeting" => down' # <<>> /\ down'[1].of = 0
      <3>1. pc = "greeting" => d > 0 /\ down[1].of = 0
        BY StreamTypes DEF AnswersInOrder
      <3>2. Len(<<>>) = 0
        BY StreamTypes
      <3> QED
        BY <1>2, <1>8, <3>1, <3>2
    <2>5. \A i \in 1 .. d + 1, m \in 1 .. Len(owed') :
             down'[i].of < upset' => down'[i].of < owed'[m]
      BY <2>2
    <2> HIDE DEF d
    <2> QED
      BY <1>1, <1>5, <2>1, <2>2, <2>3, <2>4, <2>5 DEF AnswersInOrder, d
  <1>10. ASSUME StreamsInStep, ReadSoFar < upset' PROVE StreamsInStep'
    <2>1. Awaited' = Awaited /\ Awaited \in Nat /\ Awaited <= ReadSoFar + 1
      BY <1>1 DEF Awaited
    <2>2. \A i \in 1 .. d + 1 : down'[i].of >= Awaited
      <3>1. e >= Awaited
        BY <1>1, <1>3, <1>10, <2>1
      <3> QED
        BY <1>2, <1>7, <1>8, <1>10, <3>1 DEF StreamsInStep
    <2>3. \A m \in 1 .. Len(owed') : owed'[m] >= Awaited
      BY <1>10 DEF StreamsInStep
    <2>4. ASSUME NEW j \in 1 .. Len(asked), j >= Awaited, "oneway" \notin asked[j]
          PROVE  IsOwed(j)' \/ \E i \in 1 .. d + 1 : down'[i].of = j
      <3>1. IsOwed(j) \/ \E i \in 1 .. d : down[i].of = j
        BY <1>10, <2>4 DEF StreamsInStep
      <3>2. IsOwed(j) => IsOwed(j)' \/ j = e
        BY DEF IsOwed
      <3>3. d + 1 \in 1 .. d + 1 /\ \A i \in 1 .. d : i \in 1 .. d + 1
        BY <1>2
      <3> QED
        BY <1>8, <3>1, <3>2, <3>3
    <2>5. pc = "response" =>
             \A i \in 1 .. d + 1 : down'[i].of = ReadSoFar => count + i <= Profile.reads
      <3>1. e # ReadSoFar
        BY <1>1, <1>3, <1>10
      <3> QED
        BY <1>7, <1>8, <1>10, <3>1 DEF StreamsInStep
    <2>6. pc = "response" /\ count > 0 => \A j : j = ReadSoFar => ~(IsOwed(j)')
      <3>1. \A j : IsOwed(j)' => IsOwed(j)
        BY DEF IsOwed
      <3>2. pc = "response" /\ count > 0 => ~IsOwed(ReadSoFar)
        BY <1>10 DEF StreamsInStep
      <3> QED
        BY <3>1, <3>2
    <2>7. pc = "response" /\ count > 0 => ~(IsOwed(ReadSoFar)')
      BY <1>1, <2>6 DEF IsOwed
    <2> HIDE DEF d
    <2> QED
      BY <1>1, <2>1, <2>2, <2>3, <2>4, <2>5, <2>7 DEF StreamsInStep, d
  <1> QED
    BY <1>3, <1>9, <1>10

\* An answer to another request than the one due, or any after that.
LEMMA AnswerOutOfTurn ==
    ASSUME TypeOK, UpInOrder, Paired, AnswersInOrder,
           NEW n \in 1 .. Len(owed), NEW tags \in Answers, Answer(n, tags),
           n > 1 \/ upset # Never
    PROVE  /\ AnswersInOrder' /\ upset' \in Nat
           /\ StreamsInStep /\ ReadSoFar < upset' => StreamsInStep'
  <1>1. /\ UNCHANGED <<protocol, asked, up, pc, count>>
        /\ OutOfTurn \/ (upset # Never /\ upset' = upset)
    BY DEF Answer, OutOfTurn
  <1>2. protocol # "mysql"
    BY DEF Answer, Multiplexed, AnswersInOrder
  <1>3. Profile.reads = 1 /\ Len(tags) = 1
    <2>1. Profile.reads = 1
      BY <1>2, TypeFacts DEF ProfileOK, Profile, Paired
    <2>2. Len(tags) \in Nat /\ Len(tags) > 0 /\ ~(Len(tags) > 1)
      BY <1>2, AnswerFacts
    <2> DEFINE t == Len(tags)
    <2>3. t \in Nat /\ t > 0 /\ ~(t > 1)
      BY <2>2
    <2> HIDE DEF t
    <2>4. t = 1
      BY <2>3
    <2> QED
      BY <2>1, <2>4 DEF t
  <1>4. /\ Len(down') = Len(down) + 1 /\ Len(owed) \in Nat
        /\ \A i \in 1 .. Len(down) : down'[i] = down[i]
        /\ down'[Len(down) + 1].of = owed[n]
        /\ Len(owed') = Len(owed) - 1
        /\ \A m \in 1 .. Len(owed) - 1 : owed'[m] = IF m < n THEN owed[m] ELSE owed[m + 1]
    <2>1. 1 \in 1 .. Len(tags)
      BY <1>3
    <2>2. /\ Len(down') = Len(down) + Len(tags)
          /\ \A i \in 1 .. Len(down) : down'[i] = down[i]
          /\ \A i \in 1 .. Len(tags) : down'[Len(down) + i].of = owed[n]
          /\ Len(owed') = Len(owed) - 1
          /\ \A m \in 1 .. Len(owed) - 1 : owed'[m] = IF m < n THEN owed[m] ELSE owed[m + 1]
      BY AnswerFacts
    <2>3. Len(owed) \in Nat
      BY StreamTypes
    <2> QED
      BY <1>3, <2>1, <2>2, <2>3, Zenon
  <1>5. owed' \in Seq(Requests) /\ owed \in Seq(Requests)
    BY RemoveFacts DEF Answer, TypeOK
  <1>6. \A m \in 1 .. Len(owed') : \E k \in 1 .. Len(owed) : owed'[m] = owed[k]
    BY <1>4
  <1>7. ASSUME NEW k \in 1 .. Len(owed)
        PROVE  owed[k] = owed[n] \/ \E m \in 1 .. Len(owed') : owed'[m] = owed[k]
    <2>1. CASE k < n
      <3>1. k \in 1 .. Len(owed')
        BY <1>4, <2>1
      <3> QED
        BY <1>4, <2>1, <3>1
    <2>2. CASE k > n
      <3>1. k - 1 \in 1 .. Len(owed') /\ ~(k - 1 < n) /\ (k - 1) + 1 = k
        BY <1>4, <2>2
      <3> QED
        BY <1>4, <3>1
    <2>3. k < n \/ k = n \/ k > n
      BY <1>4
    <2> QED
      BY <2>1, <2>2, <2>3
  <1>8. Increasing(owed')
    <2>1. \A i, j \in 1 .. Len(owed) : i < j => owed[i] < owed[j]
      BY DEF AnswersInOrder, Increasing
    <2>2. ASSUME NEW i \in 1 .. Len(owed'), NEW j \in 1 .. Len(owed'), i < j
          PROVE  owed'[i] < owed'[j]
      <3> DEFINE At(m) == IF m < n THEN m ELSE m + 1
      <3>1. /\ i \in 1 .. Len(owed) - 1 /\ j \in 1 .. Len(owed) - 1
            /\ Len(owed) \in Nat /\ n \in 1 .. Len(owed)
        BY <1>4, <2>2
      <3>2. At(i) \in 1 .. Len(owed) /\ At(j) \in 1 .. Len(owed) /\ At(i) < At(j)
        BY <2>2, <3>1
      <3>3. owed'[i] = owed[At(i)] /\ owed'[j] = owed[At(j)]
        BY <1>4, <3>1
      <3> HIDE DEF At
      <3> QED
        BY <2>1, <3>2, <3>3
    <2> QED
      BY <2>2 DEF Increasing
  <1>9. owed[n] \in Nat /\ owed[n] >= upset'
    <2>1. \A i \in 1 .. Len(owed) : owed[i] \in Nat
      BY StreamTypes
    <2>2. CASE upset # Never
      BY <1>1, <2>1, <2>2 DEF AnswersInOrder, OutOfTurn
    <2>3. CASE upset = Never
      <3>1. n > 1 /\ 1 \in 1 .. Len(owed) /\ owed # <<>> /\ Head(owed) = owed[1]
        BY <1>4, <1>5, <2>3, QueueFacts
      <3>2. upset' = owed[1]
        BY <1>1, <2>3, <3>1 DEF OutOfTurn, Due
      <3> QED
        BY <2>1, <3>1, <3>2 DEF AnswersInOrder, Increasing
    <2> QED
      BY <2>2, <2>3
  <1> QED
    BY <1>1, <1>2, <1>3, <1>4, <1>5, <1>6, <1>7, <1>8, <1>9, OutOfTurnPairing

\* A message that answers no request.
LEMMA PushPairing ==
    ASSUME TypeOK, UpInOrder, Paired, AnswersInOrder, Push
    PROVE  /\ AnswersInOrder' /\ upset' \in Nat
           /\ StreamsInStep /\ ReadSoFar < upset' => StreamsInStep'
  <1>1. UNCHANGED <<protocol, asked, owed, up, pc, count>> /\ OutOfTurn
    BY DEF Push
  <1>2. protocol # "mysql" /\ Profile.reads = 1
    BY TypeFacts DEF Push, Pushing, ProfileOK, Profile, Paired
  <1>3. Unasked \in Nat /\ [of |-> Unasked, tag |-> "ok"] \in Responses
    BY HandlersAssumption DEF Responses, Unasked, Tags
  <1>4. /\ Len(down') = Len(down) + 1
        /\ \A i \in 1 .. Len(down) : down'[i] = down[i]
        /\ down'[Len(down) + 1].of = Unasked
    <2>1. down' = Append(down, [of |-> Unasked, tag |-> "ok"]) /\ down \in Seq(Responses)
      BY TypeFacts DEF Push
    <2> QED
      BY <1>3, <2>1, AppendProperties
  <1>5. Unasked >= upset'
    BY <1>1, UpsetFacts, HandlersAssumption DEF Unasked, Never
  <1>6. owed' \in Seq(Requests) /\ Increasing(owed')
    BY <1>1 DEF TypeOK, AnswersInOrder, Increasing
  <1> QED
    BY <1>1, <1>2, <1>3, <1>4, <1>5, <1>6, OutOfTurnPairing

\* The traffic keeps the streams in step.
LEMMA PairingTraffic ==
    ASSUME TypeOK, Control, Pairing, TrafficStep
    PROVE  Pairing'
  <1> SUFFICES ASSUME pc' \in Looping, Paired'
               PROVE  /\ AnswersInOrder'
                      /\ Unskewed(ReadSoFar)' /\ ~(closed' /\ down' = <<>>) => StreamsInStep'
    BY DEF Pairing
  <1>1. /\ UNCHANGED <<protocol, costShown, midstream, pc, buf, count, out>>
        /\ closed => down' = down /\ closed'
        /\ Len(asked) \in Nat /\ Len(asked') \in Nat /\ Len(asked) <= Len(asked')
        /\ \A i \in 1 .. Len(asked) : asked'[i] = asked[i]
        /\ ReadSoFar' = ReadSoFar
        /\ upset \in Nat /\ upset > 0 /\ upset' \in Nat /\ upset' <= upset
    BY TrafficFacts, UpsetFacts
  <1>2. pc \in Looping /\ Paired /\ UpInOrder
    <2>1. Profile' = Profile
      BY <1>1, KindsStay
    <2> QED
      BY <1>1, <2>1 DEF Paired, CompleteAnswers, Control
  <1>3. AnswersInOrder
    BY <1>2 DEF Pairing
  <1>4. Unskewed(ReadSoFar)' /\ ~(closed' /\ down' = <<>>) => StreamsInStep
    <2>1. Unskewed(ReadSoFar)' => Unskewed(ReadSoFar)
      <3>1. ReadSoFar \in 0 .. Len(asked)
        BY <1>2, ReadFacts
      <3>2. \A i \in 0 .. Len(asked) : Unskewed(i)' => Unskewed(i)
        <4>1. \A i \in 0 .. Len(asked) : i = 0 \/ i \in 1 .. Len(asked)
          BY <1>1
        <4> QED
          BY <1>1, <4>1, RequestsKept
      <3>3. Unskewed(ReadSoFar)' => \A i : i = ReadSoFar => Unskewed(i)'
        BY <1>1 DEF Unskewed
      <3> QED
        BY <3>1, <3>2, <3>3
    <2> QED
      BY <1>1, <1>2, <2>1 DEF Pairing
  <1>5. CASE \E k \in Kinds : Ask(k)
    BY <1>2, <1>3, <1>4, <1>5, AskPairing
  <1>6. CASE \E n \in 1 .. Len(owed), tags \in Answers : Answer(n, tags)
    <2>1. PICK n \in 1 .. Len(owed), tags \in Answers : Answer(n, tags)
      BY <1>6
    <2>2. CASE n = 1 /\ upset = Never
      BY <1>2, <1>3, <1>4, <2>1, <2>2, AnswerPairing
    <2>3. CASE n > 1 \/ upset # Never
      <3>1. /\ AnswersInOrder' /\ upset' \in Nat
            /\ StreamsInStep /\ ReadSoFar < upset' => StreamsInStep'
        BY <1>2, <1>3, <2>1, <2>3, AnswerOutOfTurn
      <3> QED
        BY <1>1, <1>4, <3>1 DEF Unskewed
    <2> QED
      BY <2>1, <2>2, <2>3
  <1>8. CASE Push
    <2>1. /\ AnswersInOrder' /\ upset' \in Nat
          /\ StreamsInStep /\ ReadSoFar < upset' => StreamsInStep'
      BY <1>2, <1>3, <1>8, PushPairing
    <2> QED
      BY <1>1, <1>4, <2>1 DEF Unskewed
  <1>7. CASE Close \/ Tick
    <2>1. UNCHANGED <<protocol, asked, owed, upset, down, pc, count>> /\ Profile' = Profile
      BY <1>1, <1>7, KindsStay DEF Close, Tick
    <2>2. AnswersInOrder'
      BY <1>3, <2>1 DEF AnswersInOrder, Increasing
    <2>3. StreamsInStep => StreamsInStep'
      BY <1>1, <2>1 DEF StreamsInStep, Awaited, IsOwed
    <2> QED
      BY <1>4, <2>2, <2>3
  <1> QED
    BY <1>5, <1>6, <1>7, <1>8 DEF TrafficStep

\* The handler reads a response, or none: the rest stays in order.
LEMMA AnswersRead ==
    ASSUME TypeOK, UNCHANGED traffic, AnswersInOrder, pc' # "greeting",
           \/ down' = down /\ pc # "greeting"
           \/ down # <<>> /\ down' = Tail(down)
    PROVE  AnswersInOrder'
  <1>1. UNCHANGED <<protocol, asked, owed, upset>> /\ Profile' = Profile
    BY HandleFrame
  <1>2. CASE down' = down /\ pc # "greeting"
    BY <1>1, <1>2 DEF AnswersInOrder, Increasing
  <1>3. CASE down # <<>> /\ down' = Tail(down)
    <2> DEFINE d == Len(down)
    <2>1. /\ d \in Nat /\ d > 0 /\ Len(down') = d - 1
          /\ \A i \in 1 .. d - 1 : down'[i] = down[i + 1]
      BY <1>3, StreamTypes
    <2>2. \A i \in 1 .. d - 1 : i + 1 \in 1 .. d /\ i + 1 # 1
      BY <2>1
    <2>3. ASSUME NEW i \in 1 .. d - 1, NEW j \in 1 .. d - 1, i < j, down'[j].of < upset
          PROVE  /\ down'[i].of <= down'[j].of
                 /\ down'[i].of = down'[j].of =>
                       down'[i].tag = "more" /\ j - i + 1 <= Profile.reads
      <3>1. i + 1 < j + 1 /\ (j + 1) - (i + 1) + 1 = j - i + 1
        BY <2>3
      <3>2. /\ down[i + 1].of <= down[j + 1].of
            /\ down[i + 1].of = down[j + 1].of =>
                  down[i + 1].tag = "more" /\ (j + 1) - (i + 1) + 1 <= Profile.reads
        BY <2>1, <2>2, <2>3, <3>1 DEF AnswersInOrder
      <3> QED
        BY <2>1, <3>1, <3>2
    <2>4. ASSUME NEW i \in 1 .. d - 1
          PROVE  /\ down'[i].of # 0
                 /\ down'[i].of < upset =>
                       down'[i].of <= Len(asked) /\ "oneway" \notin asked[down'[i].of]
                 /\ down'[i].tag = "more" /\ Profile.reads # 1 =>
                       i < d - 1 /\ down'[i + 1].of = down'[i].of
                 /\ \A n \in 1 .. Len(owed) : down'[i].of < upset => down'[i].of < owed[n]
      <3>1. /\ down[i + 1].of # 0
            /\ down[i + 1].of < upset =>
                  down[i + 1].of <= Len(asked) /\ "oneway" \notin asked[down[i + 1].of]
            /\ \A n \in 1 .. Len(owed) : down[i + 1].of < upset => down[i + 1].of < owed[n]
        BY <2>2 DEF AnswersInOrder
      <3>2. down[i + 1].tag = "more" /\ Profile.reads # 1 =>
                i + 1 < d /\ down[(i + 1) + 1].of = down[i + 1].of
        BY <2>2, <3>1 DEF AnswersInOrder
      <3>3. i + 1 < d => i + 1 \in 1 .. d - 1 /\ i < d - 1
        BY <2>1
      <3> QED
        BY <2>1, <3>1, <3>2, <3>3
    <2> QED
      BY <1>1, <2>1, <2>3, <2>4 DEF AnswersInOrder, Increasing
  <1> QED
    BY <1>2, <1>3

\* The response of the request in hand has been read, and no more of it is
\* left in the stream.
LEMMA PairingPast ==
    ASSUME TypeOK, Control, Pairing, UNCHANGED traffic, UNCHANGED up,
           pc \in {"discard", "response"}, pc' = "request",
           DownFails \/ down # <<>>, down' = Rest(down),
           ASSUME Paired, AnswersInOrder, StreamsInStep, down # <<>>, Unskewed(ReadSoFar)
           PROVE  \A j \in 2 .. Len(down) : down[j].of # ReadSoFar
    PROVE  Pairing'
  <1> SUFFICES ASSUME Paired'
               PROVE  /\ AnswersInOrder'
                      /\ Unskewed(ReadSoFar)' /\ ~(closed' /\ down' = <<>>) => StreamsInStep'
    BY DEF Pairing
  <1>1. /\ Paired /\ pc \in Looping /\ UNCHANGED <<closed, asked, owed>>
        /\ Profile' = Profile /\ ReadSoFar' = ReadSoFar
        /\ (Unskewed(ReadSoFar)' => Unskewed(ReadSoFar))
    <2>1. /\ Paired /\ UNCHANGED <<closed, asked, owed, upset>> /\ Profile' = Profile
          /\ \A i : Skews(i)' <=> Skews(i)
      BY HandleFrame
    <2>2. ReadSoFar' = ReadSoFar
      BY <2>1, ReadNone
    <2> QED
      BY <2>1, <2>2 DEF Unskewed, Looping
  <1>2. AnswersInOrder
    BY <1>1 DEF Pairing
  <1>3. CASE down = <<>>
    <2>1. down' = down /\ closed'
      BY <1>1, <1>3 DEF Rest, DownFails
    <2> QED
      BY <1>2, <1>3, <2>1, AnswersRead
  <1>4. CASE down # <<>>
    <2>1. /\ down' = Tail(down) /\ Len(down) \in Nat /\ Len(down') = Len(down) - 1
          /\ \A i \in 1 .. Len(down) - 1 : down'[i] = down[i + 1]
          /\ Len(down) > 0
          /\ \A i \in 1 .. Len(down) : down[i].of \in Nat
      BY <1>4, StreamTypes
    <2>2. AnswersInOrder'
      BY <1>2, <1>4, <2>1, AnswersRead
    <2>3. ASSUME Unskewed(ReadSoFar) PROVE StreamsInStep'
      <3>1. StreamsInStep /\ Awaited = ReadSoFar /\ Awaited' = ReadSoFar + 1
        BY <1>1, <1>4, <2>3 DEF Pairing, Awaited
      <3>2. down[1].of = ReadSoFar /\ ~IsOwed(ReadSoFar) /\ ReadSoFar \in Nat
        BY <1>1, <1>4, <2>3, HeadAnswers, InHand
      <3>3. \A j \in 2 .. Len(down) : down[j].of # ReadSoFar
        BY <1>1, <1>2, <1>4, <2>3, <3>1
      <3>4. \A i \in 1 .. Len(down) - 1 : down'[i].of >= ReadSoFar + 1
        <4>1. \A i \in 1 .. Len(down) - 1 : i + 1 \in 1 .. Len(down) /\ i + 1 \in 2 .. Len(down)
          BY <2>1
        <4>2. \A i \in 1 .. Len(down) : down[i].of >= ReadSoFar
          BY <3>1 DEF StreamsInStep
        <4>3. \A j \in 2 .. Len(down) : j \in 1 .. Len(down) /\ down[j].of >= ReadSoFar + 1
          BY <2>1, <3>2, <3>3, <4>2
        <4> QED
          BY <2>1, <4>1, <4>3
      <3>5. \A n \in 1 .. Len(owed) : owed[n] >= ReadSoFar + 1
        <4>1. \A n \in 1 .. Len(owed) : owed[n] >= ReadSoFar /\ owed[n] # ReadSoFar
          BY <3>1, <3>2 DEF StreamsInStep, IsOwed
        <4>2. \A n \in 1 .. Len(owed) : owed[n] \in Nat
          BY StreamTypes
        <4> QED
          BY <3>2, <4>1, <4>2
      <3>6. ASSUME NEW j \in 1 .. Len(asked), j >= ReadSoFar + 1, "oneway" \notin asked[j]
            PROVE  IsOwed(j)' \/ \E i \in 1 .. Len(down') : down'[i].of = j
        <4>1. IsOwed(j) \/ \E i \in 1 .. Len(down) : down[i].of = j
          BY <3>1, <3>2, <3>6 DEF StreamsInStep
        <4>2. IsOwed(j) => IsOwed(j)'
          BY <1>1 DEF IsOwed
        <4>3. ASSUME NEW i \in 1 .. Len(down), down[i].of = j
              PROVE  \E n \in 1 .. Len(down') : down'[n].of = j
          <5>1. i # 1
            BY <3>2, <3>6, <4>3
          <5>2. i - 1 \in 1 .. Len(down) - 1 /\ (i - 1) + 1 = i
            BY <2>1, <5>1
          <5> QED
            BY <2>1, <4>3, <5>2
        <4> QED
          BY <4>1, <4>2, <4>3
      <3> QED
        BY <1>1, <2>1, <3>1, <3>4, <3>5, <3>6 DEF StreamsInStep
    <2> QED
      BY <1>1, <2>2, <2>3
  <1> QED
    BY <1>3, <1>4

\* A request is read.  One whose response is not read next has none, or the
\* streams are no longer in step.
LEMMA PairingRequest ==
    ASSUME TypeOK, Control, Pairing, UNCHANGED traffic, UNCHANGED down,
           pc = "request", up # <<>>, up' = Tail(up),
           \/ /\ pc' = "request"
              /\ ~Skews(Head(up)) => "oneway" \in asked[Head(up)]
           \/ pc' \in {"discard", "response"} /\ count' = 0 /\ Profile.reads > 0
    PROVE  Pairing'
  <1> DEFINE r == Head(up)
  <1> SUFFICES ASSUME Paired'
               PROVE  /\ AnswersInOrder'
                      /\ Unskewed(ReadSoFar)' /\ ~(closed' /\ down' = <<>>) => StreamsInStep'
    BY DEF Pairing
  <1>1. /\ Paired /\ UNCHANGED <<closed, asked, owed, upset>> /\ Profile' = Profile
        /\ \A i : Skews(i)' <=> Skews(i)
        /\ \A i : IsOwed(i)' <=> IsOwed(i)
    BY HandleFrame
  <1>2. pc \in Looping /\ UpInOrder
    BY DEF Looping, Control
  <1>3. AnswersInOrder
    BY <1>1, <1>2 DEF Pairing
  <1>4. AnswersInOrder'
    BY <1>3, AnswersRead
  <1>5. ReadSoFar' = r /\ r = ReadSoFar + 1 /\ ReadSoFar \in Nat /\ r \in 1 .. Len(asked)
    BY <1>1, <1>2, ReadOne, ReadFacts
  <1>6. ASSUME Unskewed(ReadSoFar)', ~(closed' /\ down' = <<>>) PROVE StreamsInStep'
    <2>1. r < upset /\ \A j \in 1 .. r : ~Skews(j)
      BY <1>1, <1>5, <1>6 DEF Unskewed
    <2>2. Unskewed(ReadSoFar) /\ ~Skews(r)
      BY <1>5, <2>1, UpsetFacts DEF Unskewed
    <2>3. StreamsInStep
      BY <1>1, <1>2, <1>6, <2>2 DEF Pairing
    <2>4. Awaited = r
      BY <1>5 DEF Awaited
    <2>5. /\ \A i \in 1 .. Len(down) : down[i].of >= r /\ down[i].of \in Nat
          /\ \A n \in 1 .. Len(owed) : owed[n] >= r /\ owed[n] \in Nat
      BY <2>3, <2>4, StreamTypes DEF StreamsInStep
    <2>6. CASE pc' = "request" /\ (~Skews(r) => "oneway" \in asked[r])
      <3>1. "oneway" \in asked[r]
        BY <2>2, <2>6
      <3>2. Awaited' = r + 1
        BY <1>5, <2>6 DEF Awaited
      <3>3. \A i \in 1 .. Len(down) : down[i].of # r
        BY <1>3, <1>5, <2>1, <3>1 DEF AnswersInOrder
      <3>4. \A n \in 1 .. Len(owed) : owed[n] # r
        BY <1>3, <3>1 DEF AnswersInOrder
      <3>5. /\ \A i \in 1 .. Len(down) : down[i].of >= r + 1
            /\ \A n \in 1 .. Len(owed) : owed[n] >= r + 1
        BY <1>5, <2>5, <3>3, <3>4
      <3>6. \A j \in 1 .. Len(asked) : j >= r + 1 /\ "oneway" \notin asked[j] =>
               IsOwed(j)' \/ \E i \in 1 .. Len(down) : down[i].of = j
        <4>1. \A j \in 1 .. Len(asked) : j >= r + 1 => j >= r
          BY <1>5
        <4> QED
          BY <1>1, <2>3, <2>4, <4>1 DEF StreamsInStep
      <3> QED
        BY <1>1, <2>6, <3>2, <3>5, <3>6 DEF StreamsInStep
    <2>7. CASE pc' \in {"discard", "response"} /\ count' = 0 /\ Profile.reads > 0
      <3>1. Awaited' = r
        BY <1>5, <2>7 DEF Awaited
      <3>2. ASSUME NEW i \in 1 .. Len(down), down[i].of = r PROVE 0 + i <= Profile.reads
        <4>1. Len(down) \in Nat /\ Profile.reads \in Nat
          BY StreamTypes, TypeFacts
        <4>2. CASE i = 1
          BY <2>7, <4>1, <4>2
        <4>3. CASE i # 1
          <5>1. 1 \in 1 .. Len(down) /\ 1 < i
            BY <4>1, <4>3
          <5>2. down[1].of = down[i].of
            BY <1>3, <1>5, <2>1, <2>5, <3>2, <5>1 DEF AnswersInOrder
          <5>3. i - 1 + 1 <= Profile.reads
            BY <1>3, <2>1, <3>2, <5>1, <5>2 DEF AnswersInOrder
          <5> QED
            BY <4>1, <5>3
        <4> QED
          BY <4>2, <4>3
      <3>3. \A j \in 1 .. Len(asked) : j >= r /\ "oneway" \notin asked[j] =>
               IsOwed(j)' \/ \E i \in 1 .. Len(down) : down[i].of = j
        BY <1>1, <2>3, <2>4 DEF StreamsInStep
      <3> QED
        BY <1>1, <1>5, <2>5, <2>7, <3>1, <3>2, <3>3 DEF StreamsInStep
    <2> QED
      BY <2>6, <2>7
  <1> QED
    BY <1>4, <1>6

\* The greeting is read.
LEMMA PairingGreeting ==
    ASSUME TypeOK, Control, Pairing, ReadGreeting
    PROVE  Pairing'
  <1> SUFFICES ASSUME Paired'
               PROVE  /\ AnswersInOrder'
                      /\ Unskewed(ReadSoFar)' /\ ~(closed' /\ down' = <<>>) => StreamsInStep'
    BY DEF Pairing
  <1>1. /\ UNCHANGED traffic /\ UNCHANGED up /\ pc = "greeting" /\ pc' = "request"
        /\ down' = Rest(down)
    BY DEF ReadGreeting, LoopHead
  <1>2. /\ Paired /\ pc \in Looping /\ UNCHANGED <<closed, asked, owed>>
        /\ Profile' = Profile /\ \A i : IsOwed(i)' <=> IsOwed(i)
    BY <1>1, HandleFrame DEF Looping
  <1>3. AnswersInOrder /\ down # <<>> /\ down[1].of = 0
    BY <1>1, <1>2 DEF Pairing, AnswersInOrder
  <1>4. ReadSoFar = 0 /\ ReadSoFar' = 0
    BY <1>1, <1>2, ReadNone DEF Control
  <1>5. /\ down' = Tail(down) /\ Len(down) \in Nat /\ Len(down) > 0
        /\ Len(down') = Len(down) - 1
        /\ \A i \in 1 .. Len(down) - 1 : down'[i] = down[i + 1]
        /\ \A i \in 1 .. Len(down) : down[i].of \in Nat
        /\ \A n \in 1 .. Len(owed) : owed[n] \in Nat /\ owed[n] > 0
    BY <1>1, <1>3, StreamTypes
  <1>6. AnswersInOrder'
    BY <1>1, <1>3, <1>5, AnswersRead
  <1>7. StreamsInStep
    <2>1. Unskewed(ReadSoFar)
      BY <1>4, UpsetFacts DEF Unskewed
    <2> QED
      BY <1>2, <1>3, <2>1 DEF Pairing
  <1>8. StreamsInStep'
    <2>1. Awaited' = 1 /\ Awaited = 0
      BY <1>1, <1>4 DEF Awaited
    <2>2. \A i \in 1 .. Len(down') : down'[i].of >= 1
      <3>1. \A i \in 1 .. Len(down') : i + 1 \in 1 .. Len(down) /\ i + 1 # 1
        BY <1>5
      <3>2. \A i \in 1 .. Len(down') : down[i + 1].of # 0 /\ down[i + 1].of \in Nat
        BY <1>3, <1>5, <3>1 DEF AnswersInOrder
      <3> QED
        BY <1>5, <3>2
    <2>3. ASSUME NEW j \in 1 .. Len(asked), "oneway" \notin asked[j]
          PROVE  IsOwed(j)' \/ \E i \in 1 .. Len(down') : down'[i].of = j
      <3>1. IsOwed(j) \/ \E i \in 1 .. Len(down) : down[i].of = j
        BY <1>7, <2>1, <2>3 DEF StreamsInStep
      <3>2. ASSUME NEW i \in 1 .. Len(down), down[i].of = j
            PROVE  \E n \in 1 .. Len(down') : down'[n].of = j
        <4>1. i # 1
          BY <1>3, <3>2
        <4>2. i - 1 \in 1 .. Len(down) - 1 /\ (i - 1) + 1 = i
          BY <1>5, <4>1
        <4> QED
          BY <1>5, <3>2, <4>2
      <3> QED
        BY <1>2, <3>1, <3>2
    <2> QED
      BY <1>1, <1>2, <1>5, <2>1, <2>2, <2>3 DEF StreamsInStep
  <1> QED
    BY <1>6, <1>8

\* A response is read that is not the last of its answer.
LEMMA PairingMore ==
    ASSUME TypeOK, Control, Pairing, ReadResponse, pc' = pc, count' = count + 1,
           count + 1 # Profile.reads, ~(Profile.stops /\ Head(down).tag = "ok")
    PROVE  Pairing'
  <1> SUFFICES ASSUME Paired'
               PROVE  /\ AnswersInOrder'
                      /\ Unskewed(ReadSoFar)' /\ ~(closed' /\ down' = <<>>) => StreamsInStep'
    BY DEF Pairing
  <1>1. /\ UNCHANGED traffic /\ UNCHANGED up /\ pc = "response" /\ pc' = "response"
        /\ down' = Tail(down) /\ down # <<>> /\ ~DownFails
    BY DEF ReadResponse
  <1>2. /\ Paired /\ UNCHANGED <<closed, asked, owed, upset>> /\ Profile' = Profile
        /\ \A i : Skews(i)' <=> Skews(i)
        /\ \A i : IsOwed(i)' <=> IsOwed(i)
    BY <1>1, HandleFrame
  <1>3. AnswersInOrder
    BY <1>1, <1>2 DEF Pairing, Looping
  <1>4. ReadSoFar' = ReadSoFar
    BY <1>1, <1>2, ReadNone
  <1>5. AnswersInOrder'
    BY <1>1, <1>3, AnswersRead
  <1>6. /\ Len(down) \in Nat /\ Len(down) > 0 /\ Len(down') = Len(down) - 1
        /\ \A i \in 1 .. Len(down) - 1 : down'[i] = down[i + 1]
        /\ down[1].tag \in Tags /\ Head(down) = down[1]
    BY <1>1, StreamTypes
  <1>7. ASSUME Unskewed(ReadSoFar) PROVE StreamsInStep'
    <2>1. StreamsInStep /\ Awaited = ReadSoFar /\ Awaited' = ReadSoFar
      BY <1>1, <1>2, <1>4, <1>7 DEF Pairing, Looping, Awaited
    <2>2. down[1].of = ReadSoFar /\ ~IsOwed(ReadSoFar) /\ ReadSoFar \in Nat /\ ReadSoFar # 0
      BY <1>1, <1>2, <1>7, HeadAnswers, InHand
    <2>3. Profile.reads # 1
      <3>1. Profile.reads \in Nat /\ (count = 0 \/ count \in 1 .. Profile.reads - 1)
        BY TypeFacts
      <3> QED
        BY <3>1
    <2>4. down[1].tag = "more"
      BY <1>1, <1>2, <1>6, <2>3 DEF Paired, DownFails, Tags
    <2>5. 1 < Len(down) /\ down[2].of = ReadSoFar
      <3>1. 1 \in 1 .. Len(down) /\ 1 + 1 = 2
        BY <1>6
      <3> QED
        BY <1>3, <2>2, <2>3, <2>4, <3>1 DEF AnswersInOrder
    <2>6. 1 \in 1 .. Len(down') /\ down'[1].of = ReadSoFar
      BY <1>6, <2>5
    <2>7. \A i \in 1 .. Len(down') : i + 1 \in 1 .. Len(down) /\ down'[i] = down[i + 1]
      BY <1>6
    <2>8. \A i \in 1 .. Len(down') : down'[i].of >= ReadSoFar
      BY <2>1, <2>7 DEF StreamsInStep
    <2>9. ASSUME NEW j \in 1 .. Len(asked), j >= ReadSoFar, "oneway" \notin asked[j]
          PROVE  IsOwed(j)' \/ \E i \in 1 .. Len(down') : down'[i].of = j
      <3>1. IsOwed(j) \/ \E i \in 1 .. Len(down) : down[i].of = j
        BY <2>1, <2>9 DEF StreamsInStep
      <3>2. ASSUME NEW i \in 1 .. Len(down), down[i].of = j
            PROVE  \E n \in 1 .. Len(down') : down'[n].of = j
        <4>1. CASE i = 1
          BY <2>2, <2>6, <3>2, <4>1
        <4>2. CASE i # 1
          <5>1. i - 1 \in 1 .. Len(down) - 1 /\ (i - 1) + 1 = i
            BY <1>6, <4>2
          <5> QED
            BY <1>6, <3>2, <5>1
        <4> QED
          BY <4>1, <4>2
      <3> QED
        BY <1>2, <3>1, <3>2
    <2>10. \A i \in 1 .. Len(down') : down'[i].of = ReadSoFar => (count + 1) + i <= Profile.reads
      <3>1. \A i \in 1 .. Len(down) : down[i].of = ReadSoFar => count + i <= Profile.reads
        BY <1>1, <2>1 DEF StreamsInStep
      <3>2. count \in Nat /\ Profile.reads \in Nat
        BY TypeFacts
      <3>3. \A i \in 1 .. Len(down') : (count + 1) + i = count + (i + 1)
        BY <3>2
      <3> QED
        BY <2>7, <3>1, <3>3
    <2>11. ~(IsOwed(ReadSoFar)')
      BY <1>2, <1>4, <2>2 DEF IsOwed
    <2> QED
      BY <1>1, <1>2, <1>4, <2>1, <2>8, <2>9, <2>10, <2>11 DEF StreamsInStep
  <1>8. Unskewed(ReadSoFar)' => Unskewed(ReadSoFar)
    BY <1>2, <1>4 DEF Unskewed
  <1> QED
    BY <1>5, <1>7, <1>8

\* Every step of the handler keeps the streams in step.
LEMMA PairingHandle ==
    ASSUME TypeOK, Control, Pairing, Handle
    PROVE  Pairing'
  <1>1. ASSUME pc' \notin Looping PROVE Pairing'
    BY <1>1 DEF Pairing
  <1>2. CASE ReadGreeting
    BY <1>2, PairingGreeting
  <1>3. CASE SkipRequest
    <2>1. /\ UNCHANGED traffic /\ UNCHANGED down /\ pc = "request" /\ up # <<>>
          /\ up' = Tail(up)
      BY <1>3 DEF SkipRequest
    <2> DEFINE k == asked[Head(up)]
    <2>2. CASE (Repeats(k) \/ (Hides(k) /\ Profile.filter = "skip")) /\ pc' = "request"
      <3>1. ~Skews(Head(up)) => "oneway" \in k
        BY <2>2 DEF Skews
      <3> QED
        BY <2>1, <2>2, <3>1, PairingRequest
    <2>3. CASE /\ Hides(k) /\ Profile.filter = "read"
               /\ pc' = "discard" /\ UNCHANGED count
      <3>1. Profile.reads > 0
        BY <2>3, TypeFacts DEF ProfileOK, Profile
      <3>2. count = 0
        BY <2>1 DEF Control
      <3> QED
        BY <2>1, <2>3, <3>1, <3>2, PairingRequest
    <2> QED
      BY <1>3, <2>2, <2>3 DEF SkipRequest, LoopHead
  <1>4. CASE ReadRequest
    <2>1. /\ UNCHANGED traffic /\ UNCHANGED down /\ pc = "request" /\ up # <<>>
          /\ up' = Tail(up)
      BY <1>4 DEF ReadRequest
    <2> DEFINE k == asked[Head(up)]
    <2>2. CASE Profile.reads = 0 /\ pc' = "request"
      <3>1. ~Paired
        BY <2>2, TypeFacts, HandlersAssumption DEF ProfileOK, Profile, Paired
      <3>2. ~(Paired')
        BY <2>1, <3>1, HandleFrame
      <3> QED
        BY <3>2 DEF Pairing
    <2>3. CASE ~Awaits(k) /\ pc' = "request"
      <3>1. ~Skews(Head(up)) => "oneway" \in k
        BY <2>3 DEF Skews
      <3> QED
        BY <2>1, <2>3, <3>1, PairingRequest
    <2>4. CASE Profile.reads > 0 /\ pc' = "response" /\ UNCHANGED count
      <3>1. count = 0
        BY <2>1 DEF Control
      <3> QED
        BY <2>1, <2>4, <3>1, PairingRequest
    <2> QED
      BY <1>4, <2>2, <2>3, <2>4 DEF ReadRequest, LoopHead
  <1>5. CASE RequestFails
    BY <1>1, <1>5 DEF RequestFails, Looping
  <1>6. CASE DiscardResponse
    <2>1. /\ UNCHANGED traffic /\ UNCHANGED up /\ pc = "discard" /\ pc' = "request"
          /\ (DownFails \/ down # <<>>) /\ down' = Rest(down)
      BY <1>6 DEF DiscardResponse, LoopHead
    <2>2. Profile.reads = 1
      BY <2>1, TypeFacts DEF Control, ProfileOK, Profile
    <2>3. ASSUME Paired, AnswersInOrder, StreamsInStep, down # <<>>, Unskewed(ReadSoFar)
          PROVE  \A j \in 2 .. Len(down) : down[j].of # ReadSoFar
      <3> SUFFICES ASSUME NEW j \in 2 .. Len(down), down[j].of = ReadSoFar PROVE FALSE
        OBVIOUS
      <3>1. Len(down) \in Nat /\ 1 \in 1 .. Len(down) /\ j \in 1 .. Len(down) /\ 1 < j
        BY StreamTypes
      <3>2. down[1].of = down[j].of
        <4>1. down[1].of <= down[j].of /\ down[1].of \in Nat
          BY <2>3, <3>1, StreamTypes DEF AnswersInOrder, Unskewed
        <4>2. down[1].of >= ReadSoFar /\ ReadSoFar \in Nat
          BY <2>1, <2>3, <3>1, InHand DEF StreamsInStep, Awaited
        <4> QED
          BY <4>1, <4>2
      <3>3. j - 1 + 1 <= 1
        BY <2>2, <2>3, <3>1, <3>2 DEF AnswersInOrder, Unskewed
      <3> QED
        BY <3>1, <3>3
    <2> QED
      BY <2>1, <2>3, PairingPast
  <1>7. ASSUME pc = "response", pc' = "request", UNCHANGED traffic, UNCHANGED up,
               DownFails \/ down # <<>>, down' = Rest(down),
               down # <<>> => count + 1 = Profile.reads \/ Head(down).tag # "more"
        PROVE  Pairing'
    <2>1. ASSUME Paired, AnswersInOrder, StreamsInStep, down # <<>>, Unskewed(ReadSoFar)
          PROVE  \A j \in 2 .. Len(down) : down[j].of # ReadSoFar
      <3> SUFFICES ASSUME NEW j \in 2 .. Len(down), down[j].of = ReadSoFar PROVE FALSE
        OBVIOUS
      <3>1. /\ Len(down) \in Nat /\ 1 \in 1 .. Len(down) /\ j \in 1 .. Len(down) /\ 1 < j
            /\ Head(down) = down[1] /\ j \in Nat
        BY <2>1, StreamTypes
      <3>2. down[1].of = down[j].of
        <4>1. down[1].of <= down[j].of /\ down[1].of \in Nat
          BY <2>1, <3>1, StreamTypes DEF AnswersInOrder, Unskewed
        <4>2. down[1].of >= ReadSoFar /\ ReadSoFar \in Nat
          BY <1>7, <2>1, <3>1, InHand DEF StreamsInStep, Awaited
        <4> QED
          BY <4>1, <4>2
      <3>3. down[1].tag = "more"
        BY <2>1, <3>1, <3>2 DEF AnswersInOrder, Unskewed
      <3>4. count + j <= Profile.reads
        BY <1>7, <2>1, <3>1 DEF StreamsInStep
      <3>5. count + 1 = Profile.reads /\ count \in Nat
        BY <1>7, <2>1, <3>1, <3>3, TypeFacts
      <3> QED
        BY <3>1, <3>4, <3>5
    <2> QED
      BY <1>7, <2>1, PairingPast
  <1>8. CASE ReadResponse
    <2>1. /\ UNCHANGED traffic /\ UNCHANGED up /\ pc = "response" /\ down # <<>>
          /\ down' = Tail(down)
      BY <1>8 DEF ReadResponse
    <2>2. CASE /\ pc' = pc /\ count' = count + 1
               /\ count + 1 # Profile.reads /\ ~(Profile.stops /\ Head(down).tag = "ok")
      BY <1>8, <2>2, PairingMore
    <2>3. CASE /\ LoopHead
               /\ count + 1 = Profile.reads \/ (Profile.stops /\ Head(down).tag = "ok")
      BY <1>7, <2>1, <2>3 DEF LoopHead, Rest
    <2> QED
      BY <1>8, <2>2, <2>3 DEF ReadResponse
  <1>9. CASE ResponseFails
    <2>1. CASE LoopHead
      BY <1>7, <1>9, <2>1 DEF ResponseFails, LoopHead, DownFails
    <2>2. CASE pc' = "tail"
      BY <1>1, <2>2 DEF Looping
    <2> QED
      BY <1>9, <2>1, <2>2 DEF ResponseFails
  <1>10. CASE SendRest \/ ReadTriple \/ TripleEnds \/ DiscardDown \/ DiscardUp
    BY <1>1, <1>10 DEF SendRest, ReadTriple, TripleEnds, DiscardDown, DiscardUp, Looping
  <1> QED
    BY <1>2, <1>3, <1>4, <1>5, <1>6, <1>8, <1>9, <1>10 DEF Handle

-----------------------------------------------------------------------------
(***************************************************************************)
(* Responses are printed with the request they answer.                     *)
(***************************************************************************)

\* The blocks are empty at the start.
LEMMA MatchingInit == Init => Matching
  <1> SUFFICES ASSUME Init PROVE Matching
    OBVIOUS
  <1>1. buf.reqs = <<>> /\ buf.resps = <<>> /\ Len(out) = 0 /\ Len(<<>>) = 0
    BY BlockFacts, EmptySeq DEF Init
  <1> QED
    BY <1>1 DEF Matching, GoodBlock

\* More traffic does not change what is said of a block.
LEMMA MatchingTraffic ==
    ASSUME TypeOK, Matching, TrafficStep
    PROVE  Matching'
  <1>1. /\ UNCHANGED <<protocol, costShown, midstream, buf, out>>
        /\ Len(asked) \in Nat /\ Len(asked') \in Nat /\ Len(asked) <= Len(asked')
        /\ \A i \in 1 .. Len(asked) : asked'[i] = asked[i]
        /\ upset \in Nat /\ upset > 0 /\ upset' \in Nat /\ upset' <= upset
    BY TrafficFacts, UpsetFacts
  <1>2. Paired' => Paired
    <2>1. Profile' = Profile
      BY <1>1, KindsStay
    <2> QED
      BY <1>1, <2>1 DEF Paired, CompleteAnswers
  <1>3. \A i \in 1 .. Len(asked) : Unskewed(i)' => Unskewed(i)
    BY <1>1, RequestsKept
  <1>4. ASSUME NEW b \in Blocks, GoodBlock(b) PROVE GoodBlock(b)'
    <2>1. /\ b.reqs \in Seq(Requests) /\ Len(b.reqs) \in Nat
          /\ \A n \in 1 .. Len(b.reqs) : b.reqs[n] \in Requests
          /\ b.reqs # <<>> => Len(b.reqs) > 0
      BY QueueFacts DEF Blocks
    <2>2. b.resps \in Seq(PrintedResponses) /\ (b.resps = <<>> => Len(b.resps) = 0)
      BY EmptySeq DEF Blocks, PrintedResponses
    <2>3. ASSUME NEW m \in 1 .. Len(b.resps) PROVE b.reqs[1] \in 1 .. Len(asked)
      <3>1. b.reqs # <<>>
        BY <1>4, <2>2, <2>3 DEF GoodBlock
      <3>2. 1 \in 1 .. Len(b.reqs)
        BY <2>1, <3>1
      <3>3. b.reqs[1] \in Requests /\ b.reqs[1] <= Len(asked)
        BY <1>4, <2>1, <3>2 DEF GoodBlock
      <3> QED
        BY <1>1, <3>3, HandlersAssumption DEF Requests
    <2>4. \A n \in 1 .. Len(b.reqs) : b.reqs[n] <= Len(asked')
      BY <1>1, <1>4, <2>1, HandlersAssumption DEF GoodBlock, Requests
    <2>5. Paired' => \A m \in 1 .. Len(b.resps) :
                        (\A r : r = b.reqs[1] => Unskewed(r)') => b.resps[m].of = b.reqs[1]
      BY <1>2, <1>3, <1>4, <2>3 DEF GoodBlock
    <2> QED
      BY <1>4, <2>4, <2>5 DEF GoodBlock
  <1>5. buf \in Blocks /\ \A n \in 1 .. Len(out) : out[n] \in Blocks
    BY TypeFacts, QueueFacts
  <1>6. GoodBlock(buf)'
    <2>1. \A b : b = buf => GoodBlock(b)'
      BY <1>4, <1>5 DEF Matching
    <2> QED
      BY <1>1, <2>1 DEF GoodBlock
  <1>7. \A n \in 1 .. Len(out) : GoodBlock(out[n])'
    <2>1. \A b : \A n \in 1 .. Len(out) : b = out[n] => GoodBlock(b)'
      BY <1>4, <1>5 DEF Matching
    <2> QED
      BY <1>1, <2>1 DEF GoodBlock
  <1> QED
    BY <1>1, <1>6, <1>7 DEF Matching

\* The handler fills its buffer and sends blocks.
LEMMA MatchingStep ==
    ASSUME TypeOK, Matching, UNCHANGED traffic, GoodBlock(buf'),
           out' = out \/ \E b \in Blocks : GoodBlock(b) /\ out' = Append(out, b)
    PROVE  Matching'
  <1>1. /\ UNCHANGED asked /\ (Paired' <=> Paired) /\ \A i : Unskewed(i)' <=> Unskewed(i)
    BY HandleFrame
  <1>2. \A b : GoodBlock(b) => GoodBlock(b)'
    BY <1>1 DEF GoodBlock
  <1>3. GoodBlock(buf)'
    <2>1. \A b : b = buf' => GoodBlock(b)'
      BY <1>2
    <2> QED
      BY <2>1 DEF GoodBlock
  <1>4. \A n \in 1 .. Len(out') : GoodBlock(out'[n])
    <2>1. CASE out' = out
      BY <2>1 DEF Matching
    <2>2. ASSUME NEW b \in Blocks, GoodBlock(b), out' = Append(out, b)
          PROVE  \A n \in 1 .. Len(out') : GoodBlock(out'[n])
      <3>1. /\ Len(out') = Len(out) + 1 /\ Len(out) \in Nat /\ out'[Len(out) + 1] = b
            /\ \A n \in 1 .. Len(out) : out'[n] = out[n]
        BY <2>2, TypeFacts, AppendProperties, LenProperties
      <3>2. \A n \in 1 .. Len(out) + 1 : n \in 1 .. Len(out) \/ n = Len(out) + 1
        BY <3>1
      <3> QED
        BY <2>2, <3>1, <3>2 DEF Matching
    <2> QED
      BY <2>1, <2>2
  <1>5. (\A n \in 1 .. Len(out) : GoodBlock(out[n]))'
    <2>1. \A b : \A n \in 1 .. Len(out') : b = out'[n] => GoodBlock(b)'
      BY <1>2, <1>4
    <2> QED
      BY <2>1 DEF GoodBlock
  <1> QED
    BY <1>3, <1>5 DEF Matching

\* A block that is sent or started by a step of the handler is good.
LEMMA MatchingHandle ==
    ASSUME TypeOK, Control, Pairing, Matching, Handle
    PROVE  Matching'
  <1>1. UNCHANGED traffic
    BY DEF Handle, ReadGreeting, SkipRequest, ReadRequest, RequestFails, DiscardResponse,
       ReadResponse, ResponseFails, SendRest, ReadTriple, TripleEnds, DiscardDown, DiscardUp
  <1>2. GoodBlock(Empty) /\ Empty \in Blocks
    BY BlockFacts, EmptySeq DEF GoodBlock
  <1>3. GoodBlock(buf) /\ buf \in Blocks
    BY TypeFacts DEF Matching
  <1>4. CASE ReadGreeting
    BY <1>1, <1>2, <1>4, MatchingStep DEF ReadGreeting, LoopHead
  <1>5. CASE SkipRequest
    BY <1>1, <1>2, <1>3, <1>5, MatchingStep DEF SkipRequest, LoopHead
  <1>6. CASE ReadRequest
    <2> DEFINE b == [Empty EXCEPT !.reqs = <<Head(up)>>]
    <2>1. pc = "request" /\ up # <<>> /\ UpInOrder
      BY <1>6 DEF ReadRequest, Control, Looping
    <2>2. Head(up) \in Requests /\ Head(up) <= Len(asked)
      BY <2>1, ReadFacts, TypeFacts
    <2>3. b \in Blocks /\ b.reqs = <<Head(up)>> /\ b.resps = <<>>
      BY <2>2, BlockFacts
    <2> HIDE DEF b
    <2>4. GoodBlock(b)
      <3>1. Len(b.reqs) = 1 /\ b.reqs[1] = Head(up) /\ Len(b.resps) = 0
        BY <2>3
      <3> QED
        BY <2>2, <2>3, <3>1 DEF GoodBlock
    <2>5. \/ out' = Append(out, b) /\ buf' = Empty
          \/ out' = out /\ buf' = b
      BY <1>6 DEF ReadRequest, LoopHead, b
    <2> QED
      BY <1>1, <1>2, <2>3, <2>4, <2>5, MatchingStep
  <1>7. CASE RequestFails
    BY <1>1, <1>3, <1>7, MatchingStep DEF RequestFails
  <1>8. CASE DiscardResponse
    BY <1>1, <1>2, <1>8, MatchingStep DEF DiscardResponse, LoopHead
  <1>9. CASE ReadResponse
    <2> DEFINE r == [of |-> Head(down).of, latency |-> Elapsed]
    <2>1. pc = "response" /\ down # <<>>
      BY <1>9 DEF ReadResponse
    <2>2. /\ ReadBlock \in Blocks /\ ReadBlock.reqs = buf.reqs /\ r \in PrintedResponses
          /\ ReadBlock.resps = buf.resps \/ ReadBlock.resps = Append(buf.resps, r)
      BY <2>1, ReadBlockFacts
    <2>3. buf.reqs # <<>> /\ buf.reqs[1] = ReadSoFar
      <3>1. buf.reqs = <<ReadSoFar>>
        BY <2>1, InHand
      <3> QED
        BY <3>1
    <2>4. GoodBlock(ReadBlock)
      <3>1. CASE ReadBlock.resps = buf.resps
        BY <1>3, <2>2, <3>1 DEF GoodBlock
      <3>2. CASE ReadBlock.resps = Append(buf.resps, r)
        <4> DEFINE q == buf.resps
                   p == ReadBlock.resps
        <4>1. q \in Seq(PrintedResponses) /\ r.of = Head(down).of
          BY <1>3 DEF Blocks, PrintedResponses
        <4> HIDE DEF r
        <4>2. /\ Len(q) \in Nat /\ Len(p) = Len(q) + 1 /\ p[Len(q) + 1] = r
              /\ \A m \in 1 .. Len(q) : p[m] = q[m]
          BY <2>2, <3>2, <4>1, AppendProperties, LenProperties
        <4>3. Paired /\ Unskewed(ReadSoFar) => r.of = ReadSoFar
          BY <2>1, <4>1, HeadAnswers, StreamTypes
        <4>4. Paired /\ Unskewed(ReadSoFar) =>
                 \A m \in 1 .. Len(q) : q[m].of = ReadSoFar
          BY <1>3, <2>3 DEF GoodBlock
        <4> HIDE DEF p, q
        <4>5. Paired /\ Unskewed(ReadSoFar) => \A m \in 1 .. Len(p) : p[m].of = ReadSoFar
          BY <4>2, <4>3, <4>4
        <4> QED
          BY <1>3, <2>2, <2>3, <4>5 DEF GoodBlock, p
      <3> QED
        BY <2>2, <3>1, <3>2
    <2>5. \/ out' = out /\ buf' = ReadBlock
          \/ out' \in {out, Append(out, ReadBlock)} /\ buf' = Empty
      BY <1>9 DEF ReadResponse, ReadBlock, LoopHead
    <2> QED
      BY <1>1, <1>2, <2>2, <2>4, <2>5, MatchingStep
  <1>10. CASE ResponseFails
    BY <1>1, <1>2, <1>3, <1>10, MatchingStep DEF ResponseFails, LoopHead
  <1>11. CASE SendRest
    BY <1>1, <1>3, <1>11, MatchingStep DEF SendRest
  <1>12. CASE ReadTriple
    <2>1. /\ pc = "triple" /\ up # <<>> /\ UpInOrder /\ out' = out
          /\ buf.resps = <<>>
      BY <1>12 DEF ReadTriple, Control
    <2>2. Head(up) \in Requests /\ Head(up) <= Len(asked)
      BY <2>1, ReadFacts, TypeFacts
    <2>3. CASE buf' = buf
      BY <1>1, <1>3, <2>1, <2>3, MatchingStep
    <2>4. CASE buf' = [buf EXCEPT !.reqs = Append(@, Head(up))]
      <3> DEFINE q == buf.reqs
                 p == buf'.reqs
      <3>1. p = Append(q, Head(up)) /\ buf'.resps = <<>> /\ q \in Seq(Requests)
        BY <1>3, <2>1, <2>2, <2>4, BlockFacts DEF Blocks
      <3>2. /\ Len(q) \in Nat /\ Len(p) = Len(q) + 1 /\ p[Len(q) + 1] = Head(up)
            /\ \A n \in 1 .. Len(q) : p[n] = q[n]
        BY <2>2, <3>1, AppendProperties, LenProperties
      <3>3. \A n \in 1 .. Len(q) : q[n] <= Len(asked)
        BY <1>3 DEF GoodBlock
      <3> HIDE DEF p, q
      <3>4. \A n \in 1 .. Len(p) : p[n] <= Len(asked)
        BY <2>2, <3>2, <3>3
      <3>5. Len(buf'.resps) = 0
        BY <3>1, EmptySeq
      <3>6. GoodBlock(buf')
        BY <3>1, <3>4, <3>5 DEF GoodBlock, p
      <3> QED
        BY <1>1, <2>1, <3>6, MatchingStep
    <2> QED
      BY <1>12, <2>3, <2>4 DEF ReadTriple
  <1>13. CASE TripleEnds \/ DiscardDown \/ DiscardUp
    BY <1>1, <1>3, <1>13, MatchingStep DEF TripleEnds, DiscardDown, DiscardUp
  <1> QED
    BY <1>4, <1>5, <1>6, <1>7, <1>8, <1>9, <1>10, <1>11, <1>12, <1>13 DEF Handle

-----------------------------------------------------------------------------
(***************************************************************************)
(* The theorems.                                                           *)
(***************************************************************************)

\* The invariant holds in every reachable state.
LEMMA ExchangeInvariant == Spec => []Inv
  <1>1. Init => Inv
    BY TypeInit, ControlInit, OrderInit, CoverageInit, PairingInit, MatchingInit
       DEF OrderInv, Inv
  <1>2. Inv /\ OrderInv' /\ [Next]_vars => Inv'
    <2> SUFFICES ASSUME Inv, OrderInv', [Next]_vars PROVE Inv'
      OBVIOUS
    <2>1. TypeOK /\ Control /\ Coverage /\ Pairing /\ Matching
      BY DEF Inv, OrderInv
    <2>2. CASE Handle
      BY <2>1, <2>2, CoverageHandle, PairingHandle, MatchingHandle DEF Inv
    <2>3. CASE TrafficStep
      BY <2>1, <2>3, CoverageTraffic, PairingTraffic, MatchingTraffic DEF Inv
    <2>4. CASE UNCHANGED vars
      <3>1. UNCHANGED traffic /\ UNCHANGED <<up, down, pc, buf, count, out>>
        BY <2>4 DEF vars, traffic
      <3>2. /\ UNCHANGED <<protocol, asked, owed, upset, closed>> /\ Visible' = Visible
            /\ Profile' = Profile /\ (Paired' <=> Paired)
            /\ (\A i : Excused(i)' <=> Excused(i)) /\ (\A i : Unskewed(i)' <=> Unskewed(i))
        BY <3>1, HandleFrame
      <3>3. ReadSoFar' = ReadSoFar /\ Printed' = Printed
        BY <2>1, <3>1, <3>2, ReadNone, PrintedNext
      <3>4. Coverage'
        BY <2>1, <3>1, <3>2, <3>3 DEF Coverage, IsPrinted, InBuf, Doubled
      <3>5. Pairing'
        <4>1. Unskewed(ReadSoFar)' => Unskewed(ReadSoFar)
          BY <3>3, HandleFrame, <3>1 DEF Unskewed
        <4>2. AnswersInOrder => AnswersInOrder'
          BY <3>1, <3>2 DEF AnswersInOrder, Increasing
        <4>3. StreamsInStep => StreamsInStep'
          BY <3>1, <3>2, <3>3 DEF StreamsInStep, Awaited, IsOwed
        <4> QED
          BY <2>1, <3>1, <3>2, <4>1, <4>2, <4>3 DEF Pairing
      <3>6. Matching'
        BY <2>1, <3>1, MatchingStep DEF Matching
      <3> QED
        BY <3>4, <3>5, <3>6 DEF Inv
    <2> QED
      BY <2>2, <2>3, <2>4 DEF Next, TrafficStep
  <1> QED
    BY <1>1, <1>2, OrderInvariant, PTL DEF Spec

\* What the handler reached it has covered, once it has ended.
LEMMA ReachedCovered ==
    ASSUME Inv, pc = "done", NEW i \in Visible \cap Reached
    PROVE  IsPrinted(i) \/ Excused(i)
  <1>1. pc \in Leaving /\ i \in Visible /\ i \in 1 .. Len(asked) /\ Coverage /\ TypeOK
    BY DEF Leaving, Visible, Inv, OrderInv
  <1>2. CASE closed /\ \A j \in Visible : IsPrinted(j) \/ Excused(j) \/ (pc = "tail" /\ InBuf(j))
    BY <1>1, <1>2
  <1>3. CASE /\ protocol # "triple"
             /\ \E r \in 1 .. Len(asked) :
                   /\ "bad" \in asked[r]
                   /\ \A j \in Visible : j < r => IsPrinted(j) \/ Excused(j)
    <2>1. PICK r \in 1 .. Len(asked) :
                   /\ "bad" \in asked[r]
                   /\ \A j \in Visible : j < r => IsPrinted(j) \/ Excused(j)
      BY <1>3
    <2>2. r \notin 1 .. i
      BY <1>3, <2>1 DEF Reached
    <2>3. i < r
      BY <1>1, <2>2
    <2> QED
      BY <1>1, <2>1, <2>3
  <1>4. CASE /\ protocol # "triple" /\ Doubled
             /\ \A j \in Visible : j <= Printed[Len(Printed)] => IsPrinted(j) \/ Excused(j)
    BY <1>1, <1>4 DEF Reached
  <1> QED
    BY <1>1, <1>2, <1>3, <1>4 DEF Coverage

\* With no cost filter, a handler that has ended has printed every request it
\* should show up to where it left its loop.
THEOREM HandlersSkipNothing == Spec => []NothingSkipped
  <1>1. Inv => NothingSkipped
    <2> SUFFICES ASSUME Inv, pc = "done", costShown = 0 .. MaxTime,
                        NEW i \in Visible \cap Reached
                 PROVE  IsPrinted(i)
      BY DEF NothingSkipped
    <2>1. IsPrinted(i) \/ Excused(i)
      BY ReachedCovered
    <2> QED
      BY <2>1 DEF Excused
  <1> QED
    BY <1>1, ExchangeInvariant, PTL

\* A cost filter hides no request that got no answer: only a response that
\* was read can be too fast or too slow.
THEOREM HandlersUnansweredPrinted == Spec => []UnansweredPrinted
  <1>1. Inv => UnansweredPrinted
    <2> SUFFICES ASSUME Inv, pc = "done", NEW i \in Visible \cap Reached,
                        IsOwed(i), Unskewed(i)
                 PROVE  IsPrinted(i)
      BY DEF UnansweredPrinted, IsOwed, Unskewed
    <2>1. IsPrinted(i) \/ Excused(i)
      BY ReachedCovered
    <2> QED
      BY <2>1 DEF Excused
  <1> QED
    BY <1>1, ExchangeInvariant, PTL

\* A handler that reads one response per request, or stops at the final one,
\* prints with each request its own responses until a request puts the two
\* streams out of step (rejected, repeated or taken for a heartbeat and yet
\* answered, or awaited and not answered), or the server sends something else
\* than the answer that is due; for MySQL, when the answers to a command end
\* where the handler expects them to.
THEOREM HandlersMatch ==
    ASSUME "mysql" \in Protocols => CompleteAnswers
    PROVE  Spec => []MatchUntilSkewed
  <1>1. Inv => MatchUntilSkewed
    <2> SUFFICES ASSUME Inv, Profile.reads = 1 \/ Profile.stops, ~midstream,
                        NEW n \in 1 .. Len(out), NEW m \in 1 .. Len(out[n].resps),
                        out[n].reqs[1] < upset, \A i \in 1 .. out[n].reqs[1] : ~Skews(i)
                 PROVE  out[n].resps[m].of = out[n].reqs[1]
      BY DEF MatchUntilSkewed
    <2>1. Paired
      <3>1. protocol \in Protocols
        BY DEF Inv, OrderInv, TypeOK
      <3> QED
        BY <3>1 DEF Paired
    <2>2. GoodBlock(out[n])
      BY DEF Inv, Matching
    <2> QED
      BY <2>1, <2>2 DEF GoodBlock, Unskewed
  <1> QED
    BY <1>1, ExchangeInvariant, PTL

=============================================================================
