------------------------- MODULE MultiPrinterProofs -------------------------
(***************************************************************************)
(* MultiPrinter, for any number of handlers, messages and protocols and    *)
(* any length of the queue: no block is lost, doubled or reordered on its  *)
(* way to the standard output, the files repeat what it shows, and every   *)
(* step is a step of Printer.                                              *)
(***************************************************************************)
EXTENDS MultiPrinter, RecursionFacts, SequenceTheorems

-----------------------------------------------------------------------------
(***************************************************************************)
(* The inductive invariant of the queue.                                   *)
(***************************************************************************)

\* A block between the length test of Send and the queue has been counted,
\* and the blocks its handler has had accepted are older.
Numbered ==
    /\ \A s \in sending : sent[s] \in 1 .. MaxMessages
    /\ \A i \in 1 .. Len(P!Accepted) :
          LET m == P!Accepted[i] IN
          /\ m[2] <= sent[m[1]]
          /\ m[1] \in sending => m[2] < sent[m[1]]

\* A block is received when the one before it has been filed; it waits to be
\* filed only if there is a file to put it in; a file that was not opened is
\* empty.
Filing ==
    /\ taken # <<>> => item = <<>>
    /\ item # <<>> => HasOutputDir /\ ProtocolOf[item[1]] \in Protocols
    /\ \A p \in Protocols : p \notin opened => files[p] = <<>>

Inv ==
    /\ TypeOK
    /\ Numbered
    /\ P!SenderOrder
    /\ P!Accounted
    /\ Filing
    /\ FilesMirrorStdout

-----------------------------------------------------------------------------
(***************************************************************************)
(* The standard output and the queue.                                      *)
(***************************************************************************)

\* What run has received is a sequence, of one message or none.
LEMMA TakenType ==
    ASSUME TypeOK
    PROVE  /\ taken \in Seq(Messages)
           /\ taken # <<>> => Head(taken) \in Messages /\ taken = <<Head(taken)>>
  <1>1. CASE taken = <<>>
    BY <1>1, EmptySeq
  <1>2. CASE taken # <<>>
    <2>1. PICK m \in Messages : taken = <<m>>
      BY <1>2 DEF TypeOK
    <2>2. <<m>> \in Seq(Messages) /\ Head(<<m>>) = m
      OBVIOUS
    <2> QED
      BY <2>1, <2>2
  <1> QED
    BY <1>1, <1>2

\* The accepted blocks are a sequence of messages.
LEMMA AcceptedType ==
    ASSUME TypeOK
    PROVE  /\ P!Accepted \in Seq(Messages)
           /\ Len(P!Accepted) \in Nat
           /\ \A i \in 1 .. Len(P!Accepted) :
                 /\ P!Accepted[i] \in Messages
                 /\ P!Accepted[i][1] \in Senders
                 /\ P!Accepted[i][2] \in 1 .. MaxMessages
                 /\ P!Accepted[i] = <<P!Accepted[i][1], P!Accepted[i][2]>>
  <1>1. P!Accepted \in Seq(Messages)
    BY TakenType, ConcatProperties DEF TypeOK, P!Accepted
  <1>2. \A i \in 1 .. Len(P!Accepted) : P!Accepted[i] \in Messages
    BY <1>1, ElementOfSeq
  <1>3. Len(P!Accepted) \in Nat
    BY <1>1, LenProperties
  <1> QED
    BY <1>1, <1>2, <1>3 DEF Messages

\* A sequence is its first element in front of the others.
LEMMA HeadThenTail ==
    ASSUME NEW q \in Seq(Messages), q # <<>>
    PROVE  <<Head(q)>> \o Tail(q) = q
  <1> DEFINE a == <<Head(q)>> \o Tail(q)
  <1>1. /\ Head(q) \in Messages /\ Tail(q) \in Seq(Messages)
        /\ Len(Tail(q)) = Len(q) - 1 /\ Len(q) \in Nat \ {0}
        /\ Head(q) = q[1]
        /\ \A i \in 1 .. Len(Tail(q)) : Tail(q)[i] = q[i + 1]
    BY HeadTailProperties, EmptySeq, LenProperties
  <1>2. <<Head(q)>> \in Seq(Messages) /\ Len(<<Head(q)>>) = 1 /\ <<Head(q)>>[1] = q[1]
    BY <1>1
  <1>3. /\ a \in Seq(Messages) /\ Len(a) = Len(q)
        /\ \A i \in 1 .. Len(q) :
              a[i] = IF i <= 1 THEN <<Head(q)>>[i] ELSE Tail(q)[i - 1]
    BY <1>1, <1>2, ConcatProperties
  <1>4. ASSUME NEW i \in 1 .. Len(q) PROVE a[i] = q[i]
    <2>1. CASE i = 1
      BY <2>1, <1>1, <1>2, <1>3
    <2>2. CASE i # 1
      <3>1. i - 1 \in 1 .. Len(Tail(q)) /\ (i - 1) + 1 = i /\ ~(i <= 1)
        BY <2>2, <1>1
      <3> QED
        BY <3>1, <1>1, <1>3
    <2> QED
      BY <2>1, <2>2
  <1> HIDE DEF a
  <1>5. a = q
    BY <1>3, <1>4, SeqEqual
  <1> QED
    BY <1>5 DEF a

\* Taking a block from the queue does not change what has been accepted.
LEMMA AcceptedReceiving ==
    ASSUME TypeOK, Receive
    PROVE  P!Accepted' = P!Accepted
  <1>1. /\ queue \in Seq(Messages) /\ queue # <<>> /\ taken = <<>>
        /\ taken' = <<Head(queue)>> /\ queue' = Tail(queue) /\ stdout' = stdout
    BY DEF TypeOK, Receive
  <1>2. taken' \o queue' = queue
    BY <1>1, HeadThenTail
  <1>3. taken \o queue = queue
    BY <1>1, ConcatEmptySeq
  <1> QED
    BY <1>1, <1>2, <1>3 DEF P!Accepted

\* Neither does printing it.
LEMMA AcceptedPrinting ==
    ASSUME TypeOK, WriteStdout
    PROVE  P!Accepted' = P!Accepted
  <1> DEFINE m == Head(taken)
  <1>1. /\ stdout \in Seq(Messages) /\ queue \in Seq(Messages)
        /\ m \in Messages /\ taken = <<m>> /\ taken \in Seq(Messages)
        /\ stdout' = Append(stdout, m) /\ taken' = <<>> /\ queue' = queue
    BY TakenType DEF TypeOK, WriteStdout
  <1> HIDE DEF m
  <1>2. stdout' = stdout \o taken
    BY <1>1, AppendIsConcat
  <1>3. taken' \o queue' = queue
    BY <1>1, ConcatEmptySeq
  <1>4. (stdout \o taken) \o queue = stdout \o (taken \o queue)
    BY <1>1, ConcatAssociative
  <1> QED
    BY <1>2, <1>3, <1>4 DEF P!Accepted

\* A block that gets into the queue is the last of the accepted ones.
LEMMA AcceptedQueued ==
    ASSUME TypeOK, NEW m \in Messages, queue' = Append(queue, m),
           stdout' = stdout, taken' = taken
    PROVE  /\ Len(P!Accepted') = Len(P!Accepted) + 1
           /\ \A i \in 1 .. Len(P!Accepted) : P!Accepted'[i] = P!Accepted[i]
           /\ P!Accepted'[Len(P!Accepted) + 1] = m
  <1>1. /\ stdout \in Seq(Messages) /\ queue \in Seq(Messages)
        /\ taken \in Seq(Messages) /\ <<m>> \in Seq(Messages)
    BY TakenType DEF TypeOK
  <1>2. taken \o queue \in Seq(Messages) /\ P!Accepted \in Seq(Messages)
    BY <1>1, ConcatProperties, AcceptedType
  <1>3. taken \o (queue \o <<m>>) = (taken \o queue) \o <<m>>
    BY <1>1, ConcatAssociative
  <1>4. stdout \o ((taken \o queue) \o <<m>>) = (stdout \o (taken \o queue)) \o <<m>>
    BY <1>1, <1>2, ConcatAssociative
  <1>5. P!Accepted' = stdout \o (taken \o (queue \o <<m>>))
    BY <1>1, AppendIsConcat DEF P!Accepted
  <1>6. P!Accepted' = Append(P!Accepted, m)
    BY <1>2, <1>3, <1>4, <1>5, AppendIsConcat DEF P!Accepted
  <1> QED
    BY <1>2, <1>6, AppendProperties

-----------------------------------------------------------------------------
(***************************************************************************)
(* The type invariant.                                                     *)
(***************************************************************************)

\* The initial state has its type.
LEMMA TypeInit == Init => TypeOK
  <1> SUFFICES ASSUME Init PROVE TypeOK
    OBVIOUS
  <1>1. <<>> \in Seq(Messages) /\ Len(<<>>) = 0
    BY EmptySeq
  <1>2. /\ queue \in Seq(Messages) /\ Len(queue) <= QueueLen
        /\ stdout \in Seq(Messages) /\ files \in [Protocols -> Seq(Messages)]
    BY <1>1, MultiPrinterAssumption DEF Init
  <1>3. sent \in [Senders -> 0 .. MaxMessages]
    BY MultiPrinterAssumption DEF Init
  <1> QED
    BY <1>2, <1>3 DEF Init, TypeOK

\* Every step keeps the types, and the queue within its capacity.
LEMMA TypeNext == TypeOK /\ Numbered /\ Filing /\ [Next]_vars => TypeOK'
  <1> SUFFICES ASSUME TypeOK, Numbered, Filing, [Next]_vars PROVE TypeOK'
    OBVIOUS
  <1>1. ASSUME NEW s \in Senders, Send(s) PROVE TypeOK'
    <2>1. sent[s] \in 0 .. MaxMessages /\ sent[s] < MaxMessages
      BY <1>1 DEF Send, TypeOK
    <2>2. sent' \in [Senders -> 0 .. MaxMessages] /\ sent'[s] \in 1 .. MaxMessages
      BY <1>1, <2>1, MultiPrinterAssumption DEF Send, TypeOK
    <2>3. <<s, sent'[s]>> \in Messages
      BY <2>2 DEF Messages
    <2> QED
      BY <1>1, <2>2, <2>3 DEF Send, TypeOK
  <1>2. ASSUME NEW s \in Senders, Enqueue(s) PROVE TypeOK'
    <2>1. <<s, sent[s]>> \in Messages
      BY <1>2 DEF Enqueue, Numbered, Messages
    <2>2. queue' \in Seq(Messages) /\ Len(queue') <= QueueLen
      <3>1. CASE closed
        BY <1>2, <3>1 DEF Enqueue, TypeOK
      <3>2. CASE ~closed
        <4>1. Len(queue) < QueueLen /\ queue' = Append(queue, <<s, sent[s]>>)
          BY <1>2, <3>2 DEF Enqueue
        <4>2. queue' \in Seq(Messages) /\ Len(queue') = Len(queue) + 1 /\ Len(queue) \in Nat
          BY <2>1, <4>1, AppendProperties, LenProperties DEF TypeOK
        <4> QED
          BY <4>1, <4>2, MultiPrinterAssumption
      <3> QED
        BY <3>1, <3>2
    <2> QED
      BY <1>2, <2>2 DEF Enqueue, TypeOK
  <1>3. CASE WriteStdout
    <2>1. Head(taken) \in Messages
      BY <1>3, TakenType DEF WriteStdout
    <2>2. stdout' \in Seq(Messages)
      BY <1>3, <2>1, AppendProperties DEF WriteStdout, TypeOK
    <2>3. item' \in Messages \cup {<<>>} /\ taken' = <<>>
      BY <1>3, <2>1 DEF WriteStdout
    <2> QED
      BY <1>3, <2>2, <2>3 DEF WriteStdout, TypeOK
  <1>4. CASE WriteFile
    <2> DEFINE p == ProtocolOf[item[1]]
    <2>1. p \in Protocols /\ item \in Messages
      BY <1>4 DEF WriteFile, Filing, TypeOK
    <2>2. files' = [files EXCEPT ![p] = Append(@, item)] /\ opened' = opened \cup {p}
      BY <1>4 DEF WriteFile
    <2> HIDE DEF p
    <2>3. Append(files[p], item) \in Seq(Messages)
      BY <2>1, AppendProperties DEF TypeOK
    <2>4. files' \in [Protocols -> Seq(Messages)] /\ opened' \subseteq Protocols
      BY <2>1, <2>2, <2>3 DEF TypeOK
    <2> QED
      BY <1>4, <2>4 DEF WriteFile, TypeOK
  <1>5. CASE OpenFails
    BY <1>5 DEF OpenFails, TypeOK
  <1>6. CASE EndRun
    BY <1>6 DEF EndRun, TypeOK
  <1>7. CASE Finish
    BY <1>7 DEF Finish, TypeOK
  <1>8. CASE Exit
    BY <1>8 DEF Exit, TypeOK
  <1>9. CASE UNCHANGED vars
    BY <1>9 DEF vars, TypeOK
  <1>10. CASE Receive
    <2>1. /\ Head(queue) \in Messages /\ Tail(queue) \in Seq(Messages)
          /\ Len(Tail(queue)) = Len(queue) - 1 /\ Len(queue) \in Nat
      BY <1>10, HeadTailProperties, LenProperties DEF Receive, TypeOK
    <2>2. queue' \in Seq(Messages) /\ Len(queue') <= QueueLen
      BY <1>10, <2>1, MultiPrinterAssumption DEF Receive, TypeOK
    <2>3. taken' \in {<<>>} \cup {<<m>> : m \in Messages}
      BY <1>10, <2>1 DEF Receive
    <2> QED
      BY <1>10, <2>2, <2>3 DEF Receive, TypeOK
  <1> QED
    BY <1>1, <1>2, <1>3, <1>4, <1>5, <1>6, <1>7, <1>8, <1>9, <1>10 DEF Next

-----------------------------------------------------------------------------
(***************************************************************************)
(* Order and accounting.                                                   *)
(***************************************************************************)

\* A step that leaves the accepted blocks, the counters and the drops alone
\* keeps order and accounting, unless it undoes a crash.
LEMMA QueueIdle ==
    ASSUME Numbered, P!SenderOrder, P!Accounted,
           P!Accepted' = P!Accepted, UNCHANGED <<sent, sending, dropped>>,
           process' # "crashed" => process # "crashed"
    PROVE  Numbered' /\ P!SenderOrder' /\ P!Accounted'
  BY DEF Numbered, P!SenderOrder, P!Accounted

\* A call of Send counts one message more, which is waiting or dropped.
LEMMA QueueSend ==
    ASSUME TypeOK, Numbered, P!SenderOrder, P!Accounted, NEW s \in Senders, Send(s)
    PROVE  Numbered' /\ P!SenderOrder' /\ P!Accounted'
  <1> DEFINE n == sent[s] + 1
  <1>1. /\ n \in 1 .. MaxMessages /\ sent[s] \in Nat
        /\ sent'[s] = n
        /\ \A t \in Senders : sent[t] \in 0 .. MaxMessages /\ sent'[t] \in Nat
        /\ \A t \in Senders \ {s} : sent'[t] = sent[t]
    BY MultiPrinterAssumption DEF Send, TypeOK
  <1>2. s \notin sending /\ process = "up" /\ process' = process
    BY DEF Send
  <1>3. P!Accepted' = P!Accepted
    BY DEF Send, P!Accepted
  <1>4. \/ /\ dropped' = dropped \cup {<<s, n>>} /\ sending' = sending
        \/ /\ dropped' = dropped /\ sending' = sending \cup {s}
    BY <1>1 DEF Send
  <1> DEFINE acc == P!Accepted
  <1>5. \A i \in 1 .. Len(acc) :
           acc[i][1] \in Senders /\ acc[i][2] \in 1 .. MaxMessages
    BY AcceptedType
  <1> HIDE DEF n, acc
  <1>6. Numbered'
    <2>1. ASSUME NEW t \in sending' PROVE sent'[t] \in 1 .. MaxMessages
      BY <1>1, <1>4 DEF Numbered, TypeOK
    <2>2. ASSUME NEW i \in 1 .. Len(acc)
          PROVE  /\ acc[i][2] <= sent'[acc[i][1]]
                 /\ acc[i][1] \in sending' => acc[i][2] < sent'[acc[i][1]]
      <3>1. /\ acc[i][2] <= sent[acc[i][1]]
            /\ acc[i][1] \in sending => acc[i][2] < sent[acc[i][1]]
        BY DEF Numbered, acc
      <3>2. CASE acc[i][1] = s
        BY <1>1, <1>5, <3>1, <3>2 DEF n
      <3>3. CASE acc[i][1] # s
        BY <1>1, <1>4, <1>5, <3>1, <3>3
      <3> QED
        BY <3>2, <3>3
    <2> QED
      BY <1>3, <2>1, <2>2 DEF Numbered, acc
  <1>7. P!SenderOrder'
    BY <1>3 DEF P!SenderOrder
  <1>8. P!Accounted'
    <2> SUFFICES ASSUME NEW t \in Senders, NEW k \in 1 .. MaxMessages
                 PROVE  LET accepted == \E i \in 1 .. Len(acc) : acc[i] = <<t, k>>
                            waiting == t \in sending' /\ k = sent'[t] IN
                        /\ k <= sent'[t] <=> accepted \/ waiting \/ <<t, k>> \in dropped'
                        /\ ~(accepted /\ waiting)
                        /\ ~(<<t, k>> \in dropped' /\ (accepted \/ waiting))
      BY <1>3 DEF P!Accounted, acc
    <2> DEFINE accepted == \E i \in 1 .. Len(acc) : acc[i] = <<t, k>>
    <2>1. /\ k <= sent[t] <=> accepted \/ (t \in sending /\ k = sent[t]) \/ <<t, k>> \in dropped
          /\ ~(accepted /\ t \in sending /\ k = sent[t])
          /\ ~(<<t, k>> \in dropped /\ (accepted \/ (t \in sending /\ k = sent[t])))
      BY <1>2 DEF P!Accounted, acc
    <2> HIDE DEF accepted
    <2>2. CASE t # s
      <3>1. /\ t \in sending' <=> t \in sending
            /\ <<t, k>> \in dropped' <=> <<t, k>> \in dropped
            /\ sent'[t] = sent[t]
        BY <1>1, <1>4, <2>2
      <3> QED
        BY <2>1, <3>1 DEF accepted
    <2>3. CASE t = s /\ k = n
      <3>1. ~(k <= sent[t]) /\ k <= sent'[t] /\ k = sent'[t]
        BY <1>1, <2>3 DEF n
      <3>2. ~accepted /\ <<t, k>> \notin dropped
        BY <2>1, <3>1
      <3> QED
        BY <1>2, <1>4, <2>3, <3>1, <3>2 DEF accepted
    <2>4. CASE t = s /\ k # n
      <3>1. /\ k <= sent'[t] <=> k <= sent[t]
            /\ k # sent'[t]
            /\ <<t, k>> \in dropped' <=> <<t, k>> \in dropped
        BY <1>1, <1>4, <2>4 DEF n
      <3> QED
        BY <1>2, <2>1, <2>4, <3>1 DEF accepted
    <2> QED
      BY <2>2, <2>3, <2>4
  <1> QED
    BY <1>6, <1>7, <1>8

\* The block of a waiting handler is the newest of its blocks, so it may be
\* queued behind all of them.
LEMMA QueueEnqueue ==
    ASSUME TypeOK, Numbered, P!SenderOrder, P!Accounted, NEW s \in Senders, Enqueue(s)
    PROVE  Numbered' /\ P!SenderOrder' /\ P!Accounted'
  <1>1. /\ s \in sending /\ sending' = sending \ {s} /\ process = "up"
        /\ sent' = sent /\ dropped' = dropped /\ stdout' = stdout /\ taken' = taken
    BY DEF Enqueue
  <1>2. /\ \A t \in Senders : sent[t] \in Nat
        /\ sent[s] \in 1 .. MaxMessages
    BY <1>1, MultiPrinterAssumption DEF TypeOK, Numbered
  <1>3. CASE closed
    <2>1. P!Accepted' = P!Accepted /\ process' = "crashed"
      BY <1>3, <1>1 DEF Enqueue, P!Accepted
    <2> QED
      BY <1>1, <2>1 DEF Numbered, P!SenderOrder, P!Accounted
  <1>4. CASE ~closed
    <2> DEFINE m == <<s, sent[s]>>
               acc == P!Accepted
               new == P!Accepted'
               len == Len(P!Accepted)
    <2>1. m \in Messages /\ queue' = Append(queue, m) /\ process' = process
      BY <1>2, <1>4 DEF Enqueue, Messages
    <2>2. /\ Len(new) = len + 1 /\ len = Len(acc) /\ len \in Nat
          /\ \A i \in 1 .. len : new[i] = acc[i]
          /\ new[len + 1] = m
      BY <1>1, <2>1, AcceptedQueued, AcceptedType
    <2>3. \A i \in 1 .. len : acc[i][1] \in Senders /\ acc[i][2] \in 1 .. MaxMessages
      BY AcceptedType
    <2>4. \A i \in 1 .. len : /\ acc[i][2] <= sent[acc[i][1]]
                              /\ acc[i][1] \in sending => acc[i][2] < sent[acc[i][1]]
      BY DEF Numbered
    <2>5. \A i, j \in 1 .. len : i < j /\ acc[i][1] = acc[j][1] => acc[i][2] < acc[j][2]
      BY DEF P!SenderOrder
    <2>6. m[1] = s /\ m[2] = sent[s]
      OBVIOUS
    <2> HIDE DEF len, acc, new, m
    <2>7. \A i \in 1 .. len + 1 : i \in 1 .. len \/ i = len + 1
      BY <2>2
    <2>8. Numbered'
      <3>1. ASSUME NEW i \in 1 .. len + 1
            PROVE  /\ new[i][2] <= sent[new[i][1]]
                   /\ new[i][1] \in sending' => new[i][2] < sent[new[i][1]]
        <4>1. CASE i \in 1 .. len
          BY <1>1, <2>2, <2>4, <4>1
        <4>2. CASE i = len + 1
          BY <1>1, <1>2, <2>2, <2>6, <4>2
        <4> QED
          BY <2>7, <4>1, <4>2
      <3> QED
        BY <1>1, <2>2, <3>1 DEF Numbered, new
    <2>9. P!SenderOrder'
      <3>1. ASSUME NEW i \in 1 .. len + 1, NEW j \in 1 .. len + 1,
                   i < j, new[i][1] = new[j][1]
            PROVE  new[i][2] < new[j][2]
        <4>1. i \in 1 .. len
          BY <2>2, <3>1
        <4>2. CASE j \in 1 .. len
          BY <2>2, <2>5, <3>1, <4>1, <4>2
        <4>3. CASE j = len + 1
          <5>1. acc[i][1] = s
            BY <2>2, <2>6, <3>1, <4>1, <4>3
          <5> QED
            BY <1>1, <2>2, <2>4, <2>6, <4>1, <4>3, <5>1
        <4> QED
          BY <2>7, <4>2, <4>3
      <3> QED
        BY <2>2, <3>1 DEF P!SenderOrder, new
    <2>10. P!Accounted'
      <3> SUFFICES ASSUME NEW t \in Senders, NEW k \in 1 .. MaxMessages
                   PROVE  LET accepted == \E i \in 1 .. Len(new) : new[i] = <<t, k>>
                              waiting == t \in sending' /\ k = sent[t] IN
                          /\ k <= sent[t] <=> accepted \/ waiting \/ <<t, k>> \in dropped
                          /\ ~(accepted /\ waiting)
                          /\ ~(<<t, k>> \in dropped /\ (accepted \/ waiting))
        BY <1>1 DEF P!Accounted, new
      <3> DEFINE before == \E i \in 1 .. len : acc[i] = <<t, k>>
                 after == \E i \in 1 .. Len(new) : new[i] = <<t, k>>
                 waiting == t \in sending /\ k = sent[t]
      <3>1. /\ k <= sent[t] <=> before \/ waiting \/ <<t, k>> \in dropped
            /\ ~(before /\ waiting)
            /\ ~(<<t, k>> \in dropped /\ (before \/ waiting))
        BY <1>1 DEF P!Accounted, acc, len
      <3>2. after <=> before \/ m = <<t, k>>
        <4>1. ASSUME NEW i \in 1 .. Len(new), new[i] = <<t, k>> PROVE before \/ m = <<t, k>>
          BY <2>2, <2>7, <4>1
        <4>2. ASSUME NEW i \in 1 .. len, acc[i] = <<t, k>> PROVE after
          <5>1. i \in 1 .. Len(new) /\ new[i] = acc[i]
            BY <2>2
          <5> QED
            BY <4>2, <5>1
        <4>3. ASSUME m = <<t, k>> PROVE after
          <5>1. len + 1 \in 1 .. Len(new)
            BY <2>2
          <5> QED
            BY <2>2, <4>3, <5>1
        <4> QED
          BY <4>1, <4>2, <4>3
      <3>3. m = <<t, k>> <=> t = s /\ k = sent[s]
        BY DEF m
      <3> HIDE DEF before, after
      <3>4. CASE t = s /\ k = sent[s]
        <4>1. waiting /\ ~(t \in sending') /\ after
          BY <1>1, <3>2, <3>3, <3>4
        <4> QED
          BY <1>2, <3>1, <4>1 DEF after
      <3>5. CASE ~(t = s /\ k = sent[s])
        <4>1. after <=> before
          BY <3>2, <3>3, <3>5
        <4>2. (t \in sending' /\ k = sent[t]) <=> waiting
          BY <1>1, <3>5
        <4> QED
          BY <3>1, <4>1, <4>2 DEF after
      <3> QED
        BY <3>4, <3>5
    <2> QED
      BY <2>8, <2>9, <2>10
  <1> QED
    BY <1>3, <1>4

\* Every step keeps order and accounting.
LEMMA QueueNext ==
    ASSUME TypeOK, Numbered, P!SenderOrder, P!Accounted, [Next]_vars
    PROVE  Numbered' /\ P!SenderOrder' /\ P!Accounted'
  <1>1. CASE \E s \in Senders : Send(s) \/ Enqueue(s)
    BY <1>1, QueueSend, QueueEnqueue
  <1>2. CASE WriteStdout
    BY <1>2, AcceptedPrinting, QueueIdle DEF WriteStdout
  <1>3. CASE WriteFile
    BY <1>3, QueueIdle DEF WriteFile, P!Accepted
  <1>4. CASE OpenFails
    BY <1>4, QueueIdle DEF OpenFails, P!Accepted
  <1>5. CASE EndRun
    BY <1>5, QueueIdle DEF EndRun, P!Accepted
  <1>6. CASE Finish
    BY <1>6, QueueIdle DEF Finish, P!Accepted
  <1>7. CASE Exit
    BY <1>7, QueueIdle DEF Exit, P!Accepted
  <1>8. CASE UNCHANGED vars
    BY <1>8, QueueIdle DEF vars, P!Accepted
  <1>9. CASE Receive
    BY <1>9, AcceptedReceiving, QueueIdle DEF Receive
  <1> QED
    BY <1>1, <1>2, <1>3, <1>4, <1>5, <1>6, <1>7, <1>8, <1>9 DEF Next

-----------------------------------------------------------------------------
(***************************************************************************)
(* What the standard output shows of a protocol.                           *)
(***************************************************************************)

\* One step of Shown, from what is shown of the messages before m.
Show(shown, m, p) == IF ProtocolOf[m[1]] = p THEN Append(shown, m) ELSE shown

\* The recursive function of Shown(p), over any output.
ShownOf(q, p) ==
    CHOOSE shown : shown = [i \in 0 .. Len(q) |->
            IF i = 0 THEN <<>>
            ELSE IF ProtocolOf[q[i][1]] = p THEN Append(shown[i - 1], q[i])
            ELSE shown[i - 1]]

\* Shown is that function at the end of the output.
LEMMA ShownIs == \A p : Shown(p) = ShownOf(stdout, p)[Len(stdout)]
  BY DEF Shown, ShownOf

\* The recursion of ShownOf is well founded.
LEMMA ShownOfFacts ==
    ASSUME NEW q \in Seq(Messages), NEW p
    PROVE  /\ ShownOf(q, p)[0] = <<>>
           /\ \A i \in 1 .. Len(q) : ShownOf(q, p)[i] = Show(ShownOf(q, p)[i - 1], q[i], p)
           /\ \A i \in 0 .. Len(q) : ShownOf(q, p)[i] \in Seq(Messages)
  <1> DEFINE n == Len(q)
             S == Seq(Messages)
             step == [i \in 1 .. n |-> [v \in S |-> Show(v, q[i], p)]]
             g == ShownOf(q, p)
  <1>1. n \in Nat /\ n = Len(q) /\ \A i \in 1 .. n : q[i] \in Messages
    BY LenProperties, ElementOfSeq
  <1>2. <<>> \in S
    BY EmptySeq
  <1>3. \A i \in 1 .. n, v \in S : Show(v, q[i], p) \in S
    BY <1>1, AppendProperties DEF Show
  <1> HIDE DEF n, S
  <1>4. /\ step \in [1 .. n -> [S -> S]]
        /\ \A i \in 1 .. n, v \in S : step[i][v] = Show(v, q[i], p)
    BY <1>3
  <1> HIDE DEF step
  <1>5. PICK f \in [0 .. n -> S] : Follows(f, n, <<>>, step)
    BY <1>1, <1>2, <1>4, RecursiveFunction, Zenon
  <1>6. ASSUME NEW i \in 0 .. n PROVE f[i] = IF i = 0 THEN <<>> ELSE Show(f[i - 1], q[i], p)
    <2>1. CASE i = 0
      BY <1>5, <2>1 DEF Follows
    <2>2. CASE i # 0
      <3>1. i \in 1 .. n /\ i - 1 \in 0 .. n
        BY <1>1, <2>2
      <3> QED
        BY <1>4, <1>5, <2>2, <3>1 DEF Follows
    <2> QED
      BY <2>1, <2>2
  <1>7. f = [i \in 0 .. n |-> IF i = 0 THEN <<>> ELSE Show(f[i - 1], q[i], p)]
    BY <1>6
  <1>8. g = [i \in 0 .. n |-> IF i = 0 THEN <<>> ELSE Show(g[i - 1], q[i], p)]
    BY <1>1, <1>7 DEF ShownOf, Show
  <1> HIDE DEF g
  <1>9. /\ g[0] = <<>>
        /\ \A i \in 1 .. n : g[i] = Show(g[i - 1], q[i], p)
    BY <1>1, <1>8
  <1>10. FollowsIn(S, g, n, <<>>, step)
    BY <1>4, <1>9 DEF FollowsIn
  <1>11. \A i \in 0 .. n : g[i] \in S
    BY <1>1, <1>2, <1>4, <1>10, RecursionType, Zenon
  <1> QED
    BY <1>1, <1>9, <1>11 DEF g, S

\* One message more on the standard output.
LEMMA ShownOfAppend ==
    ASSUME NEW q \in Seq(Messages), NEW m \in Messages, NEW p
    PROVE  LET r == Append(q, m) IN
           ShownOf(r, p)[Len(r)] = Show(ShownOf(q, p)[Len(q)], m, p)
  <1> DEFINE r == Append(q, m)
             n == Len(q)
             f == ShownOf(q, p)
             g == ShownOf(r, p)
  <1>1. /\ n \in Nat /\ r \in Seq(Messages) /\ Len(r) = n + 1
        /\ r[n + 1] = m /\ \A i \in 1 .. n : r[i] = q[i]
    BY LenProperties, AppendProperties
  <1>2. f[0] = <<>> /\ \A i \in 1 .. n : f[i] = Show(f[i - 1], q[i], p)
    BY ShownOfFacts
  <1>3. g[0] = <<>> /\ \A i \in 1 .. n + 1 : g[i] = Show(g[i - 1], r[i], p)
    BY <1>1, ShownOfFacts
  <1> HIDE DEF f, g, r, n
  <1>4. ASSUME NEW i \in 1 .. n, f[i - 1] = g[i - 1] PROVE f[i] = g[i]
    <2>1. i \in 1 .. n + 1
      BY <1>1
    <2> QED
      BY <1>1, <1>2, <1>3, <1>4, <2>1
  <1>5. SameSteps(f, g, n)
    BY <1>2, <1>3, <1>4 DEF SameSteps
  <1>6. f[n] = g[n]
    <2>1. n \in 0 .. n
      BY <1>1
    <2> QED
      BY <1>1, <1>5, <2>1, RecursionUnique, ZenonT(60)
  <1>7. n + 1 \in 1 .. n + 1 /\ (n + 1) - 1 = n
    BY <1>1
  <1>8. g[n + 1] = Show(f[n], m, p)
    BY <1>1, <1>3, <1>6, <1>7
  <1> QED
    BY <1>1, <1>8 DEF f, g, r, n

-----------------------------------------------------------------------------
(***************************************************************************)
(* The files.                                                              *)
(***************************************************************************)

\* k is the end of s, as FilesMirrorStdout says it.
EndOf(k, s) == Len(k) <= Len(s) /\ k = SubSeq(s, Len(s) - Len(k) + 1, Len(s))

\* The same, element by element.
LEMMA EndOfElements ==
    ASSUME NEW k \in Seq(Messages), NEW s \in Seq(Messages)
    PROVE  EndOf(k, s) <=> /\ Len(k) <= Len(s)
                           /\ \A i \in 1 .. Len(k) : k[i] = s[Len(s) - Len(k) + i]
  <1> SUFFICES ASSUME Len(k) <= Len(s)
               PROVE  k = SubSeq(s, Len(s) - Len(k) + 1, Len(s))
                        <=> \A i \in 1 .. Len(k) : k[i] = s[Len(s) - Len(k) + i]
    BY DEF EndOf
  <1> DEFINE m == Len(s) - Len(k) + 1
             n == Len(s)
             t == SubSeq(s, m, n)
  <1>1. Len(k) \in Nat /\ Len(s) \in Nat /\ m \in Int /\ n \in Int
    BY LenProperties
  <1>2. \A i \in m .. n : s[i] \in Messages
    <2>1. \A i \in m .. n : i \in 1 .. Len(s)
      BY <1>1
    <2> QED
      BY <2>1, ElementOfSeq
  <1>3. /\ t \in Seq(Messages)
        /\ Len(t) = IF m <= n THEN n - m + 1 ELSE 0
        /\ \A i \in 1 .. n - m + 1 : t[i] = s[m + i - 1]
    BY <1>1, <1>2, SubSeqProperties
  <1>4. n - m + 1 = Len(k) /\ Len(t) = Len(k)
    BY <1>1, <1>3
  <1>5. \A i \in 1 .. Len(k) : m + i - 1 = Len(s) - Len(k) + i
    BY <1>1
  <1>6. \A i \in 1 .. Len(k) : t[i] = s[Len(s) - Len(k) + i]
    BY <1>3, <1>4, <1>5
  <1> HIDE DEF t
  <1>7. (\A i \in 1 .. Len(k) : k[i] = t[i]) => k = t
    BY <1>3, <1>4, SeqEqual
  <1> QED
    BY <1>6, <1>7 DEF t

\* Nothing is the end of anything.
LEMMA EndOfEmpty == ASSUME NEW s \in Seq(Messages) PROVE EndOf(<<>>, s)
  <1>1. <<>> \in Seq(Messages) /\ Len(<<>>) = 0 /\ Len(s) \in Nat
    BY EmptySeq, LenProperties
  <1>2. \A i \in 1 .. Len(<<>>) : <<>>[i] = s[Len(s) - Len(<<>>) + i]
    BY <1>1
  <1>3. Len(<<>>) <= Len(s)
    BY <1>1
  <1> QED
    BY <1>1, <1>2, <1>3, EndOfElements

\* The same message added to both keeps one the end of the other.
LEMMA EndOfAppend ==
    ASSUME NEW k \in Seq(Messages), NEW s \in Seq(Messages), NEW m \in Messages, EndOf(k, s)
    PROVE  EndOf(Append(k, m), Append(s, m))
  <1> DEFINE a == Append(k, m)
             b == Append(s, m)
  <1>1. /\ Len(k) \in Nat /\ Len(s) \in Nat /\ Len(k) <= Len(s)
        /\ \A i \in 1 .. Len(k) : k[i] = s[Len(s) - Len(k) + i]
    BY LenProperties, EndOfElements
  <1>2. /\ a \in Seq(Messages) /\ Len(a) = Len(k) + 1 /\ a[Len(k) + 1] = m
        /\ \A i \in 1 .. Len(k) : a[i] = k[i]
        /\ b \in Seq(Messages) /\ Len(b) = Len(s) + 1 /\ b[Len(s) + 1] = m
        /\ \A i \in 1 .. Len(s) : b[i] = s[i]
    BY AppendProperties
  <1> HIDE DEF a, b
  <1>3. ASSUME NEW i \in 1 .. Len(a) PROVE a[i] = b[Len(b) - Len(a) + i]
    <2>1. Len(b) - Len(a) = Len(s) - Len(k)
      BY <1>1, <1>2
    <2>2. CASE i = Len(k) + 1
      <3>1. Len(b) - Len(a) + i = Len(s) + 1
        BY <1>1, <1>2, <2>2
      <3> QED
        BY <1>2, <2>2, <3>1
    <2>3. CASE i # Len(k) + 1
      <3>1. i \in 1 .. Len(k) /\ Len(s) - Len(k) + i \in 1 .. Len(s)
        BY <1>1, <1>2, <2>3
      <3> QED
        BY <1>1, <1>2, <2>1, <3>1
    <2> QED
      BY <2>2, <2>3
  <1>4. Len(a) <= Len(b)
    BY <1>1, <1>2
  <1> QED
    BY <1>2, <1>3, <1>4, EndOfElements DEF a, b

\* The property of the files, one protocol at a time.
LEMMA MirrorIs ==
    FilesMirrorStdout <=>
        \A p \in Protocols : IF HasOutputDir THEN EndOf(files[p] \o Pending(p), Shown(p))
                             ELSE files[p] = <<>>
  BY DEF FilesMirrorStdout, EndOf

\* What is shown after a step.
LEMMA ShownNext ==
    ASSUME TypeOK, NEW p
    PROVE  /\ Shown(p) \in Seq(Messages)
           /\ stdout' = stdout => Shown(p)' = Shown(p)
           /\ \A m \in Messages :
                 stdout' = Append(stdout, m) => Shown(p)' = Show(Shown(p), m, p)
  <1>1. stdout \in Seq(Messages) /\ Len(stdout) \in Nat
    BY LenProperties DEF TypeOK
  <1>2. Shown(p) = ShownOf(stdout, p)[Len(stdout)]
    BY ShownIs
  <1>3. Shown(p)' = ShownOf(stdout', p)[Len(stdout')]
    BY DEF Shown, ShownOf
  <1>4. Shown(p) \in Seq(Messages)
    <2>1. Len(stdout) \in 0 .. Len(stdout)
      BY <1>1
    <2> QED
      BY <1>1, <1>2, <2>1, ShownOfFacts
  <1> QED
    BY <1>1, <1>2, <1>3, <1>4, ShownOfAppend

\* A step that neither prints nor files leaves the files right.
LEMMA FilesIdle ==
    ASSUME TypeOK, Filing, FilesMirrorStdout, UNCHANGED <<stdout, files, opened, item>>,
           taken' = taken \/ item = <<>>
    PROVE  Filing' /\ FilesMirrorStdout'
  <1>1. \A p : Shown(p)' = Shown(p) /\ Pending(p)' = Pending(p)
    BY ShownNext DEF Pending
  <1> QED
    BY <1>1 DEF Filing, FilesMirrorStdout

\* A block is printed, and remembered for its file if it has one.
LEMMA FilesPrint ==
    ASSUME TypeOK, Filing, FilesMirrorStdout, WriteStdout
    PROVE  Filing' /\ FilesMirrorStdout'
  <1> DEFINE m == Head(taken)
  <1>1. /\ m \in Messages /\ m[1] \in Senders /\ m # <<>>
        /\ ProtocolOf[m[1]] \in Protocols \cup {NoProtocol}
    <2>1. m \in Messages
      BY TakenType DEF WriteStdout
    <2>2. m # <<>>
      <3>1. PICK s \in Senders, k \in 1 .. MaxMessages : m = <<s, k>>
        BY <2>1 DEF Messages
      <3>2. Len(<<s, k>>) = 2 /\ Len(<<>>) = 0
        OBVIOUS
      <3> QED
        BY <3>1, <3>2
    <2> QED
      BY <2>1, <2>2, MultiPrinterAssumption DEF Messages
  <1>2. /\ stdout' = Append(stdout, m) /\ item = <<>>
        /\ item' = IF HasOutputDir /\ ProtocolOf[m[1]] # NoProtocol THEN m ELSE <<>>
        /\ files' = files /\ opened' = opened /\ taken' = <<>>
    BY DEF WriteStdout, Filing
  <1> HIDE DEF m
  <1>3. Filing'
    BY <1>1, <1>2 DEF Filing
  <1>4. ASSUME NEW p \in Protocols, HasOutputDir
        PROVE  EndOf(files'[p] \o Pending(p)', Shown(p)')
    <2>1. p # NoProtocol /\ files[p] \in Seq(Messages)
      BY MultiPrinterAssumption DEF TypeOK
    <2>2. files[p] \o <<>> = files[p] /\ Pending(p) = <<>>
      BY <1>2, <2>1, ConcatEmptySeq DEF Pending
    <2>3. EndOf(files[p], Shown(p)) /\ Shown(p) \in Seq(Messages)
      BY <1>4, <2>2, MirrorIs, ShownNext
    <2>4. Shown(p)' = Show(Shown(p), m, p)
      BY <1>1, <1>2, ShownNext
    <2>5. CASE ProtocolOf[m[1]] = p
      <3>1. Pending(p)' = <<m>>
        BY <1>1, <1>2, <1>4, <2>1, <2>5 DEF Pending
      <3>2. files'[p] \o Pending(p)' = Append(files[p], m)
        BY <1>1, <1>2, <2>1, <3>1, AppendIsConcat
      <3> QED
        BY <1>1, <2>1, <2>3, <2>4, <2>5, <3>2, EndOfAppend DEF Show
    <2>6. CASE ProtocolOf[m[1]] # p
      <3>1. Pending(p)' = <<>>
        BY <1>2, <2>6 DEF Pending
      <3> QED
        BY <1>2, <2>2, <2>3, <2>4, <2>6, <3>1 DEF Show
    <2> QED
      BY <2>5, <2>6
  <1>5. ASSUME NEW p \in Protocols, ~HasOutputDir PROVE files'[p] = <<>>
    BY <1>2, <1>5 DEF FilesMirrorStdout
  <1> QED
    BY <1>3, <1>4, <1>5 DEF FilesMirrorStdout, EndOf

\* The block is filed behind the others of its protocol.
LEMMA FilesWrite ==
    ASSUME TypeOK, Filing, FilesMirrorStdout, WriteFile
    PROVE  Filing' /\ FilesMirrorStdout'
  <1> DEFINE q == ProtocolOf[item[1]]
  <1>1. /\ item \in Messages /\ item # <<>> /\ HasOutputDir /\ q \in Protocols
        /\ files' = [files EXCEPT ![q] = Append(@, item)] /\ opened' = opened \cup {q}
        /\ item' = <<>> /\ stdout' = stdout
    BY DEF WriteFile, Filing, TypeOK
  <1>2. /\ \A p \in Protocols : files[p] \in Seq(Messages)
        /\ files'[q] = Append(files[q], item)
        /\ \A p \in Protocols \ {q} : files'[p] = files[p]
    BY <1>1 DEF TypeOK
  <1>3. Filing'
    BY <1>1, <1>2 DEF Filing
  <1>4. ASSUME NEW p \in Protocols PROVE EndOf(files'[p] \o Pending(p)', Shown(p)')
    <2>1. Pending(p)' = <<>> /\ Shown(p)' = Shown(p)
      BY <1>1, ShownNext DEF Pending
    <2>2. EndOf(files[p] \o Pending(p), Shown(p))
      BY <1>1, MirrorIs
    <2>3. files'[p] \in Seq(Messages)
      BY <1>1, <1>2, AppendProperties
    <2>4. files'[p] \o Pending(p)' = files'[p]
      BY <2>1, <2>3, ConcatEmptySeq
    <2>5. files'[p] = files[p] \o Pending(p)
      <3>1. CASE p = q
        BY <1>1, <1>2, <3>1, AppendIsConcat DEF Pending
      <3>2. CASE p # q
        BY <1>2, <3>2, ConcatEmptySeq DEF Pending
      <3> QED
        BY <3>1, <3>2
    <2> QED
      BY <2>1, <2>2, <2>4, <2>5
  <1> QED
    BY <1>1, <1>3, <1>4 DEF FilesMirrorStdout, EndOf

\* The file cannot be opened: it is empty, and the block is left out of it.
LEMMA FilesFail ==
    ASSUME TypeOK, Filing, FilesMirrorStdout, OpenFails
    PROVE  Filing' /\ FilesMirrorStdout'
  <1> DEFINE q == ProtocolOf[item[1]]
  <1>1. /\ item # <<>> /\ HasOutputDir /\ q \in Protocols /\ q \notin opened
        /\ files[q] = <<>> /\ item' = <<>> /\ UNCHANGED <<files, opened, stdout>>
    BY DEF OpenFails, Filing
  <1>2. Filing'
    BY <1>1 DEF Filing
  <1>3. ASSUME NEW p \in Protocols PROVE EndOf(files'[p] \o Pending(p)', Shown(p)')
    <2>1. /\ Pending(p)' = <<>> /\ Shown(p)' = Shown(p) /\ Shown(p) \in Seq(Messages)
          /\ files[p] \in Seq(Messages)
      BY <1>1, ShownNext DEF Pending, TypeOK
    <2>2. files'[p] \o Pending(p)' = files[p] /\ files[p] \o <<>> = files[p]
      BY <1>1, <2>1, ConcatEmptySeq
    <2>3. CASE p = q
      BY <1>1, <2>1, <2>2, <2>3, EndOfEmpty
    <2>4. CASE p # q
      <3>1. Pending(p) = <<>>
        BY <2>4 DEF Pending
      <3> QED
        BY <1>1, <2>1, <2>2, <3>1, MirrorIs
    <2> QED
      BY <2>3, <2>4
  <1> QED
    BY <1>1, <1>2, <1>3 DEF FilesMirrorStdout, EndOf

\* Every step keeps the files right.
LEMMA FilesNext ==
    ASSUME TypeOK, Filing, FilesMirrorStdout, [Next]_vars
    PROVE  Filing' /\ FilesMirrorStdout'
  <1>1. CASE \E s \in Senders : Send(s) \/ Enqueue(s)
    BY <1>1, FilesIdle DEF Send, Enqueue
  <1>2. CASE WriteStdout
    BY <1>2, FilesPrint
  <1>3. CASE WriteFile
    BY <1>3, FilesWrite
  <1>4. CASE OpenFails
    BY <1>4, FilesFail
  <1>5. CASE EndRun
    BY <1>5, FilesIdle DEF EndRun
  <1>6. CASE Finish
    BY <1>6, FilesIdle DEF Finish
  <1>7. CASE Exit
    BY <1>7, FilesIdle DEF Exit
  <1>8. CASE UNCHANGED vars
    BY <1>8, FilesIdle DEF vars
  <1>9. CASE Receive
    BY <1>9, FilesIdle DEF Receive
  <1> QED
    BY <1>1, <1>2, <1>3, <1>4, <1>5, <1>6, <1>7, <1>8, <1>9 DEF Next

-----------------------------------------------------------------------------
(***************************************************************************)
(* The theorems.                                                           *)
(***************************************************************************)

\* The invariant holds at the start.
LEMMA InvInit == Init => Inv
  <1> SUFFICES ASSUME Init PROVE Inv
    OBVIOUS
  <1>1. TypeOK
    BY TypeInit
  <1>2. P!Accepted = <<>> /\ Len(P!Accepted) = 0
    <2>1. <<>> \o (<<>> \o <<>>) = <<>>
      BY ConcatEmptySeq, EmptySeq
    <2> QED
      BY <2>1, EmptySeq DEF Init, P!Accepted
  <1>3. Numbered /\ P!SenderOrder
    BY <1>2 DEF Init, Numbered, P!SenderOrder
  <1>4. P!Accounted
    BY <1>2 DEF Init, P!Accounted
  <1>5. Filing
    BY DEF Init, Filing
  <1>6. FilesMirrorStdout
    <2>1. ASSUME NEW p \in Protocols
          PROVE  files[p] = <<>> /\ Pending(p) = <<>> /\ EndOf(<<>>, Shown(p))
      BY <1>1, ShownNext, EndOfEmpty DEF Init, Pending
    <2>2. <<>> \o <<>> = <<>>
      BY ConcatEmptySeq, EmptySeq
    <2> QED
      BY <2>1, <2>2, MirrorIs
  <1> QED
    BY <1>1, <1>3, <1>4, <1>5, <1>6 DEF Inv

\* Every step keeps it.
LEMMA InvNext == Inv /\ [Next]_vars => Inv'
  BY TypeNext, QueueNext, FilesNext DEF Inv

\* The invariant holds in every reachable state.
LEMMA InvAlways == Spec => []Inv
  BY InvInit, InvNext, PTL DEF Spec

\* The state of the printer has its type, and the queue is never longer than
\* its capacity however the handlers interleave between the length test of
\* Send and the send.
THEOREM PrinterTypeCorrect == Spec => []TypeOK
  <1>1. Inv => TypeOK
    BY DEF Inv
  <1> QED
    BY <1>1, InvAlways, PTL

\* Each handler's blocks are printed in the order it sent them and at most
\* once, for any number of handlers and any capacity of the queue.
THEOREM PrinterOrder == Spec => []SenderOrder
  <1>1. Inv => SenderOrder
    BY DEF Inv, SenderOrder
  <1> QED
    BY <1>1, InvAlways, PTL

\* Every block handed to Send is printed, received, queued, waiting or dropped, and
\* only one of these, until the program crashes.
THEOREM PrinterAccounted == Spec => []Accounted
  <1>1. Inv => Accounted
    BY DEF Inv, Accounted
  <1> QED
    BY <1>1, InvAlways, PTL

\* The file of a protocol holds the end of what the standard output has
\* shown of the protocol, for any number of protocols and handlers.
THEOREM PrinterFiles == Spec => []FilesMirrorStdout
  <1>1. Inv => FilesMirrorStdout
    BY DEF Inv
  <1> QED
    BY <1>1, InvAlways, PTL

\* Every step of MultiPrinter is a step of Printer or leaves what Printer
\* has unchanged: filing delays the queue and does nothing else to it.
THEOREM PrinterRefined == Spec => P!Init /\ [][P!Next]_(P!vars)
  <1>1. Init => P!Init
    BY DEF Init, P!Init
  <1>2. [Next]_vars => [P!Next]_(P!vars)
    <2> SUFFICES ASSUME [Next]_vars PROVE [P!Next]_(P!vars)
      OBVIOUS
    <2>1. ASSUME NEW s \in Senders, Send(s) PROVE P!Send(s)
      BY <2>1 DEF Send, P!Send
    <2>2. ASSUME NEW s \in Senders, Enqueue(s) PROVE P!Enqueue(s)
      BY <2>2 DEF Enqueue, P!Enqueue
    <2>3. CASE WriteStdout
      BY <2>3 DEF WriteStdout, P!Write, P!Next
    <2>10. CASE Receive
      BY <2>10 DEF Receive, P!Receive, P!Next
    <2>4. CASE WriteFile
      BY <2>4 DEF WriteFile, P!vars
    <2>5. CASE OpenFails
      BY <2>5 DEF OpenFails, P!vars
    <2>6. CASE EndRun
      BY <2>6 DEF EndRun, P!EndRun, P!Next
    <2>7. CASE Finish
      BY <2>7 DEF Finish, P!Finish, P!Next
    <2>8. CASE Exit
      BY <2>8 DEF Exit, P!Exit, P!Next
    <2>9. CASE UNCHANGED vars
      BY <2>9 DEF vars, P!vars
    <2> QED
      BY <2>1, <2>2, <2>3, <2>4, <2>5, <2>6, <2>7, <2>8, <2>9, <2>10 DEF Next, P!Next
  <1> QED
    BY <1>1, <1>2, PTL DEF Spec

=============================================================================
