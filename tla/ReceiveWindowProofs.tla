------------------------ MODULE ReceiveWindowProofs ------------------------
(***************************************************************************)
(* Away from the wrap of the sequence numbers, receiveWindow releases an   *)
(* ordered stream without duplicates; when moreover no acknowledged byte   *)
(* is missing from the capture and retransmissions keep their segment      *)
(* boundaries, it releases every acknowledged byte.                        *)
(***************************************************************************)
EXTENDS ReceiveWindow, SequenceTheorems, TLAPS

-----------------------------------------------------------------------------
(***************************************************************************)
(* Arithmetic.                                                             *)
(***************************************************************************)

\* The remainder that ring indices and sequence numbers use, on the ranges
\* in which they use it.
LEMMA ModLow ==
    ASSUME NEW n \in Nat \ {0}, NEW a \in 0 .. n - 1
    PROVE  a % n = a
  OBVIOUS

\* A sum that passes the end of the ring once.
LEMMA ModHigh ==
    ASSUME NEW n \in Nat \ {0}, NEW a \in n .. 2 * n - 1
    PROVE  a % n = a - n
  OBVIOUS

\* A difference that passes the beginning of the ring once.
LEMMA ModNegative ==
    ASSUME NEW n \in Nat \ {0}, NEW a \in (-n) .. (-1)
    PROVE  a % n = a + n
  OBVIOUS

\* A remainder is an index of the ring.
LEMMA ModRange ==
    ASSUME NEW n \in Nat \ {0}, NEW a \in Int
    PROVE  a % n \in 0 .. n - 1
  OBVIOUS

\* The slot of the i-th element of a ring of n slots that begins at st.
LEMMA RingIndex ==
    ASSUME NEW n \in Nat \ {0}, NEW st \in 0 .. n - 1, NEW i \in 0 .. n - 1
    PROVE  /\ (i + st) % n = IF i + st < n THEN i + st ELSE i + st - n
           /\ (i + st) % n \in 0 .. n - 1
  <1>1. CASE i + st < n
    <2>1. i + st \in 0 .. n - 1
      BY <1>1
    <2>2. (i + st) % n = i + st
      BY <2>1, ModLow
    <2> QED
      BY <1>1, <2>1, <2>2
  <1>2. CASE i + st >= n
    <2>1. i + st \in n .. 2 * n - 1
      BY <1>2
    <2>2. (i + st) % n = i + st - n
      BY <2>1, ModHigh
    <2> QED
      BY <1>2, <2>1, <2>2
  <1> QED
    BY <1>1, <1>2

\* Offsets of bytes and of acknowledgements.
Offsets == 0 .. StreamLen + 1

\* Away from the wrap, a sequence number is the initial one plus the offset.
LEMMA SeqOfOffset ==
    ASSUME NoWrap, NEW a \in Offsets
    PROVE  SeqOf(a) = ISN + a /\ SeqOf(a) \in SeqNumbers /\ SeqOf(a) # 0
  <1>1. ISN + a \in 0 .. MaxTCPSeq
    BY SeqAssumption, WindowAssumption DEF NoWrap, Offsets, SeqNumbers
  <1>2. Modulus \in Nat \ {0} /\ ISN + a \in 0 .. Modulus - 1
    BY <1>1, SeqAssumption DEF Modulus
  <1>3. SeqOf(a) = ISN + a
    BY <1>2, ModLow DEF SeqOf
  <1> QED
    BY <1>1, <1>3, WindowAssumption DEF NoWrap, Offsets, SeqNumbers

\* Away from the wrap, compareTCPSeq is the difference of the offsets.
LEMMA CompareOffsets ==
    ASSUME NoWrap, NEW a \in Offsets, NEW b \in Offsets
    PROVE  CompareTCPSeq(SeqOf(a), SeqOf(b)) = a - b
  <1>1. SeqOf(a) = ISN + a /\ SeqOf(b) = ISN + b
    BY SeqOfOffset
  <1>2. /\ ~(ISN + a < TCPSeqWindow /\ ISN + b > MaxTCPSeq - TCPSeqWindow)
        /\ ~(ISN + b < TCPSeqWindow /\ ISN + a > MaxTCPSeq - TCPSeqWindow)
    BY SeqAssumption, WindowAssumption DEF NoWrap, Offsets, SeqNumbers
  <1>3. CompareTCPSeq(SeqOf(a), SeqOf(b)) = AsInt32((a - b) % Modulus)
    <2>1. (ISN + a) - (ISN + b) = a - b
      BY WindowAssumption DEF Offsets, SeqNumbers
    <2> QED
      BY <1>1, <1>2, <2>1 DEF CompareTCPSeq
  <1>4. Modulus \in Nat \ {0} /\ a - b \in (-Modulus) .. (Modulus - 1)
    BY SeqAssumption, WindowAssumption DEF NoWrap, Offsets, Modulus
  <1>5. CASE a >= b
    <2>1. a - b \in 0 .. Modulus - 1 /\ 2 * (a - b) <= MaxTCPSeq
      BY <1>4, <1>5, SeqAssumption, WindowAssumption DEF NoWrap, Offsets
    <2>2. (a - b) % Modulus = a - b
      BY <2>1, <1>4, ModLow
    <2> QED
      BY <1>3, <2>1, <2>2 DEF AsInt32
  <1>6. CASE a < b
    <2>1. a - b \in (-Modulus) .. (-1)
      BY <1>4, <1>6 DEF Offsets
    <2>2. (a - b) % Modulus = a - b + Modulus
      BY <2>1, <1>4, ModNegative
    <2>3. ~(2 * (a - b + Modulus) <= MaxTCPSeq)
      BY SeqAssumption, WindowAssumption DEF NoWrap, Offsets, Modulus
    <2> QED
      BY <1>3, <1>4, <2>2, <2>3 DEF AsInt32, Offsets
  <1> QED
    BY <1>5, <1>6, WindowAssumption DEF Offsets

\* What is needed of a packet of the stream.
LEMMA PacketFacts ==
    ASSUME NoWrap, NEW s \in Segments
    PROVE  LET p == Packet(s) IN
           /\ p.from = s.from /\ p.to = s.to
           /\ p.from \in 0 .. StreamLen /\ p.to \in 0 .. StreamLen
           /\ p.from <= p.to
           /\ p.seq = SeqOf(p.from)
           /\ EndSeq(p) = SeqOf(p.to)
           /\ p.from < p.to => p \in Packets
  <1> DEFINE p == Packet(s)
  <1>1. /\ p.from = s.from /\ p.to = s.to /\ p.seq = SeqOf(s.from)
        /\ p.from \in 0 .. StreamLen /\ p.to \in 0 .. StreamLen
        /\ p.from <= p.to
    BY WindowAssumption DEF Packet
  <1>2. p.from \in Offsets /\ p.to \in Offsets
    BY <1>1, WindowAssumption DEF Offsets
  <1>3. p.seq = ISN + p.from /\ SeqOf(p.to) = ISN + p.to
    BY <1>1, <1>2, SeqOfOffset
  <1>4. EndSeq(p) = SeqOf(p.to)
    <2>1. p.seq + PacketLen(p) = ISN + p.to
      BY <1>1, <1>3, WindowAssumption DEF PacketLen, SeqNumbers
    <2> QED
      BY <2>1 DEF EndSeq, SeqOf
  <1>5. p.from < p.to => p \in Packets
    BY <1>1 DEF Packets
  <1> QED
    BY <1>1, <1>4, <1>5

\* The packets that may be queued.
LEMMA PacketsFacts ==
    ASSUME NoWrap, NEW p \in Packets
    PROVE  /\ p.from \in 0 .. StreamLen /\ p.to \in 0 .. StreamLen
           /\ p.from < p.to
           /\ p.from \in Offsets /\ p.to \in Offsets
           /\ p.seq = SeqOf(p.from)
           /\ EndSeq(p) = SeqOf(p.to)
           /\ p # Nil
  <1>1. PICK s \in Segments : s.from < s.to /\ p = Packet(s)
    BY DEF Packets
  <1>2. /\ p.from \in 0 .. StreamLen /\ p.to \in 0 .. StreamLen
        /\ p.from < p.to
        /\ p.seq = SeqOf(p.from)
        /\ EndSeq(p) = SeqOf(p.to)
    BY <1>1, PacketFacts
  <1>3. p.from \in Offsets /\ p.to \in Offsets
    BY <1>2, WindowAssumption DEF Offsets
  <1>4. p \in [seq : SeqNumbers, from : 0 .. StreamLen, to : 0 .. StreamLen]
    BY <1>1, <1>2, <1>3, SeqOfOffset DEF Packet
  <1> QED
    BY <1>2, <1>3, <1>4, WindowAssumption

-----------------------------------------------------------------------------
(***************************************************************************)
(* The ring.                                                               *)
(***************************************************************************)

\* Slot is a bijection between positions and slots.
LEMMA SlotFacts ==
    ASSUME TypeOK
    PROVE  /\ \A i \in 0 .. cap - 1 : Slot(i) \in 0 .. cap - 1
           /\ \A i, j \in 0 .. cap - 1 : Slot(i) = Slot(j) => i = j
  <1>1. cap \in Nat \ {0} /\ start \in 0 .. cap - 1
    BY DEF TypeOK
  <1>2. \A i \in 0 .. cap - 1 :
            /\ Slot(i) = IF i + start < cap THEN i + start ELSE i + start - cap
            /\ Slot(i) \in 0 .. cap - 1
    BY <1>1, RingIndex DEF Slot
  <1>3. ASSUME NEW i \in 0 .. cap - 1, NEW j \in 0 .. cap - 1,
               NEW a \in Int, NEW b \in Int,
               a = IF i + start < cap THEN i + start ELSE i + start - cap,
               b = IF j + start < cap THEN j + start ELSE j + start - cap,
               a = b
        PROVE  i = j
    BY <1>1, <1>3
  <1> QED
    BY <1>2, <1>3

\* What Inserted puts at each position of the ring.
LEMMA InsertedFacts ==
    ASSUME NEW n \in Nat \ {0}, NEW st \in 0 .. n - 1, NEW b, NEW p,
           NEW pos \in 0 .. n - 1, NEW i \in 0 .. n - 1
    PROVE  Inserted(b, n, st, p, pos)[(i + st) % n] =
               IF i = pos THEN p
               ELSE IF pos < i /\ i <= size THEN b[(i - 1 + st) % n]
               ELSE b[(i + st) % n]
  <1> DEFINE k == (i + st) % n
  <1>1. k \in 0 .. n - 1 /\ k = IF i + st < n THEN i + st ELSE i + st - n
    BY RingIndex
  <1>2. (k + n - st) % n = i
    <2>1. CASE i + st < n
      <3>1. k + n - st = i + n /\ i + n \in n .. 2 * n - 1
        BY <2>1, <1>1
      <3>2. PICK a \in n .. 2 * n - 1 : a = i + n
        BY <3>1
      <3>3. a % n = a - n
        BY ModHigh
      <3> QED
        BY <3>1, <3>2, <3>3
    <2>2. CASE i + st >= n
      <3>1. k + n - st = i
        BY <2>2, <1>1
      <3> QED
        BY <3>1, ModLow
    <2> QED
      BY <2>1, <2>2
  <1> HIDE DEF k
  <1>3. Inserted(b, n, st, p, pos)[k] =
            IF i = pos THEN p
            ELSE IF pos < i /\ i <= size THEN b[(i - 1 + st) % n]
            ELSE b[k]
    BY <1>1, <1>2 DEF Inserted
  <1> QED
    BY <1>3 DEF k

\* The step that puts p at position pos, growing the ring if it is full.
Push(p, pos) ==
    \/ /\ size < cap
       /\ buffer' = Inserted(buffer, cap, start, p, pos)
       /\ size' = size + 1
       /\ UNCHANGED <<cap, start>>
    \/ /\ size = cap
       /\ buffer' = Inserted(Expanded, 2 * cap, 0, p, pos)
       /\ cap' = 2 * cap
       /\ start' = 0
       /\ size' = size + 1

\* Either way the queue is the old one with p spliced in.
LEMMA PushFacts ==
    ASSUME TypeOK, QueueSorted, idx = 0,
           NEW p \in Packets, NEW pos \in 0 .. size, Push(p, pos)
    PROVE  /\ cap' \in Nat \ {0}
           /\ start' \in 0 .. cap' - 1
           /\ size' = size + 1 /\ size' \in 0 .. cap'
           /\ buffer' \in [0 .. cap' - 1 -> Packets \cup {Nil}]
           /\ \A i \in 0 .. cap' - 1 :
                 At(i)' = IF i < pos THEN At(i)
                          ELSE IF i = pos THEN p
                          ELSE IF i <= size THEN At(i - 1)
                          ELSE Nil
  <1>1. \A i \in 0 .. size - 1 : At(i) \in Packets
    BY SlotFacts, SMTT(60) DEF TypeOK, QueueSorted, At
  <1>2. \A i \in 0 .. cap - 1 : i >= size => At(i) = Nil
    BY DEF QueueSorted, TypeOK
  <1>3. CASE size < cap
    <2>1. /\ buffer' = Inserted(buffer, cap, start, p, pos)
          /\ size' = size + 1 /\ cap' = cap /\ start' = start
      BY <1>3 DEF Push, TypeOK
    <2>2. pos \in 0 .. cap - 1
      BY <1>3 DEF TypeOK
    <2>3. ASSUME NEW i \in 0 .. cap - 1
          PROVE  At(i)' = IF i < pos THEN At(i)
                          ELSE IF i = pos THEN p
                          ELSE IF i <= size THEN At(i - 1)
                          ELSE Nil
      <3>1. At(i)' = Inserted(buffer, cap, start, p, pos)[(i + start) % cap]
        BY <2>1 DEF At, Slot
      <3>2. At(i)' = IF i = pos THEN p
                     ELSE IF pos < i /\ i <= size THEN At(i - 1)
                     ELSE At(i)
        BY <3>1, <2>2, InsertedFacts DEF TypeOK, At, Slot
      <3> QED
        BY <3>2, <1>2, <1>3 DEF TypeOK
    <2>4. buffer' \in [0 .. cap' - 1 -> Packets \cup {Nil}]
      <3>1. ASSUME NEW k \in 0 .. cap - 1
            PROVE  buffer'[k] \in Packets \cup {Nil}
        <4> DEFINE i == (k + cap - start) % cap
        <4>1. i \in 0 .. cap - 1
          BY ModRange DEF TypeOK
        <4> HIDE DEF i
        <4>2. buffer'[k] = IF i = pos THEN p
                           ELSE IF pos < i /\ i <= size THEN buffer[(i - 1 + start) % cap]
                           ELSE buffer[k]
          BY <2>1 DEF Inserted, i
        <4>3. i - 1 + start \in Int
          BY <4>1 DEF TypeOK
        <4>4. (i - 1 + start) % cap \in 0 .. cap - 1
          BY <4>3, ModRange DEF TypeOK
        <4> QED
          BY <4>2, <4>4 DEF TypeOK
      <3>2. buffer' = [k \in 0 .. cap - 1 |-> buffer'[k]]
        BY <2>1 DEF Inserted
      <3> QED
        BY <3>1, <3>2, <2>1
    <2> QED
      BY <2>1, <2>3, <2>4, <1>3 DEF TypeOK
  <1>4. CASE size = cap
    <2>1. PICK n \in Nat \ {0} : n = 2 * cap
      BY DEF TypeOK
    <2>2. /\ buffer' = Inserted(Expanded, n, 0, p, pos)
          /\ size' = size + 1 /\ cap' = n /\ start' = 0
      BY <1>4, <2>1 DEF Push, TypeOK
    <2>3. /\ pos \in 0 .. n - 1
          /\ \A i \in 0 .. n - 1 : i + 0 = i /\ i % n = i
      <3>1. pos \in 0 .. n - 1
        BY <1>4, <2>1 DEF TypeOK
      <3>2. \A i \in 0 .. n - 1 : i % n = i
        BY ModLow
      <3> QED
        BY <3>1, <3>2
    <2>4. \A i \in 0 .. n - 1 : Expanded[i] = IF i < size THEN At(i) ELSE Nil
      BY <2>1 DEF Expanded
    <2>5. ASSUME NEW i \in 0 .. n - 1
          PROVE  At(i)' = IF i < pos THEN At(i)
                          ELSE IF i = pos THEN p
                          ELSE IF i <= size THEN At(i - 1)
                          ELSE Nil
      <3>1. At(i)' = Inserted(Expanded, n, 0, p, pos)[i]
        BY <2>2, <2>3 DEF At, Slot
      <3>2. (i + n - 0) % n = i
        <4>1. PICK a \in n .. 2 * n - 1 : a = i + n - 0
          OBVIOUS
        <4>2. a % n = a - n
          BY ModHigh
        <4> QED
          BY <4>1, <4>2
      <3>3. At(i)' = IF i = pos THEN p
                     ELSE IF pos < i /\ i <= size THEN Expanded[i - 1]
                     ELSE Expanded[i]
        <4>1. At(i)' = IF i = pos THEN p
                       ELSE IF pos < i /\ i <= size THEN Expanded[(i - 1 + 0) % n]
                       ELSE Expanded[i]
          BY <3>1, <3>2 DEF Inserted
        <4>2. pos < i => i - 1 \in 0 .. n - 1 /\ i - 1 + 0 = i - 1
          BY DEF TypeOK
        <4> QED
          BY <4>1, <4>2, <2>3
      <3>4. pos < i => i - 1 \in 0 .. n - 1
        BY DEF TypeOK
      <3> QED
        BY <3>3, <3>4, <2>4, <1>4 DEF TypeOK
    <2>6. buffer' \in [0 .. cap' - 1 -> Packets \cup {Nil}]
      <3>1. ASSUME NEW i \in 0 .. n - 1
            PROVE  buffer'[i] \in Packets \cup {Nil}
        <4>1. At(i)' = buffer'[i]
          BY <2>2, <2>3 DEF At, Slot
        <4> QED
          BY <4>1, <2>5, <1>1, <1>4 DEF TypeOK
      <3>2. buffer' = [i \in 0 .. n - 1 |-> buffer'[i]]
        BY <2>2 DEF Inserted
      <3> QED
        BY <3>1, <3>2, <2>2
    <2> QED
      BY <2>1, <2>2, <2>5, <2>6, <1>4 DEF TypeOK
  <1> QED
    BY <1>3, <1>4 DEF TypeOK

\* Emptying the slot of the packet at idx changes no other position.
LEMMA ReleaseFacts ==
    ASSUME TypeOK, idx < size,
           buffer' = [buffer EXCEPT ![Slot(idx)] = Nil],
           UNCHANGED <<cap, start>>
    PROVE  /\ buffer' \in [0 .. cap - 1 -> Packets \cup {Nil}]
           /\ \A i \in 0 .. cap - 1 : At(i)' = IF i = idx THEN Nil ELSE At(i)
  <1>1. idx \in 0 .. cap - 1 /\ Slot(idx) \in 0 .. cap - 1
    BY SlotFacts DEF TypeOK
  <1>2. buffer' \in [0 .. cap - 1 -> Packets \cup {Nil}]
    BY <1>1 DEF TypeOK
  <1>3. ASSUME NEW i \in 0 .. cap - 1
        PROVE  At(i)' = IF i = idx THEN Nil ELSE At(i)
    <2>1. At(i)' = buffer'[Slot(i)]
      BY DEF At, Slot
    <2>2. Slot(i) \in 0 .. cap - 1 /\ (Slot(i) = Slot(idx) => i = idx)
      BY <1>1, SlotFacts
    <2> QED
      BY <1>1, <2>1, <2>2 DEF At, TypeOK
  <1> QED
    BY <1>2, <1>3

\* Advancing start by idx drops the emptied positions from the front.
LEMMA RotateFacts ==
    ASSUME TypeOK, QueueSorted,
           start' = (start + idx) % cap, size' = size - idx, idx' = 0,
           UNCHANGED <<buffer, cap>>
    PROVE  /\ start' \in 0 .. cap - 1
           /\ size' \in 0 .. cap
           /\ \A i \in 0 .. cap - 1 :
                 At(i)' = IF i < size - idx THEN At(i + idx) ELSE Nil
  <1>1. /\ cap \in Nat \ {0} /\ start \in 0 .. cap - 1
        /\ idx \in 0 .. size /\ size \in 0 .. cap
    BY DEF TypeOK
  <1>2. start' \in 0 .. cap - 1
    <2>1. start + idx \in Int
      BY <1>1
    <2> QED
      BY <1>1, <2>1, ModRange
  <1>3. start' = IF start + idx < cap THEN start + idx ELSE start + idx - cap
    <2>1. CASE idx < cap
      <3>1. idx \in 0 .. cap - 1
        BY <1>1, <2>1
      <3>2. (idx + start) % cap = IF idx + start < cap THEN idx + start ELSE idx + start - cap
        BY <1>1, <3>1, RingIndex
      <3>3. start + idx = idx + start
        BY <1>1
      <3> QED
        BY <1>1, <3>2, <3>3
    <2>2. CASE idx = cap
      <3>1. PICK a \in cap .. 2 * cap - 1 : a = start + idx
        BY <1>1, <2>2
      <3>2. a % cap = a - cap
        BY <1>1, ModHigh
      <3> QED
        BY <1>1, <2>2, <3>1, <3>2
    <2> QED
      BY <1>1, <2>1, <2>2
  <1>4. ASSUME NEW i \in 0 .. cap - 1
        PROVE  At(i)' = IF i < size - idx THEN At(i + idx) ELSE Nil
    <2>1. At(i)' = buffer[(i + start') % cap]
      BY DEF At, Slot
    <2>2. (i + start') % cap = IF i + start' < cap THEN i + start' ELSE i + start' - cap
      BY <1>1, <1>2, RingIndex
    <2>3. CASE i + idx < cap
      <3>1. PICK j \in 0 .. cap - 1 : j = i + idx
        BY <1>1, <2>3
      <3>2. (j + start) % cap = IF j + start < cap THEN j + start ELSE j + start - cap
        BY <1>1, RingIndex
      <3>3. (i + start') % cap = (j + start) % cap
        BY <1>1, <1>2, <1>3, <2>2, <3>1, <3>2
      <3>4. At(i)' = At(j)
        BY <2>1, <3>3 DEF At, Slot
      <3>5. i >= size - idx => At(j) = Nil
        BY <1>1, <3>1 DEF QueueSorted
      <3> QED
        BY <3>1, <3>4, <3>5
    <2>4. CASE i + idx >= cap
      <3>1. PICK j \in 0 .. cap - 1 : j = i + idx - cap
        BY <1>1, <2>4
      <3>2. (j + start) % cap = IF j + start < cap THEN j + start ELSE j + start - cap
        BY <1>1, RingIndex
      <3>3. (i + start') % cap = (j + start) % cap
        BY <1>1, <1>2, <1>3, <2>2, <3>1, <3>2
      <3>4. At(i)' = At(j)
        BY <2>1, <3>3 DEF At, Slot
      <3>5. At(j) = Nil
        BY <1>1, <3>1 DEF QueueSorted
      <3>6. ~(i < size - idx)
        BY <1>1, <2>4
      <3> QED
        BY <3>4, <3>5, <3>6
    <2> QED
      BY <1>1, <2>3, <2>4
  <1>5. size' \in 0 .. cap
    BY <1>1
  <1> QED
    BY <1>2, <1>4, <1>5

-----------------------------------------------------------------------------
(***************************************************************************)
(* The inductive invariant.  InOrder alone is not inductive: the next run  *)
(* is cut at expectBegin, so expectBegin must be the sequence number after *)
(* the last run released; and the packet released next must exist, so the  *)
(* ring's shape is part of it.                                             *)
(***************************************************************************)
ExpectMatches ==
    IF out = <<>> THEN expectBegin = 0 ELSE expectBegin = SeqOf(Handed)

\* The inductive invariant of WindowSafety.
SafeInv ==
    /\ TypeOK
    /\ QueueSorted
    /\ InOrder
    /\ ExpectMatches
    /\ pc = "idle" => idx = 0

\* The offset that expectBegin stands for, and what insert and confirm
\* conclude from comparing with it.
LEMMA ExpectFacts ==
    ASSUME NoWrap, SafeInv
    PROVE  /\ Handed \in 0 .. StreamLen
           /\ out # <<>> => Handed > 0
           /\ \A p \in Packets : Overlaps(p) <=> Handed > p.from
           /\ \A p \in Packets : Dup(p) = IF Handed > p.from THEN Handed - p.from ELSE 0
           /\ \A s \in Segments : Stale(Packet(s)) <=> out # <<>> /\ Handed >= s.to
  <1>1. Handed \in 0 .. StreamLen /\ (out # <<>> => Handed > 0)
    <2>1. CASE out = <<>>
      BY <2>1, WindowAssumption DEF Handed
    <2>2. CASE out # <<>>
      <3>1. Len(out) \in 1 .. Len(out)
        BY <2>2 DEF SafeInv, TypeOK
      <3>2. out[Len(out)] \in [from : 0 .. StreamLen, to : 0 .. StreamLen]
        BY <3>1, ElementOfSeq DEF SafeInv, TypeOK
      <3>3. out[Len(out)].from < out[Len(out)].to
        BY <3>1 DEF SafeInv, InOrder
      <3> QED
        BY <2>2, <3>2, <3>3, WindowAssumption DEF Handed
    <2> QED
      BY <2>1, <2>2
  <1>2. Handed \in Offsets /\ SeqOf(Handed) # 0
    <2>1. Handed \in Offsets
      BY <1>1, WindowAssumption DEF Offsets
    <2> QED
      BY <2>1, SeqOfOffset
  <1>3. expectBegin # 0 <=> out # <<>>
    BY <1>2 DEF SafeInv, ExpectMatches
  <1>4. ASSUME NEW p \in Packets
        PROVE  Overlaps(p) <=> Handed > p.from
    <2>1. p.from \in Offsets /\ p.from \in 0 .. StreamLen /\ p.seq = SeqOf(p.from)
      BY PacketsFacts
    <2>2. CASE out = <<>>
      <3>1. ~Overlaps(p)
        BY <1>3, <2>2 DEF Overlaps
      <3>2. Handed = 0
        BY <2>2 DEF Handed
      <3> QED
        BY <2>1, <3>1, <3>2, WindowAssumption
    <2>3. CASE out # <<>>
      <3>1. CompareTCPSeq(expectBegin, p.seq) = Handed - p.from
        BY <1>2, <2>1, <2>3, CompareOffsets DEF SafeInv, ExpectMatches
      <3> QED
        BY <1>1, <1>3, <2>1, <2>3, <3>1, WindowAssumption DEF Overlaps
    <2> QED
      BY <2>2, <2>3
  <1>5. ASSUME NEW p \in Packets
        PROVE  Dup(p) = IF Handed > p.from THEN Handed - p.from ELSE 0
    <2>1. p.from \in Offsets /\ p.from \in 0 .. StreamLen /\ p.seq = SeqOf(p.from)
      BY PacketsFacts
    <2>2. CASE Handed > p.from
      <3>1. expectBegin = SeqOf(Handed)
        BY <1>1, <2>1, <2>2, WindowAssumption DEF SafeInv, ExpectMatches, Handed
      <3>2. expectBegin = ISN + Handed /\ p.seq = ISN + p.from
        BY <1>2, <2>1, <3>1, SeqOfOffset
      <3>3. PICK d \in 0 .. MaxTCPSeq : d = Handed - p.from /\ d = expectBegin - p.seq
        BY <1>1, <2>1, <2>2, <3>2, SeqAssumption, WindowAssumption
        DEF NoWrap, SeqNumbers
      <3>4. d % Modulus = d
        <4>1. Modulus \in Nat \ {0} /\ d \in 0 .. Modulus - 1
          BY SeqAssumption DEF Modulus
        <4> QED
          BY <4>1, ModLow
      <3> QED
        BY <1>4, <2>2, <3>3, <3>4 DEF Dup
    <2>3. CASE ~(Handed > p.from)
      BY <1>4, <2>3 DEF Dup
    <2> QED
      BY <2>2, <2>3
  <1>6. ASSUME NEW s \in Segments
        PROVE  Stale(Packet(s)) <=> out # <<>> /\ Handed >= s.to
    <2>1. s.to \in 0 .. StreamLen /\ EndSeq(Packet(s)) = SeqOf(s.to)
      BY PacketFacts
    <2>2. s.to \in Offsets
      BY <2>1, WindowAssumption DEF Offsets
    <2>3. CASE out = <<>>
      BY <1>3, <2>3 DEF Stale
    <2>4. CASE out # <<>>
      <3>1. CompareTCPSeq(expectBegin, EndSeq(Packet(s))) = Handed - s.to
        BY <1>2, <2>1, <2>2, <2>4, CompareOffsets DEF SafeInv, ExpectMatches
      <3> QED
        BY <1>1, <1>3, <2>1, <2>4, <3>1, WindowAssumption DEF Stale
    <2> QED
      BY <2>3, <2>4
  <1> QED
    BY <1>1, <1>4, <1>5, <1>6

\* Where the backward scan of insert stops, away from the wrap.
LEMMA ScanFacts ==
    ASSUME NoWrap, SafeInv, idx = 0, NEW p \in Packets, NEW pos \in 0 .. size,
           ScanStopsAt(p, pos)
    PROVE  /\ \A k \in 0 .. size - 1 : At(k) \in Packets
           /\ \A k \in pos .. size - 1 : At(k).from > p.from
           /\ pos > 0 => At(pos - 1).from <= p.from
           /\ SameSeqAt(p, pos) <=> pos > 0 /\ At(pos - 1).from = p.from
           /\ ~SameSeqAt(p, pos) => \A k \in 0 .. pos - 1 : At(k).from < p.from
  <1>1. \A k \in 0 .. size - 1 : At(k) \in Packets
    BY SlotFacts DEF SafeInv, TypeOK, QueueSorted, At
  <1>2. ASSUME NEW k \in 0 .. size - 1
        PROVE  /\ At(k).from \in Int /\ p.from \in Int
               /\ CompareTCPSeq(At(k).seq, p.seq) = At(k).from - p.from
    <2>1. At(k) \in Packets
      BY <1>1
    <2>2. /\ At(k).from \in Offsets /\ p.from \in Offsets
          /\ At(k).seq = SeqOf(At(k).from) /\ p.seq = SeqOf(p.from)
      BY <2>1, PacketsFacts
    <2> QED
      BY <2>2, CompareOffsets, WindowAssumption DEF Offsets
  <1>3. size \in Nat /\ pos \in Nat
    BY DEF SafeInv, TypeOK
  <1>4. \A k \in pos .. size - 1 : At(k).from > p.from
    BY <1>2, <1>3 DEF ScanStopsAt
  <1>5. pos > 0 => pos - 1 \in 0 .. size - 1
    BY <1>3
  <1>6. pos > 0 => At(pos - 1).from <= p.from
    BY <1>2, <1>3, <1>5 DEF ScanStopsAt
  <1>7. SameSeqAt(p, pos) <=> pos > 0 /\ At(pos - 1).from = p.from
    BY <1>2, <1>3, <1>5 DEF SameSeqAt
  <1>8. ASSUME ~SameSeqAt(p, pos), NEW k \in 0 .. pos - 1
        PROVE  At(k).from < p.from
    <2>1. pos > 0 /\ pos - 1 \in 0 .. size - 1 /\ k \in 0 .. size - 1
      BY <1>3
    <2>2. At(pos - 1).from < p.from
      BY <1>2, <1>6, <1>7, <1>8, <2>1
    <2>3. k < pos - 1 => At(k).from < At(pos - 1).from
      BY <2>1 DEF SafeInv, QueueSorted
    <2> QED
      BY <1>2, <1>3, <2>1, <2>2, <2>3
  <1> QED
    BY <1>1, <1>4, <1>6, <1>7, <1>8

\* insert either leaves the ring alone or splices the packet in.
LEMMA InsertCases ==
    ASSUME NoWrap, SafeInv, NEW s \in Segments, Insert(Packet(s))
    PROVE  LET p == Packet(s) IN
           \/ /\ UNCHANGED <<buffer, cap, start, size>>
              /\ \/ p.from = p.to
                 \/ Handed >= p.to
                 \/ \E k \in 0 .. size - 1 : p \in Packets /\ At(k).from = p.from
           \/ /\ p \in Packets
              /\ \E pos \in 0 .. size :
                    ScanStopsAt(p, pos) /\ ~SameSeqAt(p, pos) /\ Push(p, pos)
  <1> DEFINE p == Packet(s)
  <1>1. idx = 0
    BY DEF SafeInv, Insert
  <1>2. p.from = s.from /\ p.to = s.to /\ p.from <= p.to
        /\ p.from \in Int /\ p.to \in Int /\ (p.from < p.to => p \in Packets)
    BY PacketFacts, WindowAssumption
  <1> HIDE DEF p
  <1>3. CASE Stale(p) \/ PacketLen(p) = 0
    <2>1. UNCHANGED <<buffer, cap, start, size>>
      BY <1>3 DEF Insert, p
    <2>2. CASE Stale(p)
      <3>1. Handed >= p.to
        BY <1>2, <2>2, ExpectFacts DEF p
      <3> QED
        BY <2>1, <3>1 DEF p
    <2>3. CASE PacketLen(p) = 0
      <3>1. p.from = p.to
        BY <1>2, <2>3 DEF PacketLen
      <3> QED
        BY <2>1, <3>1 DEF p
    <2> QED
      BY <1>3, <2>2, <2>3
  <1>4. CASE ~(Stale(p) \/ PacketLen(p) = 0)
    <2>1. p \in Packets
      BY <1>2, <1>4 DEF PacketLen
    <2>2. PICK pos \in 0 .. size :
              /\ ScanStopsAt(p, pos)
              /\ \/ SameSeqAt(p, pos) /\ UNCHANGED <<buffer, cap, start, size>>
                 \/ ~SameSeqAt(p, pos) /\ Push(p, pos)
      BY <1>4 DEF Insert, Push, p
    <2>3. CASE SameSeqAt(p, pos)
      <3>1. pos > 0 /\ At(pos - 1).from = p.from
        BY <1>1, <2>1, <2>2, <2>3, ScanFacts
      <3>2. pos - 1 \in 0 .. size - 1
        BY <3>1 DEF SafeInv, TypeOK
      <3> QED
        BY <2>1, <2>2, <2>3, <3>1, <3>2 DEF p
    <2>4. CASE ~SameSeqAt(p, pos)
      BY <2>1, <2>2, <2>4 DEF p
    <2> QED
      BY <2>3, <2>4
  <1> QED
    BY <1>3, <1>4

\* Splicing keeps the queue sorted.
LEMMA PushSorted ==
    ASSUME NoWrap, SafeInv, idx = 0, idx' = idx,
           NEW p \in Packets, NEW pos \in 0 .. size,
           ScanStopsAt(p, pos), ~SameSeqAt(p, pos), Push(p, pos)
    PROVE  QueueSorted'
  <1> DEFINE q == [i \in 0 .. cap' - 1 |-> buffer'[(i + start') % cap']]
  <1>1. size \in Nat /\ pos \in Nat /\ cap \in Nat /\ p.from \in Int
    BY PacketsFacts, WindowAssumption DEF SafeInv, TypeOK
  <1>2. PICK n \in Nat : cap' = n /\ size' = size + 1 /\ size + 1 <= n
    BY <1>1, PushFacts DEF SafeInv
  <1>3. ASSUME NEW i \in 0 .. n - 1
        PROVE  /\ i < pos => q[i] = At(i)
               /\ i = pos => q[i] = p
               /\ i > pos /\ i <= size => q[i] = At(i - 1)
               /\ i > size => q[i] = Nil
    <2>1. At(i)' = IF i < pos THEN At(i)
                   ELSE IF i = pos THEN p
                   ELSE IF i <= size THEN At(i - 1)
                   ELSE Nil
      BY <1>2, PushFacts DEF SafeInv
    <2>2. q[i] = At(i)'
      BY <1>2 DEF At, Slot
    <2> QED
      BY <1>1, <2>1, <2>2
  <1> HIDE DEF q
  <1>4. /\ \A k \in 0 .. size - 1 : At(k) \in Packets /\ At(k) # Nil /\ At(k).from \in Int
        /\ \A k \in pos .. size - 1 : At(k).from > p.from
        /\ \A k \in 0 .. pos - 1 : At(k).from < p.from
        /\ p # Nil
    BY ScanFacts, PacketsFacts, WindowAssumption
  <1>5. \A i, j \in 0 .. size - 1 : i < j => At(i).from < At(j).from
    BY DEF SafeInv, QueueSorted
  <1>6. ASSUME NEW i \in 0 .. n - 1
        PROVE  q[i] # Nil <=> i \in 0 .. size
    BY <1>1, <1>2, <1>3, <1>4
  <1>7. ASSUME NEW i \in 0 .. size, NEW j \in 0 .. size, i < j
        PROVE  q[i].from < q[j].from
    <2>1. i \in 0 .. n - 1 /\ j \in 0 .. n - 1 /\ i <= size /\ j <= size
      BY <1>1, <1>2
    <2>2. CASE j < pos
      BY <1>1, <1>3, <1>5, <1>7, <2>1, <2>2
    <2>3. CASE j = pos
      BY <1>1, <1>3, <1>4, <1>7, <2>1, <2>3
    <2>4. CASE i < pos /\ j > pos
      <3>1. q[i] = At(i) /\ q[j] = At(j - 1)
        BY <1>1, <1>3, <2>1, <2>4
      <3>2. i \in 0 .. size - 1 /\ j - 1 \in 0 .. size - 1 /\ i < j - 1
        BY <1>1, <2>1, <2>4
      <3> QED
        BY <1>5, <3>1, <3>2
    <2>5. CASE i = pos /\ j > pos
      <3>1. q[i] = p /\ q[j] = At(j - 1) /\ j - 1 \in pos .. size - 1
        BY <1>1, <1>3, <2>1, <2>5
      <3> QED
        BY <1>4, <3>1
    <2>6. CASE i > pos
      <3>1. q[i] = At(i - 1) /\ q[j] = At(j - 1)
        BY <1>1, <1>3, <1>7, <2>1, <2>6
      <3>2. i - 1 \in 0 .. size - 1 /\ j - 1 \in 0 .. size - 1 /\ i - 1 < j - 1
        BY <1>1, <1>7, <2>1, <2>6
      <3> QED
        BY <1>5, <3>1, <3>2
    <2> QED
      BY <1>1, <1>7, <2>2, <2>3, <2>4, <2>5, <2>6
  <1> QED
    <2>1. /\ \A i \in 0 .. n - 1 : q[i] = At(i)'
          /\ 0 .. size' - 1 = 0 .. size
      BY <1>1, <1>2 DEF At, Slot, q
    <2>2. \A i \in 0 .. size : i \in 0 .. n - 1
      BY <1>1, <1>2
    <2>3. /\ \A i \in 0 .. n - 1 : At(i)' # Nil <=> i \in 0 .. size
          /\ \A i, j \in 0 .. size : i < j => At(i)'.from < At(j)'.from
      BY <1>6, <1>7, <2>1, <2>2, Zenon
    <2>4. cap' = n /\ idx' = 0 /\ 0 .. size' - 1 = 0 .. size
      BY <1>2, <2>1
    <2> QED
      BY <2>3, <2>4 DEF QueueSorted

\* The empty window satisfies it.
LEMMA SafeInit ==
    ASSUME Init PROVE SafeInv
  <1>1. TypeOK
    BY SeqAssumption, WindowAssumption DEF Init, TypeOK, SeqNumbers
  <1>2. QueueSorted
    <2>1. ASSUME NEW i \in 0 .. cap - 1 PROVE At(i) = Nil
      BY <1>1, SlotFacts DEF Init, At, TypeOK
    <2>2. \A i \in 0 .. cap - 1 : i \notin idx .. size - 1
      BY DEF Init
    <2>3. \A i \in idx .. size - 1 : FALSE
      BY DEF Init
    <2> QED
      BY <2>1, <2>2, <2>3 DEF QueueSorted
  <1> QED
    BY <1>1, <1>2 DEF Init, SafeInv, InOrder, ExpectMatches

\* insert keeps the invariant.
LEMMA SafeInsert ==
    ASSUME NoWrap, SafeInv, NEW s \in Segments, Insert(Packet(s))
    PROVE  SafeInv'
  <1> DEFINE p == Packet(s)
  <1>1. /\ UNCHANGED <<expectBegin, lastAck, pc, idx, ack, out, acked>>
        /\ captured' = captured \cup (p.from .. p.to - 1)
        /\ idx = 0
    BY DEF Insert, SafeInv
  <1>2. captured' \subseteq 0 .. StreamLen - 1
    <2>1. p.from \in 0 .. StreamLen /\ p.to \in 0 .. StreamLen
      BY PacketFacts
    <2> HIDE DEF p
    <2>2. p.from .. p.to - 1 \subseteq 0 .. StreamLen - 1
      BY <2>1, WindowAssumption
    <2> QED
      BY <1>1, <2>2 DEF SafeInv, TypeOK
  <1> HIDE DEF p
  <1>3. InOrder' /\ ExpectMatches' /\ (pc' = "idle" => idx' = 0)
    BY <1>1 DEF SafeInv, InOrder, ExpectMatches, Handed
  <1>4. CASE UNCHANGED <<buffer, cap, start, size>>
    <2>1. TypeOK'
      BY <1>1, <1>2, <1>4 DEF SafeInv, TypeOK
    <2>2. QueueSorted'
      BY <1>1, <1>4 DEF SafeInv, QueueSorted, At, Slot
    <2> QED
      BY <1>3, <2>1, <2>2 DEF SafeInv
  <1>5. ASSUME p \in Packets, NEW pos \in 0 .. size,
               ScanStopsAt(p, pos), ~SameSeqAt(p, pos), Push(p, pos)
        PROVE  SafeInv'
    <2>1. QueueSorted'
      BY <1>1, <1>5, PushSorted
    <2>2. /\ cap' \in Nat \ {0}
          /\ start' \in 0 .. cap' - 1
          /\ size' \in 0 .. cap'
          /\ buffer' \in [0 .. cap' - 1 -> Packets \cup {Nil}]
          /\ size' = size + 1
      BY <1>1, <1>5, PushFacts DEF SafeInv
    <2>3. idx' \in 0 .. size'
      BY <1>1, <2>2 DEF SafeInv, TypeOK
    <2>4. TypeOK'
      BY <1>1, <1>2, <2>2, <2>3 DEF SafeInv, TypeOK
    <2> QED
      BY <1>3, <2>1, <2>4 DEF SafeInv
  <1> QED
    BY <1>4, <1>5, InsertCases DEF p

\* One iteration of confirm's loop empties the slot at idx.
LEMMA SafeRelease ==
    ASSUME NoWrap, SafeInv, Releasing,
           buffer' = [buffer EXCEPT ![Slot(idx)] = Nil], idx' = idx + 1,
           UNCHANGED <<cap, start, size>>
    PROVE  /\ At(idx) \in Packets
           /\ \A i \in 0 .. cap - 1 : At(i)' = IF i = idx THEN Nil ELSE At(i)
           /\ QueueSorted'
           /\ buffer' \in [0 .. cap - 1 -> Packets \cup {Nil}]
           /\ idx' \in 0 .. size
  <1>1. /\ idx \in 0 .. size - 1 /\ size \in 0 .. cap /\ cap \in Nat \ {0}
        /\ idx \in 0 .. cap - 1
    BY DEF SafeInv, TypeOK, Releasing
  <1>2. At(idx) \in Packets
    BY <1>1, SlotFacts, SMTT(60) DEF SafeInv, TypeOK, QueueSorted, At
  <1>3. /\ buffer' \in [0 .. cap - 1 -> Packets \cup {Nil}]
        /\ \A i \in 0 .. cap - 1 : At(i)' = IF i = idx THEN Nil ELSE At(i)
    BY <1>1, ReleaseFacts DEF SafeInv
  <1>4. QueueSorted'
    <2> DEFINE q == [i \in 0 .. cap - 1 |-> buffer'[(i + start) % cap]]
    <2>1. \A i \in 0 .. cap - 1 : q[i] = IF i = idx THEN Nil ELSE At(i)
      BY <1>3 DEF At, Slot
    <2>2. \A i \in 0 .. cap - 1 : At(i)' = q[i]
      BY DEF At, Slot
    <2> HIDE DEF q
    <2>3. \A i \in 0 .. cap - 1 : q[i] # Nil <=> i \in idx + 1 .. size - 1
      BY <1>1, <2>1 DEF SafeInv, QueueSorted
    <2>4. \A i, j \in idx + 1 .. size - 1 : i < j => q[i].from < q[j].from
      BY <1>1, <2>1 DEF SafeInv, QueueSorted
    <2>5. \A i \in idx + 1 .. size - 1 : i \in 0 .. cap - 1
      BY <1>1
    <2> QED
      BY <2>2, <2>3, <2>4, <2>5 DEF QueueSorted
  <1> QED
    BY <1>1, <1>2, <1>3, <1>4

\* Skipping a packet that adds nothing keeps it.
LEMMA SafeConfirmSkip ==
    ASSUME NoWrap, SafeInv, ConfirmSkip
    PROVE  SafeInv' /\ Handed' = Handed /\ Handed >= At(idx).to
  <1>1. /\ At(idx) \in Packets
        /\ QueueSorted'
        /\ buffer' \in [0 .. cap - 1 -> Packets \cup {Nil}]
        /\ idx' \in 0 .. size
    BY SafeRelease DEF ConfirmSkip
  <1>2. TypeOK'
    BY <1>1 DEF SafeInv, TypeOK, ConfirmSkip
  <1>3. InOrder' /\ ExpectMatches' /\ Handed' = Handed
    BY DEF SafeInv, InOrder, ExpectMatches, Handed, ConfirmSkip
  <1>4. pc' = "confirm"
    BY DEF ConfirmSkip, Releasing
  <1>5. Handed >= At(idx).to
    <2>1. Handed \in Int /\ Dup(At(idx)) = IF Handed > At(idx).from THEN Handed - At(idx).from ELSE 0
      BY <1>1, ExpectFacts, WindowAssumption
    <2>2. At(idx).from \in Int /\ At(idx).to \in Int /\ At(idx).from < At(idx).to
      BY <1>1, PacketsFacts, WindowAssumption
    <2>3. Dup(At(idx)) >= PacketLen(At(idx))
      BY DEF ConfirmSkip
    <2> QED
      BY <2>1, <2>2, <2>3 DEF PacketLen
  <1> QED
    BY <1>1, <1>2, <1>3, <1>4, <1>5 DEF SafeInv

\* The run that is released: what is new in the packet.
NewRun(p) == [from |-> IF Handed > p.from THEN Handed ELSE p.from, to |-> p.to]

\* Releasing a packet keeps it: the run released begins at or after the last one.
LEMMA SafeConfirmSend ==
    ASSUME NoWrap, SafeInv, ConfirmSend
    PROVE  /\ SafeInv'
           /\ At(idx) \in Packets
           /\ Handed < At(idx).to
           /\ out' = Append(out, NewRun(At(idx)))
           /\ Handed' = At(idx).to
  <1> DEFINE p == At(idx)
  <1>1. /\ p \in Packets
        /\ QueueSorted'
        /\ buffer' \in [0 .. cap - 1 -> Packets \cup {Nil}]
        /\ idx' \in 0 .. size
    BY SafeRelease DEF ConfirmSend
  <1>2. /\ ~(Overlaps(p) /\ Dup(p) >= PacketLen(p))
        /\ out' = Append(out, [from |-> p.from + Dup(p), to |-> p.to])
        /\ expectBegin' = EndSeq(p)
        /\ pc' = "confirm"
        /\ UNCHANGED <<cap, start, size, lastAck, ack, captured, acked>>
    BY DEF ConfirmSend, Releasing
  <1> HIDE DEF p
  <1>3. /\ Handed \in 0 .. StreamLen
        /\ Overlaps(p) <=> Handed > p.from
        /\ Dup(p) = IF Handed > p.from THEN Handed - p.from ELSE 0
    BY <1>1, ExpectFacts
  <1>4. /\ p.from \in 0 .. StreamLen /\ p.to \in 0 .. StreamLen /\ p.from < p.to
        /\ p.to \in Offsets /\ EndSeq(p) = SeqOf(p.to)
    BY <1>1, PacketsFacts
  <1>5. Handed < p.to
    BY <1>2, <1>3, <1>4, WindowAssumption DEF PacketLen
  <1> DEFINE r == NewRun(p)
  <1>6. /\ r.from \in 0 .. StreamLen /\ r.to = p.to /\ r.from < r.to
        /\ Handed <= r.from
        /\ r \in [from : 0 .. StreamLen, to : 0 .. StreamLen]
        /\ out' = Append(out, r)
    BY <1>2, <1>3, <1>4, <1>5, WindowAssumption DEF NewRun
  <1> HIDE DEF r
  <1>7. /\ out \in Seq([from : 0 .. StreamLen, to : 0 .. StreamLen])
        /\ out' \in Seq([from : 0 .. StreamLen, to : 0 .. StreamLen])
        /\ Len(out) \in Nat
        /\ Len(out') = Len(out) + 1
        /\ \A i \in 1 .. Len(out) : out'[i] = out[i]
        /\ out'[Len(out) + 1] = r
        /\ out' # <<>>
    BY <1>6 DEF SafeInv, TypeOK
  <1>8. Handed' = p.to
    BY <1>6, <1>7 DEF Handed
  <1>9. \A i \in 1 .. Len(out) : out[i].to \in Int /\ out[i].from \in Int /\ out[i].to <= Handed
    <2> SUFFICES ASSUME NEW i \in 1 .. Len(out)
                 PROVE  out[i].to \in Int /\ out[i].from \in Int /\ out[i].to <= Handed
      OBVIOUS
    <2>1. Len(out) \in 1 .. Len(out) /\ out # <<>>
      BY <1>7
    <2>2. /\ out[i] \in [from : 0 .. StreamLen, to : 0 .. StreamLen]
          /\ out[Len(out)] \in [from : 0 .. StreamLen, to : 0 .. StreamLen]
      BY <1>7, <2>1, ElementOfSeq
    <2>3. /\ out[Len(out)].from < out[Len(out)].to
          /\ i < Len(out) => out[i].to <= out[Len(out)].from
      BY <2>1 DEF SafeInv, InOrder
    <2>4. Handed = out[Len(out)].to
      BY <2>1 DEF Handed
    <2>5. /\ out[i].to \in Int /\ out[i].from \in Int
          /\ out[Len(out)].to \in Int /\ out[Len(out)].from \in Int
      BY <2>2, WindowAssumption
    <2>6. CASE i = Len(out)
      BY <2>4, <2>5, <2>6
    <2>7. CASE i < Len(out)
      BY <2>3, <2>4, <2>5, <2>7
    <2> QED
      BY <1>7, <2>6, <2>7
  <1>10. InOrder'
    <2>1. \A i \in 1 .. Len(out) + 1 : out'[i].from < out'[i].to
      BY <1>6, <1>7 DEF SafeInv, InOrder
    <2>2. ASSUME NEW i \in 1 .. Len(out) + 1, NEW j \in 1 .. Len(out) + 1, i < j
          PROVE  out'[i].to <= out'[j].from
      <3>1. i \in 1 .. Len(out) /\ out'[i] = out[i]
        <4>1. PICK n \in Nat : n = Len(out)
          BY <1>7
        <4>2. i \in 1 .. Len(out)
          BY <2>2, <4>1
        <4> QED
          BY <1>7, <4>2
      <3>2. CASE j \in 1 .. Len(out)
        BY <1>7, <2>2, <3>1, <3>2 DEF SafeInv, InOrder
      <3>3. CASE j = Len(out) + 1
        BY <1>3, <1>6, <1>7, <1>9, <3>1, <3>3, WindowAssumption, SMTT(60)
      <3> QED
        BY <1>7, <3>2, <3>3
    <2> QED
      BY <1>7, <2>1, <2>2 DEF InOrder
  <1>11. ExpectMatches'
    <2>1. (SeqOf(Handed))' = SeqOf(p.to)
      BY <1>8 DEF SeqOf
    <2> QED
      BY <1>2, <1>4, <1>7, <2>1 DEF ExpectMatches
  <1>12. TypeOK'
    <2>1. expectBegin' \in SeqNumbers
      BY <1>2, <1>4, SeqOfOffset
    <2> QED
      BY <1>1, <1>2, <1>7, <2>1 DEF SafeInv, TypeOK
  <1>13. SafeInv'
    BY <1>1, <1>2, <1>10, <1>11, <1>12 DEF SafeInv
  <1> QED
    BY <1>1, <1>5, <1>6, <1>8, <1>13 DEF p, r

\* The end of confirm, which rotates the ring, keeps it.
LEMMA SafeEndConfirm ==
    ASSUME NoWrap, SafeInv, EndConfirm
    PROVE  SafeInv'
  <1>1. /\ start' \in 0 .. cap - 1
        /\ size' \in 0 .. cap
        /\ \A i \in 0 .. cap - 1 :
              At(i)' = IF i < size - idx THEN At(i + idx) ELSE Nil
    BY RotateFacts DEF SafeInv, EndConfirm
  <1>2. lastAck' \in SeqNumbers
    <2>1. SeqOf(ack) \in SeqNumbers
      BY SeqOfOffset DEF SafeInv, TypeOK, Offsets
    <2> QED
      BY <2>1 DEF SafeInv, TypeOK, EndConfirm
  <1>3. TypeOK'
    BY <1>1, <1>2, WindowAssumption DEF SafeInv, TypeOK, EndConfirm
  <1>4. QueueSorted'
    <2> DEFINE q == [i \in 0 .. cap - 1 |-> buffer'[(i + start') % cap]]
    <2>1. \A i \in 0 .. cap - 1 : q[i] = IF i < size - idx THEN At(i + idx) ELSE Nil
      <3>1. cap' = cap
        BY DEF EndConfirm
      <3> QED
        BY <1>1, <3>1 DEF At, Slot
    <2>2. \A i \in 0 .. cap - 1 : At(i)' = q[i]
      BY DEF At, Slot, EndConfirm
    <2> HIDE DEF q
    <2>3. size \in Nat /\ idx \in 0 .. size /\ cap \in Nat /\ size <= cap
      BY DEF SafeInv, TypeOK
    <2>4. ASSUME NEW i \in 0 .. cap - 1
          PROVE  q[i] # Nil <=> i \in 0 .. (size - idx) - 1
      <3>1. CASE i < size - idx
        <4>1. i + idx \in 0 .. cap - 1 /\ i + idx \in idx .. size - 1
          BY <2>3, <3>1
        <4>2. At(i + idx) # Nil
          BY <4>1 DEF SafeInv, QueueSorted
        <4> QED
          BY <2>1, <2>3, <3>1, <4>2
      <3>2. CASE ~(i < size - idx)
        BY <2>1, <2>3, <3>2
      <3> QED
        BY <3>1, <3>2
    <2>5. ASSUME NEW i \in 0 .. (size - idx) - 1, NEW j \in 0 .. (size - idx) - 1, i < j
          PROVE  q[i].from < q[j].from
      <3>1. /\ i \in 0 .. cap - 1 /\ j \in 0 .. cap - 1
            /\ i < size - idx /\ j < size - idx
        BY <2>3
      <3>2. q[i] = At(i + idx) /\ q[j] = At(j + idx)
        BY <2>1, <3>1
      <3>3. i + idx \in idx .. size - 1 /\ j + idx \in idx .. size - 1 /\ i + idx < j + idx
        BY <2>3, <2>5
      <3> QED
        BY <3>2, <3>3 DEF SafeInv, QueueSorted
    <2>6. cap' = cap /\ idx' = 0 /\ size' = size - idx
      BY DEF EndConfirm
    <2>7. \A i \in 0 .. (size - idx) - 1 : i \in 0 .. cap - 1
      BY <2>3
    <2> QED
      BY <2>2, <2>4, <2>5, <2>6, <2>7 DEF QueueSorted
  <1> QED
    BY <1>3, <1>4 DEF SafeInv, InOrder, ExpectMatches, Handed, EndConfirm

\* So does a step that leaves ring and output alone.
LEMMA SafeUnchangedRing ==
    ASSUME NoWrap, SafeInv, UNCHANGED <<buffer, cap, start, size, expectBegin, lastAck, out, captured, acked>>,
           \/ UNCHANGED <<pc, idx, ack>>
           \/ pc = "idle" /\ pc' = "confirm" /\ idx' = 0 /\ ack' \in 0 .. StreamLen + 1
    PROVE  SafeInv'
  <1>1. idx' = idx
    BY DEF SafeInv
  <1>2. QueueSorted'
    BY <1>1 DEF SafeInv, QueueSorted, At, Slot
  <1>3. TypeOK'
    BY <1>1 DEF SafeInv, TypeOK
  <1> QED
    BY <1>1, <1>2, <1>3 DEF SafeInv, InOrder, ExpectMatches, Handed

\* Every step keeps it.
LEMMA SafeNext ==
    ASSUME NoWrap, SafeInv, [Next]_vars
    PROVE  SafeInv'
  <1>1. ASSUME NEW s \in Segments, Insert(Packet(s)) PROVE SafeInv'
    BY <1>1, SafeInsert
  <1>2. ASSUME NEW a \in 0 .. StreamLen + 1, BeginConfirm(a) PROVE SafeInv'
    BY <1>2, SafeUnchangedRing DEF BeginConfirm
  <1>3. CASE ConfirmSkip
    BY <1>3, SafeConfirmSkip
  <1>4. CASE ConfirmSend
    BY <1>4, SafeConfirmSend
  <1>5. CASE EndConfirm
    BY <1>5, SafeEndConfirm
  <1>6. CASE UNCHANGED vars
    BY <1>6, SafeUnchangedRing DEF vars
  <1> QED
    BY <1>1, <1>2, <1>3, <1>4, <1>5, <1>6 DEF Next

\* For every stream that stays clear of the wrap, whatever segments are
\* captured, in whatever order, as often as it may be, and whatever is
\* acknowledged: receiveWindow keeps its ring well formed and sorted, and
\* releases the bytes in order and at most once.
THEOREM WindowSafety ==
    ASSUME NoWrap
    PROVE  Spec => [](TypeOK /\ QueueSorted /\ InOrder)
  <1>1. Init => SafeInv
    BY SafeInit
  <1>2. SafeInv /\ [Next]_vars => SafeInv'
    BY SafeNext
  <1>3. SafeInv => TypeOK /\ QueueSorted /\ InOrder
    BY DEF SafeInv
  <1> QED
    BY <1>1, <1>2, <1>3, PTL DEF Spec

\* Away from the wrap the start, the size and the scan index of the ring stay
\* within it through every insert, expand and confirm.
THEOREM WindowTypeCorrect ==
    ASSUME NoWrap
    PROVE  Spec => []TypeOK
  BY WindowSafety, PTL

\* Away from the wrap exactly the slots of the queued packets are occupied,
\* so that insert and confirm dereference no nil, and the packets are
\* strictly ordered by their place in the stream, whatever the order of
\* their arrival.
THEOREM WindowQueueSorted ==
    ASSUME NoWrap
    PROVE  Spec => []QueueSorted
  BY WindowSafety, PTL

-----------------------------------------------------------------------------
(***************************************************************************)
(* Completeness.  The queue holds captured bytes only; and, when the       *)
(* capture misses no acknowledged byte and segments are stable, a captured *)
(* byte is released or still queued.  A gap before the packet released     *)
(* next would be an acknowledged byte that is neither.                     *)
(***************************************************************************)
Queue == {At(i) : i \in idx .. size - 1}

\* What is queued was captured.
QueueCaptured == \A p \in Queue : p.from .. p.to - 1 \subseteq captured

\* A captured byte is still queued or already released.
CapturedKept ==
    \A b \in captured :
        b < Handed \/ \E p \in Queue : p.from <= b /\ b < p.to

\* What an acknowledgement covers was captured before it.
AckedCaptured ==
    \A b \in 0 .. StreamLen - 1 : b < ack \/ b < acked => b \in captured

\* What an acknowledgement covered was released.
AckedHanded == \A b \in 0 .. StreamLen - 1 : b < acked => b < Handed

\* What is added for a complete capture: nothing is lost, and what is released
\* has no gap.
CompleteInv ==
    /\ CapturedKept
    /\ AckedCaptured
    /\ AckedHanded
    /\ Released = 0 .. Handed - 1

\* The traffic for which completeness is claimed.
Complete == ~LossyCapture /\ StableLengths

\* Packets that begin at the same byte are the same.
LEMMA StablePackets ==
    ASSUME StableLengths, NEW p \in Packets, NEW q \in Packets, p.from = q.from
    PROVE  p.to = q.to
  BY DEF StableLengths, Packets, Packet

\* The queued packets, and their type.
LEMMA QueueFacts ==
    ASSUME NoWrap, SafeInv
    PROVE  /\ idx \in Nat /\ size \in Nat /\ cap \in Nat /\ idx <= size /\ size <= cap
           /\ \A i \in idx .. size - 1 : i \in 0 .. cap - 1 /\ At(i) \in Packets
           /\ \A p \in Queue :
                 /\ p \in Packets
                 /\ p.from \in 0 .. StreamLen /\ p.to \in 0 .. StreamLen
                 /\ p.from < p.to
  <1>1. idx \in Nat /\ size \in Nat /\ cap \in Nat /\ idx <= size /\ size <= cap
    BY DEF SafeInv, TypeOK
  <1>2. ASSUME NEW i \in idx .. size - 1
        PROVE  i \in 0 .. cap - 1 /\ At(i) \in Packets
    <2>1. i \in 0 .. cap - 1
      BY <1>1
    <2> QED
      BY <2>1, SlotFacts DEF SafeInv, TypeOK, QueueSorted, At
  <1> QED
    BY <1>1, <1>2, PacketsFacts DEF Queue

\* How the queue changes when p is spliced in: nothing is lost, only p is new.
LEMMA PushQueue ==
    ASSUME NoWrap, SafeInv, idx = 0, idx' = idx,
           NEW p \in Packets, NEW pos \in 0 .. size, Push(p, pos)
    PROVE  Queue' = Queue \cup {p}
  <1>1. idx \in Nat /\ size \in Nat /\ pos \in Nat /\ pos <= size
    BY DEF SafeInv, TypeOK
  <1>2. PICK n \in Nat : cap' = n /\ size' = size + 1 /\ size + 1 <= n
    BY <1>1, PushFacts DEF SafeInv
  <1>3. \A i \in 0 .. n - 1 :
            At(i)' = IF i < pos THEN At(i)
                     ELSE IF i = pos THEN p
                     ELSE IF i <= size THEN At(i - 1)
                     ELSE Nil
    BY <1>2, PushFacts DEF SafeInv
  <1> DEFINE q == [i \in 0 .. n - 1 |-> buffer'[(i + start') % n]]
  <1>4. \A i \in 0 .. n - 1 : q[i] = At(i)'
    BY <1>2 DEF At, Slot
  <1> HIDE DEF q
  <1>5. \A i \in 0 .. n - 1 :
            /\ i < pos => q[i] = At(i)
            /\ i = pos => q[i] = p
            /\ i > pos /\ i <= size => q[i] = At(i - 1)
    BY <1>1, <1>3, <1>4
  <1>6. /\ idx' .. size' - 1 = 0 .. size
        /\ \A j \in 0 .. size : j \in 0 .. n - 1
        /\ pos \in 0 .. size
    BY <1>1, <1>2
  <1>7. ASSUME NEW i \in idx .. size - 1
        PROVE  \E j \in 0 .. size : q[j] = At(i)
    <2>1. CASE i < pos
      <3>1. i \in 0 .. size /\ i \in 0 .. n - 1
        BY <1>1, <1>2
      <3> QED
        BY <1>5, <2>1, <3>1
    <2>2. CASE i >= pos
      <3>1. /\ i + 1 \in 0 .. size /\ i + 1 \in 0 .. n - 1
            /\ i + 1 > pos /\ i + 1 <= size /\ (i + 1) - 1 = i
        BY <1>1, <1>2, <2>2
      <3>2. q[i + 1] = At(i)
        BY <1>5, <3>1
      <3> QED
        BY <3>1, <3>2
    <2> QED
      BY <1>1, <2>1, <2>2
  <1>8. ASSUME NEW j \in 0 .. size
        PROVE  q[j] = p \/ \E i \in idx .. size - 1 : q[j] = At(i)
    <2>1. j \in 0 .. n - 1
      BY <1>6
    <2>2. CASE j < pos
      <3>1. j \in idx .. size - 1
        BY <1>1, <2>2
      <3> QED
        BY <1>5, <2>1, <2>2, <3>1
    <2>3. CASE j = pos
      BY <1>5, <2>1, <2>3
    <2>4. CASE j > pos
      <3>1. j - 1 \in idx .. size - 1 /\ j <= size
        BY <1>1, <2>4
      <3> QED
        BY <1>5, <2>1, <2>4, <3>1
    <2> QED
      BY <1>1, <2>2, <2>3, <2>4
  <1>9. \E j \in 0 .. size : q[j] = p
    BY <1>5, <1>6
  <1>10. \A j \in 0 .. size : At(j)' = q[j]
    BY <1>4, <1>6
  <1>11. Queue' = {q[j] : j \in 0 .. size}
    BY <1>6, <1>10 DEF Queue
  <1>12. Queue = {At(i) : i \in idx .. size - 1}
    BY DEF Queue
  <1> QED
    BY <1>7, <1>8, <1>9, <1>11, <1>12

\* An iteration of confirm's loop takes the packet at idx off the queue.
LEMMA ReleaseQueue ==
    ASSUME NoWrap, SafeInv, Releasing,
           buffer' = [buffer EXCEPT ![Slot(idx)] = Nil], idx' = idx + 1,
           UNCHANGED <<cap, start, size>>
    PROVE  /\ At(idx) \in Queue
           /\ Queue' \subseteq Queue
           /\ Queue \subseteq Queue' \cup {At(idx)}
  <1>1. /\ idx \in Nat /\ size \in Nat /\ cap \in Nat /\ idx < size /\ size <= cap
        /\ idx \in idx .. size - 1
    BY QueueFacts DEF Releasing
  <1>2. \A i \in 0 .. cap - 1 : At(i)' = IF i = idx THEN Nil ELSE At(i)
    BY SafeRelease
  <1>3. \A i \in idx + 1 .. size - 1 : At(i)' = At(i)
    BY <1>1, <1>2
  <1>4. Queue' = {At(i) : i \in idx + 1 .. size - 1}
    BY <1>3 DEF Queue
  <1>5. \A i \in idx .. size - 1 : i = idx \/ i \in idx + 1 .. size - 1
    BY <1>1
  <1>6. \A i \in idx + 1 .. size - 1 : i \in idx .. size - 1
    BY <1>1
  <1> QED
    BY <1>1, <1>4, <1>5, <1>6 DEF Queue

\* The end of confirm only renumbers the queue.
LEMMA RotateQueue ==
    ASSUME NoWrap, SafeInv, EndConfirm
    PROVE  Queue' = Queue
  <1>1. idx \in Nat /\ size \in Nat /\ cap \in Nat /\ idx <= size /\ size <= cap
    BY QueueFacts
  <1>2. \A i \in 0 .. cap - 1 :
            At(i)' = IF i < size - idx THEN At(i + idx) ELSE Nil
    BY RotateFacts DEF SafeInv, EndConfirm
  <1>3. \A i \in 0 .. (size - idx) - 1 : At(i)' = At(i + idx)
    BY <1>1, <1>2
  <1>4. Queue' = {At(i + idx) : i \in 0 .. (size - idx) - 1}
    <2>1. idx' = 0 /\ size' = size - idx
      BY DEF EndConfirm
    <2> QED
      BY <1>3, <2>1 DEF Queue
  <1>5. \A i \in 0 .. (size - idx) - 1 : i + idx \in idx .. size - 1
    BY <1>1
  <1>6. \A j \in idx .. size - 1 : \E i \in 0 .. (size - idx) - 1 : j = i + idx
    <2> SUFFICES ASSUME NEW j \in idx .. size - 1
                 PROVE  \E i \in 0 .. (size - idx) - 1 : j = i + idx
      OBVIOUS
    <2>1. j - idx \in 0 .. (size - idx) - 1 /\ j = (j - idx) + idx
      BY <1>1
    <2> QED
      BY <2>1
  <1> QED
    BY <1>4, <1>5, <1>6 DEF Queue

\* The inductive invariant of WindowComplete and of the refinement.
FullInv == SafeInv /\ QueueCaptured /\ (Complete => CompleteInv)

\* The empty window satisfies it.
LEMMA FullInit ==
    ASSUME Init PROVE FullInv
  <1>1. SafeInv
    BY SafeInit
  <1>2. Queue = {}
    <2>1. \A i \in idx .. size - 1 : FALSE
      BY DEF Init
    <2> QED
      BY <2>1 DEF Queue
  <1>3. Handed = 0 /\ Released = {}
    BY DEF Init, Handed, Released
  <1>4. 0 .. Handed - 1 = {}
    BY <1>3
  <1>5. AckedCaptured /\ AckedHanded
    BY WindowAssumption DEF Init, AckedCaptured, AckedHanded
  <1> QED
    BY <1>1, <1>2, <1>3, <1>4, <1>5
    DEF Init, FullInv, QueueCaptured, CompleteInv, CapturedKept

\* An insert keeps it: what it drops was released or is queued.
LEMMA FullInsert ==
    ASSUME NoWrap, FullInv, NEW s \in Segments, Insert(Packet(s))
    PROVE  QueueCaptured' /\ (Complete => CompleteInv')
  <1> DEFINE p == Packet(s)
  <1>1. /\ UNCHANGED <<expectBegin, lastAck, pc, idx, ack, out, acked>>
        /\ captured' = captured \cup (p.from .. p.to - 1)
        /\ idx = 0
    BY DEF Insert, FullInv, SafeInv
  <1>2. p.from \in Int /\ p.to \in Int
    BY PacketFacts, WindowAssumption
  <1>3. Handed' = Handed /\ Released' = Released /\ Handed \in Int
    BY <1>1, ExpectFacts, WindowAssumption DEF Handed, Released, FullInv
  <1> HIDE DEF p
  <1>4. Complete => AckedCaptured' /\ AckedHanded' /\ Released' = 0 .. Handed' - 1
    BY <1>1, <1>3 DEF FullInv, CompleteInv, AckedCaptured, AckedHanded
  <1>5. CASE /\ UNCHANGED <<buffer, cap, start, size>>
             /\ \/ p.from = p.to
                \/ Handed >= p.to
                \/ \E k \in 0 .. size - 1 : p \in Packets /\ At(k).from = p.from
    <2>1. Queue' = Queue
      BY <1>1, <1>5 DEF Queue, At, Slot
    <2>2. QueueCaptured'
      BY <1>1, <2>1 DEF FullInv, QueueCaptured
    <2>3. ASSUME Complete, NEW b \in p.from .. p.to - 1
          PROVE  b < Handed \/ \E q \in Queue : q.from <= b /\ b < q.to
      <3>1. CASE p.from = p.to
        BY <1>2, <2>3, <3>1
      <3>2. CASE Handed >= p.to
        BY <1>2, <1>3, <2>3, <3>2
      <3>3. ASSUME NEW k \in 0 .. size - 1, p \in Packets, At(k).from = p.from
            PROVE  \E q \in Queue : q.from <= b /\ b < q.to
        <4>1. At(k) \in Queue /\ At(k) \in Packets
          BY <1>1, QueueFacts DEF Queue, FullInv
        <4>2. At(k).to = p.to
          BY <2>3, <3>3, <4>1, StablePackets DEF Complete
        <4>3. At(k).from <= b /\ b < At(k).to
          BY <1>2, <2>3, <3>3, <4>2
        <4> QED
          BY <4>1, <4>3
      <3> QED
        BY <1>5, <3>1, <3>2, <3>3
    <2>4. Complete => CapturedKept'
      BY <1>1, <1>3, <2>1, <2>3 DEF FullInv, CompleteInv, CapturedKept
    <2> QED
      BY <1>4, <2>2, <2>4 DEF CompleteInv
  <1>6. ASSUME p \in Packets, NEW pos \in 0 .. size, Push(p, pos)
        PROVE  QueueCaptured' /\ (Complete => CompleteInv')
    <2>1. Queue' = Queue \cup {p}
      BY <1>1, <1>6, PushQueue DEF FullInv
    <2>2. QueueCaptured'
      BY <1>1, <2>1 DEF FullInv, QueueCaptured
    <2>3. \A b \in p.from .. p.to - 1 : p.from <= b /\ b < p.to
      BY <1>2
    <2>4. Complete => CapturedKept'
      BY <1>1, <1>3, <2>1, <2>3 DEF FullInv, CompleteInv, CapturedKept
    <2> QED
      BY <1>4, <2>2, <2>4 DEF CompleteInv
  <1> QED
    BY <1>5, <1>6, InsertCases DEF p, FullInv

\* A skipped packet has been released by others.
LEMMA FullConfirmSkip ==
    ASSUME NoWrap, FullInv, ConfirmSkip
    PROVE  QueueCaptured' /\ (Complete => CompleteInv')
  <1>1. /\ At(idx) \in Queue
        /\ Queue' \subseteq Queue
        /\ Queue \subseteq Queue' \cup {At(idx)}
    BY ReleaseQueue DEF FullInv, ConfirmSkip
  <1>2. Handed' = Handed /\ Handed >= At(idx).to
    BY SafeConfirmSkip DEF FullInv
  <1>3. UNCHANGED <<out, captured, ack, acked>> /\ Released' = Released
    BY DEF ConfirmSkip, Released
  <1>4. Handed \in Int /\ At(idx).to \in Int
    BY <1>1, ExpectFacts, QueueFacts, WindowAssumption DEF FullInv
  <1>5. ASSUME Complete, NEW b \in captured
        PROVE  b < Handed \/ \E p \in Queue' : p.from <= b /\ b < p.to
    <2>1. b \in Int
      BY DEF FullInv, SafeInv, TypeOK
    <2>2. b < At(idx).to => b < Handed
      BY <1>2, <1>4, <2>1
    <2>3. b < Handed \/ \E p \in Queue : p.from <= b /\ b < p.to
      BY <1>5 DEF FullInv, CompleteInv, CapturedKept
    <2> QED
      BY <1>1, <2>2, <2>3
  <1>6. Complete => CapturedKept'
    BY <1>2, <1>3, <1>5 DEF CapturedKept
  <1>7. QueueCaptured'
    BY <1>1, <1>3 DEF FullInv, QueueCaptured
  <1>8. Complete => AckedCaptured' /\ AckedHanded' /\ Released' = 0 .. Handed' - 1
    BY <1>2, <1>3 DEF FullInv, CompleteInv, AckedCaptured, AckedHanded
  <1> QED
    BY <1>6, <1>7, <1>8 DEF CompleteInv

\* There is no gap before the packet that confirm releases next.
LEMMA NoGap ==
    ASSUME NoWrap, FullInv, Complete, Releasing, At(idx) \in Queue
    PROVE  At(idx).from <= Handed
  <1> DEFINE p == At(idx)
  <1>1. /\ p.from \in 0 .. StreamLen /\ p \in Packets /\ Handed \in 0 .. StreamLen
    BY QueueFacts, ExpectFacts DEF FullInv
  <1>2. p.from < ack
    <2>1. p.from \in Offsets /\ p.seq = SeqOf(p.from)
      BY <1>1, PacketsFacts
    <2>2. ack \in Offsets
      BY DEF FullInv, SafeInv, TypeOK, Offsets
    <2>3. CompareTCPSeq(p.seq, SeqOf(ack)) = p.from - ack
      BY <2>1, <2>2, CompareOffsets
    <2>4. CompareTCPSeq(p.seq, SeqOf(ack)) < 0
      BY DEF Releasing
    <2> QED
      BY <2>1, <2>2, <2>3, <2>4, WindowAssumption DEF Offsets
  <1>3. SUFFICES ASSUME Handed < p.from PROVE FALSE
    BY <1>1, WindowAssumption
  <1>4. Handed \in 0 .. StreamLen - 1 /\ Handed < ack
    BY <1>1, <1>2, <1>3, WindowAssumption DEF FullInv, SafeInv, TypeOK
  <1>5. Handed \in captured
    BY <1>4 DEF FullInv, CompleteInv, AckedCaptured
  <1>6. PICK q \in Queue : q.from <= Handed
    BY <1>1, <1>5, WindowAssumption DEF FullInv, CompleteInv, CapturedKept
  <1>7. PICK i \in idx .. size - 1 : q = At(i)
    BY <1>6 DEF Queue
  <1>8. q.from \in Int
    BY <1>6, QueueFacts, WindowAssumption DEF FullInv
  <1>9. i = idx \/ p.from < q.from
    <2>1. idx \in idx .. size - 1 /\ (i = idx \/ idx < i)
      BY QueueFacts DEF Releasing, FullInv
    <2> QED
      BY <1>7, <2>1 DEF FullInv, SafeInv, QueueSorted
  <1> QED
    BY <1>1, <1>3, <1>6, <1>7, <1>8, <1>9, WindowAssumption

\* A released packet continues the stream where it stood.
LEMMA FullConfirmSend ==
    ASSUME NoWrap, FullInv, ConfirmSend
    PROVE  QueueCaptured' /\ (Complete => CompleteInv')
  <1> DEFINE p == At(idx)
  <1>1. /\ p \in Queue
        /\ Queue' \subseteq Queue
        /\ Queue \subseteq Queue' \cup {p}
    BY ReleaseQueue DEF FullInv, ConfirmSend
  <1>2. /\ Handed < p.to
        /\ out' = Append(out, NewRun(p))
        /\ Handed' = p.to
    BY SafeConfirmSend DEF FullInv
  <1>3. UNCHANGED <<captured, ack, acked>> /\ Releasing
    BY DEF ConfirmSend
  <1>4. Complete => p.from <= Handed
    BY <1>1, <1>3, NoGap
  <1> HIDE DEF p
  <1>5. /\ Handed \in 0 .. StreamLen /\ Handed \in Int
        /\ p.from \in Int /\ p.to \in Int /\ p.to \in 0 .. StreamLen
    BY <1>1, ExpectFacts, QueueFacts, WindowAssumption DEF FullInv
  <1>6. ASSUME Complete, NEW b \in captured
        PROVE  b < p.to \/ \E q \in Queue' : q.from <= b /\ b < q.to
    <2>1. b \in Int
      BY DEF FullInv, SafeInv, TypeOK
    <2>2. b < Handed => b < p.to
      BY <1>2, <1>5, <2>1
    <2>3. b < Handed \/ \E q \in Queue : q.from <= b /\ b < q.to
      BY <1>6 DEF FullInv, CompleteInv, CapturedKept
    <2> QED
      BY <1>1, <2>2, <2>3
  <1>7. Complete => CapturedKept'
    BY <1>2, <1>3, <1>6 DEF CapturedKept
  <1>8. QueueCaptured'
    BY <1>1, <1>3 DEF FullInv, QueueCaptured
  <1>9. Complete => AckedCaptured' /\ AckedHanded'
    <2>1. \A b \in 0 .. StreamLen - 1 : b < Handed => b < p.to
      BY <1>2, <1>5, WindowAssumption
    <2> QED
      BY <1>2, <1>3, <2>1 DEF FullInv, CompleteInv, AckedCaptured, AckedHanded
  <1>10. ASSUME Complete PROVE Released' = 0 .. Handed' - 1
    <2>1. NewRun(p).from = Handed /\ NewRun(p).to = p.to
      BY <1>4, <1>5, <1>10 DEF NewRun
    <2> DEFINE r == NewRun(p)
    <2> HIDE DEF r
    <2>2. /\ Len(out) \in Nat
          /\ Len(out') = Len(out) + 1
          /\ \A i \in 1 .. Len(out) : out'[i] = out[i]
          /\ out'[Len(out) + 1] = r
      BY <1>2 DEF FullInv, SafeInv, TypeOK, r
    <2>3. Released' = Released \cup (r.from .. r.to - 1)
      <3>1. Released' = UNION {out'[i].from .. out'[i].to - 1 : i \in 1 .. Len(out) + 1}
        BY <2>2 DEF Released
      <3>2. \A i \in 1 .. Len(out) + 1 : i \in 1 .. Len(out) \/ i = Len(out) + 1
        BY <2>2
      <3>3. \A i \in 1 .. Len(out) : i \in 1 .. Len(out) + 1
        BY <2>2
      <3>4. Len(out) + 1 \in 1 .. Len(out) + 1
        BY <2>2
      <3> QED
        BY <2>2, <3>1, <3>2, <3>3, <3>4 DEF Released
    <2>4. Released = 0 .. Handed - 1
      BY <1>10 DEF FullInv, CompleteInv
    <2>5. 0 .. p.to - 1 = (0 .. Handed - 1) \cup (Handed .. p.to - 1)
      BY <1>2, <1>5
    <2> QED
      BY <1>2, <2>1, <2>3, <2>4, <2>5 DEF r
  <1> QED
    BY <1>7, <1>8, <1>9, <1>10 DEF CompleteInv

\* When confirm ends, everything below the acknowledgement was released.
LEMMA FullEndConfirm ==
    ASSUME NoWrap, FullInv, EndConfirm
    PROVE  QueueCaptured' /\ (Complete => CompleteInv')
  <1>1. Queue' = Queue
    BY RotateQueue DEF FullInv
  <1>2. /\ UNCHANGED <<out, captured>> /\ ack' = 0
        /\ acked' = IF ack > acked THEN ack ELSE acked
        /\ ~Releasing /\ pc = "confirm"
    BY DEF EndConfirm
  <1>3. Handed' = Handed /\ Released' = Released
    BY <1>2 DEF Handed, Released
  <1>4. QueueCaptured'
    BY <1>1, <1>2 DEF FullInv, QueueCaptured
  <1>5. ASSUME Complete PROVE CompleteInv'
    <2>1. CapturedKept' /\ Released' = 0 .. Handed' - 1
      BY <1>1, <1>2, <1>3, <1>5 DEF FullInv, CompleteInv, CapturedKept
    <2>2. /\ ack \in Int /\ acked \in Int /\ ack \in Offsets
          /\ acked' = ack \/ acked' = acked
      BY <1>2, WindowAssumption DEF FullInv, SafeInv, TypeOK, Offsets
    <2>3. AckedCaptured'
      <3>1. \A b \in 0 .. StreamLen - 1 : ~(b < 0)
        BY WindowAssumption
      <3> QED
        BY <1>2, <1>5, <2>2, <3>1 DEF FullInv, CompleteInv, AckedCaptured
    <2>4. ASSUME NEW b \in 0 .. StreamLen - 1, b < ack
          PROVE  b < Handed
      <3>1. SUFFICES ASSUME NEW q \in Queue, q.from <= b
                     PROVE  FALSE
        BY <1>5, <2>4 DEF FullInv, CompleteInv, AckedCaptured, CapturedKept
      <3>2. PICK i \in idx .. size - 1 : q = At(i)
        BY DEF Queue
      <3>3. /\ idx \in idx .. size - 1 /\ idx < size
            /\ i = idx \/ idx < i
            /\ At(idx) \in Packets /\ At(idx) \in Queue
        BY <3>2, QueueFacts DEF FullInv, Queue
      <3>4. /\ At(idx).from \in Int /\ q.from \in Int
            /\ At(idx).from \in Offsets /\ At(idx).seq = SeqOf(At(idx).from)
        BY <3>1, <3>3, PacketsFacts, QueueFacts, WindowAssumption DEF FullInv, Offsets
      <3>5. At(idx).from <= q.from
        <4>1. CASE i = idx
          BY <3>2, <3>4, <4>1
        <4>2. CASE idx < i
          <5>1. At(idx).from < At(i).from
            BY <3>2, <3>3, <4>2 DEF FullInv, SafeInv, QueueSorted
          <5> QED
            BY <3>2, <3>4, <5>1
        <4> QED
          BY <3>3, <4>1, <4>2
      <3>6. At(idx).from < ack
        BY <2>2, <2>4, <3>1, <3>4, <3>5, WindowAssumption
      <3>7. CompareTCPSeq(At(idx).seq, SeqOf(ack)) = At(idx).from - ack
        BY <2>2, <3>4, CompareOffsets
      <3>8. CompareTCPSeq(At(idx).seq, SeqOf(ack)) < 0
        BY <2>2, <3>4, <3>6, <3>7
      <3> QED
        BY <1>2, <3>3, <3>8 DEF Releasing
    <2>5. AckedHanded'
      BY <1>3, <1>5, <2>2, <2>4 DEF FullInv, CompleteInv, AckedHanded
    <2> QED
      BY <2>1, <2>3, <2>5 DEF CompleteInv
  <1> QED
    BY <1>4, <1>5

\* An acknowledgement covers only captured bytes.
LEMMA FullBeginConfirm ==
    ASSUME NoWrap, FullInv, NEW a \in 0 .. StreamLen + 1, BeginConfirm(a)
    PROVE  QueueCaptured' /\ (Complete => CompleteInv')
  <1>1. /\ UNCHANGED <<buffer, cap, start, size, out, captured, acked, idx>>
        /\ ack' = a
        /\ ~LossyCapture => \A b \in 0 .. StreamLen - 1 : b < a => b \in captured
    BY DEF BeginConfirm, FullInv, SafeInv
  <1>2. Queue' = Queue /\ Handed' = Handed /\ Released' = Released
    BY <1>1 DEF Queue, Handed, Released, At, Slot
  <1>3. QueueCaptured' /\ (Complete => CapturedKept' /\ AckedHanded' /\ Released' = 0 .. Handed' - 1)
    BY <1>1, <1>2 DEF FullInv, QueueCaptured, CompleteInv, CapturedKept, AckedHanded
  <1>4. Complete => AckedCaptured'
    BY <1>1 DEF FullInv, CompleteInv, AckedCaptured, Complete
  <1> QED
    BY <1>3, <1>4 DEF CompleteInv

\* Every step keeps it.
LEMMA FullNext ==
    ASSUME NoWrap, FullInv, [Next]_vars
    PROVE  FullInv'
  <1>1. SafeInv'
    BY SafeNext DEF FullInv
  <1>2. QueueCaptured' /\ (Complete => CompleteInv')
    <2>1. ASSUME NEW s \in Segments, Insert(Packet(s))
          PROVE  QueueCaptured' /\ (Complete => CompleteInv')
      BY <2>1, FullInsert
    <2>2. ASSUME NEW a \in 0 .. StreamLen + 1, BeginConfirm(a)
          PROVE  QueueCaptured' /\ (Complete => CompleteInv')
      BY <2>2, FullBeginConfirm
    <2>3. CASE ConfirmSkip
      BY <2>3, FullConfirmSkip
    <2>4. CASE ConfirmSend
      BY <2>4, FullConfirmSend
    <2>5. CASE EndConfirm
      BY <2>5, FullEndConfirm
    <2>6. CASE UNCHANGED vars
      <3>1. Queue' = Queue /\ Handed' = Handed /\ Released' = Released
        BY <2>6 DEF vars, Queue, Handed, Released, At, Slot
      <3> QED
        BY <2>6, <3>1 DEF vars, FullInv, QueueCaptured, CompleteInv, CapturedKept,
                         AckedCaptured, AckedHanded
    <2> QED
      BY <2>1, <2>2, <2>3, <2>4, <2>5, <2>6 DEF Next
  <1> QED
    BY <1>1, <1>2 DEF FullInv, Complete

\* When no acknowledged byte is missing from the capture and a
\* retransmission keeps the bounds of its segment, every acknowledged byte
\* is released by the end of the confirm call that acknowledges it,
\* whatever the order in which the segments arrived.
THEOREM WindowComplete ==
    ASSUME NoWrap, StableLengths, ~LossyCapture
    PROVE  Spec => []NoAckedByteLost
  <1>1. Init => FullInv
    BY FullInit
  <1>2. FullInv /\ [Next]_vars => FullInv'
    BY FullNext
  <1>3. FullInv => NoAckedByteLost
    <2> SUFFICES ASSUME FullInv PROVE NoAckedByteLost
      OBVIOUS
    <2>1. CompleteInv
      BY DEF FullInv, Complete
    <2>2. Handed \in Int
      BY ExpectFacts, WindowAssumption DEF FullInv
    <2>3. \A b \in 0 .. StreamLen - 1 : b < Handed => b \in 0 .. Handed - 1
      BY <2>2, WindowAssumption
    <2> QED
      BY <2>1, <2>3 DEF CompleteInv, AckedHanded, NoAckedByteLost
  <1> QED
    BY <1>1, <1>2, <1>3, PTL DEF Spec

\* receiveWindow implements the ordered byte stream: away from the wrap
\* every step hands over a run of captured bytes at or after the last one,
\* and, for a complete capture of stable segments, directly after it.
THEOREM WindowImplementsOrderedStream ==
    ASSUME NoWrap, LossyCapture \/ StableLengths
    PROVE  Spec => ImplementsOrderedStream
  <1>1. Init => FullInv
    BY FullInit
  <1>2. FullInv /\ [Next]_vars => FullInv'
    BY FullNext
  <1>3. Init => OS!Init
    BY DEF Init, OS!Init, Handed
  <1>4. FullInv /\ FullInv' /\ [Next]_vars => [OS!Next]_(OS!vars)
    <2> SUFFICES ASSUME FullInv, FullInv', [Next]_vars
                 PROVE  [OS!Next]_(OS!vars)
      OBVIOUS
    <2>1. captured' \in SUBSET (0 .. StreamLen - 1)
      BY DEF FullInv, SafeInv, TypeOK
    <2>2. ASSUME NEW s \in Segments, Insert(Packet(s)) PROVE OS!Next
      <3>1. captured \subseteq captured' /\ Handed' = Handed
        BY <2>2 DEF Insert, Handed
      <3> QED
        BY <2>1, <3>1 DEF OS!Next, OS!Capture
    <2>3. ASSUME NEW a \in 0 .. StreamLen + 1, BeginConfirm(a) PROVE UNCHANGED <<captured, Handed>>
      BY <2>3 DEF BeginConfirm, Handed
    <2>4. CASE ConfirmSkip
      BY <2>4 DEF ConfirmSkip, OS!vars, Handed
    <2>5. CASE ConfirmSend
      <3> DEFINE p == At(idx)
      <3>1. /\ p \in Queue
            /\ Handed < p.to /\ Handed' = p.to
            /\ captured' = captured
            /\ Releasing
        BY <2>5, ReleaseQueue, SafeConfirmSend DEF FullInv, ConfirmSend
      <3>2. ~LossyCapture => p.from <= Handed
        BY <3>1, NoGap DEF Complete
      <3> HIDE DEF p
      <3>3. /\ Handed \in 0 .. StreamLen
            /\ p.from \in 0 .. StreamLen /\ p.to \in 0 .. StreamLen /\ p.from < p.to
            /\ p.from .. p.to - 1 \subseteq captured
        BY <3>1, ExpectFacts, QueueFacts DEF FullInv, QueueCaptured
      <3>4. PICK from \in 0 .. StreamLen : from = IF Handed > p.from THEN Handed ELSE p.from
        BY <3>3
      <3>5. /\ from \in 0 .. StreamLen - 1 /\ p.to \in 1 .. StreamLen
            /\ Handed <= from /\ from < p.to
            /\ ~LossyCapture => from = Handed
            /\ \A b \in from .. p.to - 1 : b \in p.from .. p.to - 1
        BY <3>1, <3>2, <3>3, <3>4, WindowAssumption
      <3>6. from .. p.to - 1 \subseteq captured
        BY <3>3, <3>5
      <3>7. OS!Hand(from, p.to)
        BY <3>1, <3>5, <3>6 DEF OS!Hand
      <3> QED
        BY <3>5, <3>7 DEF OS!Next
    <2>6. CASE EndConfirm
      BY <2>6 DEF EndConfirm, OS!vars, Handed
    <2>7. CASE UNCHANGED vars
      BY <2>7 DEF vars, OS!vars, Handed
    <2> QED
      BY <2>2, <2>3, <2>4, <2>5, <2>6, <2>7 DEF Next, OS!vars
  <1> QED
    BY <1>1, <1>2, <1>3, <1>4, PTL DEF Spec, ImplementsOrderedStream, OS!Spec

=============================================================================
