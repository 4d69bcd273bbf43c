--------------------------- MODULE ReceiveWindow ---------------------------
(***************************************************************************)
(* receiveWindow of tcpport/assembler.go: the ring of captured, not yet    *)
(* acknowledged segments of one direction of a connection, and the         *)
(* channel it feeds.  Segments arrive in any order and any number of times *)
(* (insert); an acknowledgement from the other direction releases them to  *)
(* the channel (confirm).  The release loop may block on the channel       *)
(* between two packets, so confirm is one action per loop iteration; the   *)
(* capture goroutine does nothing else meanwhile.                          *)
(*                                                                         *)
(* A payload is abstracted to the run of stream offsets [from, to) that it *)
(* carries, which tells apart everything the properties speak of: order,   *)
(* duplicates and losses.                                                  *)
(***************************************************************************)
EXTENDS TCPSeq, Sequences, FiniteSets

CONSTANTS
    ISN,            \* sequence number of the first byte of the stream
    StreamLen,      \* number of bytes in the stream (bound)
    Segments,       \* the [from, to] byte runs packets may carry
    InitialSize,    \* initial length of the ring
    LossyCapture,   \* TRUE: acknowledged bytes may be missing from the capture
    Nil             \* an empty slot of the ring

ASSUME WindowAssumption ==
    /\ ISN \in SeqNumbers
    /\ StreamLen \in Nat \ {0}
    /\ Segments \subseteq {s \in [from : 0 .. StreamLen, to : 0 .. StreamLen] : s.from <= s.to}
    /\ InitialSize \in Nat \ {0}
    /\ LossyCapture \in BOOLEAN
    /\ Nil \notin [seq : SeqNumbers, from : 0 .. StreamLen, to : 0 .. StreamLen]

VARIABLES
    buffer,         \* w.buffer: a function on 0 .. cap-1
    cap,            \* len(w.buffer)
    start,          \* w.start
    size,           \* w.size
    expectBegin,    \* w.expectBegin; 0 also means "nothing released yet"
    lastAck,        \* w.lastAck
    pc,             \* "idle", or "confirm" while the release loop runs
    idx,            \* loop index of confirm
    ack,            \* argument of confirm, as a stream offset
    out,            \* history: the runs sent to the channel, in order
    captured,       \* history: offsets of the bytes captured
    acked           \* history: the highest acknowledgement processed

vars == <<buffer, cap, start, size, expectBegin, lastAck, pc, idx, ack,
          out, captured, acked>>

SeqOf(offset) == (ISN + offset) % Modulus

\* The TCP packet that carries the run s.
Packet(s) == [seq |-> SeqOf(s.from), from |-> s.from, to |-> s.to]

PacketLen(p) == p.to - p.from

\* uint32 sequence number that follows the packet's payload.
EndSeq(p) == (p.seq + PacketLen(p)) % Modulus

\* Where the i-th queued packet sits in the ring.
Slot(i) == (i + start) % cap

At(i) == buffer[Slot(i)]

Init ==
    /\ cap = InitialSize
    /\ buffer = [k \in 0 .. InitialSize - 1 |-> Nil]
    /\ start = 0
    /\ size = 0
    /\ expectBegin = 0
    /\ lastAck = 0
    /\ pc = "idle"
    /\ idx = 0
    /\ ack = 0
    /\ out = <<>>
    /\ captured = {}
    /\ acked = 0

-----------------------------------------------------------------------------
(***************************************************************************)
(* insert.                                                                 *)
(***************************************************************************)

\* Fault: a segment is stale when its first byte was released.
StaleBySeq(p) == expectBegin # 0 /\ CompareTCPSeq(expectBegin, p.seq) >= 0

\* The segment ends at or before what was already released.
Stale(p) == expectBegin # 0 /\ CompareTCPSeq(expectBegin, EndSeq(p)) >= 0

\* The backward scan over the queued packets stops with idx = pos.
ScanStopsAt(p, pos) ==
    /\ \A k \in pos .. size - 1 : CompareTCPSeq(At(k).seq, p.seq) > 0
    /\ pos > 0 => CompareTCPSeq(At(pos - 1).seq, p.seq) <= 0

\* The scan met a packet with the same sequence number.
SameSeqAt(p, pos) == pos > 0 /\ CompareTCPSeq(At(pos - 1).seq, p.seq) = 0

\* Fault: the ring is copied without unrolling it.
ExpandedRolled == [k \in 0 .. 2 * cap - 1 |-> IF k < cap THEN buffer[k] ELSE Nil]

\* expand, called when the ring is full: twice the slots, the packets moved
\* to the front.
Expanded == [k \in 0 .. 2 * cap - 1 |-> IF k < size THEN At(k) ELSE Nil]

\* The ring b of n slots that begins at st, with p put at position pos and
\* the packets from pos on shifted by one.
Inserted(b, n, st, p, pos) ==
    [k \in 0 .. n - 1 |->
        LET i == (k + n - st) % n IN
        IF i = pos THEN p
        ELSE IF pos < i /\ i <= size THEN b[(i - 1 + st) % n]
        ELSE b[k]]

Insert(p) ==
    /\ pc = "idle"
    /\ captured' = captured \cup (p.from .. p.to - 1)
    /\ UNCHANGED <<expectBegin, lastAck, pc, idx, ack, out, acked>>
    /\ \/ /\ Stale(p) \/ PacketLen(p) = 0
          /\ UNCHANGED <<buffer, cap, start, size>>
       \/ /\ ~Stale(p) /\ PacketLen(p) # 0
          /\ \E pos \in 0 .. size :
                /\ ScanStopsAt(p, pos)
                /\ \/ /\ SameSeqAt(p, pos)
                      /\ UNCHANGED <<buffer, cap, start, size>>
                   \/ /\ ~SameSeqAt(p, pos)
                      /\ size < cap
                      /\ buffer' = Inserted(buffer, cap, start, p, pos)
                      /\ size' = size + 1
                      /\ UNCHANGED <<cap, start>>
                   \/ /\ ~SameSeqAt(p, pos)
                      /\ size = cap
                      /\ buffer' = Inserted(Expanded, 2 * cap, 0, p, pos)
                      /\ cap' = 2 * cap
                      /\ start' = 0
                      /\ size' = size + 1

-----------------------------------------------------------------------------
(***************************************************************************)
(* confirm.                                                                *)
(***************************************************************************)

\* The capture point sees a byte before the receiver's acknowledgement of
\* it, unless packets are missing from the capture.
BeginConfirm(a) ==
    /\ pc = "idle"
    /\ LossyCapture \/ \A b \in 0 .. StreamLen - 1 : b < a => b \in captured
    /\ pc' = "confirm"
    /\ idx' = 0
    /\ ack' = a
    /\ UNCHANGED <<buffer, cap, start, size, expectBegin, lastAck, out,
                   captured, acked>>

\* The loop goes on: a queued packet begins below the acknowledgement.
Releasing ==
    /\ pc = "confirm"
    /\ idx < size
    /\ CompareTCPSeq(At(idx).seq, SeqOf(ack)) < 0

\* The packet begins before what was already released.
Overlaps(p) == expectBegin # 0 /\ CompareTCPSeq(expectBegin, p.seq) > 0

\* Fault: overlapping bytes are not trimmed.
DupNone(p) == 0

\* How many of its bytes were already released.
Dup(p) == IF Overlaps(p) THEN (expectBegin - p.seq) % Modulus ELSE 0

\* The packet adds nothing: `continue', leaving its slot empty.
ConfirmSkip ==
    /\ Releasing
    /\ LET p == At(idx) IN Overlaps(p) /\ Dup(p) >= PacketLen(p)
    /\ buffer' = [buffer EXCEPT ![Slot(idx)] = Nil]
    /\ idx' = idx + 1
    /\ UNCHANGED <<cap, start, size, expectBegin, lastAck, pc, ack, out,
                   captured, acked>>

\* Fault: expectBegin is not advanced.
ConfirmSendForgets ==
    /\ Releasing
    /\ LET p == At(idx) IN
          /\ ~(Overlaps(p) /\ Dup(p) >= PacketLen(p))
          /\ out' = Append(out, [from |-> p.from + Dup(p), to |-> p.to])
    /\ buffer' = [buffer EXCEPT ![Slot(idx)] = Nil]
    /\ idx' = idx + 1
    /\ UNCHANGED <<cap, start, size, expectBegin, lastAck, pc, ack, captured, acked>>

\* The packet, trimmed of its duplicate bytes, goes to the channel.
ConfirmSend ==
    /\ Releasing
    /\ LET p == At(idx) IN
          /\ ~(Overlaps(p) /\ Dup(p) >= PacketLen(p))
          /\ out' = Append(out, [from |-> p.from + Dup(p), to |-> p.to])
          /\ expectBegin' = EndSeq(p)
    /\ buffer' = [buffer EXCEPT ![Slot(idx)] = Nil]
    /\ idx' = idx + 1
    /\ UNCHANGED <<cap, start, size, lastAck, pc, ack, captured, acked>>

\* Fault: the start of the ring runs past its end.
EndConfirmOverruns ==
    /\ pc = "confirm"
    /\ ~Releasing
    /\ pc' = "idle"
    /\ start' = start + idx
    /\ size' = size - idx
    /\ idx' = 0
    /\ ack' = 0
    /\ UNCHANGED <<buffer, cap, expectBegin, lastAck, out, captured, acked>>


EndConfirm ==
    /\ pc = "confirm"
    /\ ~Releasing
    /\ pc' = "idle"
    /\ start' = (start + idx) % cap
    /\ size' = size - idx
    /\ lastAck' = IF CompareTCPSeq(lastAck, SeqOf(ack)) < 0 \/ lastAck = 0
                  THEN SeqOf(ack) ELSE lastAck
    /\ idx' = 0
    /\ ack' = 0
    /\ acked' = IF ack > acked THEN ack ELSE acked
    /\ UNCHANGED <<buffer, cap, expectBegin, out, captured>>

-----------------------------------------------------------------------------
\* StreamLen + 1 acknowledges the FIN.
Next ==
    \/ \E s \in Segments : Insert(Packet(s))
    \/ \E a \in 0 .. StreamLen + 1 : BeginConfirm(a)
    \/ ConfirmSkip
    \/ ConfirmSend
    \/ EndConfirm

Spec == Init /\ [][Next]_vars

-----------------------------------------------------------------------------
(***************************************************************************)
(* Conditions on the traffic under which the window keeps its promise.     *)
(***************************************************************************)

\* The stream stays clear of the wrap of the sequence numbers, and is short
\* enough for the signed difference of two of them to tell their order.
NoWrap ==
    /\ ISN > 0
    /\ ISN + StreamLen + 1 <= MaxTCPSeq
    /\ 2 * (StreamLen + 1) <= MaxTCPSeq
    /\ StreamLen + 1 + 2 * TCPSeqWindow <= MaxTCPSeq

\* A retransmission that begins at the same byte carries the same bytes.
StableLengths ==
    \A s, t \in Segments :
        s.from < s.to /\ t.from < t.to /\ s.from = t.from => s.to = t.to

-----------------------------------------------------------------------------
Packets == {Packet(s) : s \in {t \in Segments : t.from < t.to}}

\* The variables of a receiveWindow hold values of their Go types, and the
\* indices stay within the ring.
TypeOK ==
    /\ cap \in Nat \ {0}
    /\ buffer \in [0 .. cap - 1 -> Packets \cup {Nil}]
    /\ start \in 0 .. cap - 1
    /\ size \in 0 .. cap
    /\ expectBegin \in SeqNumbers
    /\ lastAck \in SeqNumbers
    /\ pc \in {"idle", "confirm"}
    /\ idx \in 0 .. size
    /\ ack \in 0 .. StreamLen + 1
    /\ out \in Seq([from : 0 .. StreamLen, to : 0 .. StreamLen])
    /\ captured \subseteq 0 .. StreamLen - 1
    /\ acked \in 0 .. StreamLen + 1

\* The ring's bookkeeping survives inserts in the middle, growth and partial
\* releases: exactly the slots of the queued packets are occupied (insert
\* and confirm dereference them without a nil check), and they are strictly
\* ordered by their place in the stream.
QueueSorted ==
    /\ \A i \in 0 .. cap - 1 : At(i) # Nil <=> i \in idx .. size - 1
    /\ \A i, j \in idx .. size - 1 : i < j => At(i).from < At(j).from

\* First offset after everything released.
Handed == IF out = <<>> THEN 0 ELSE out[Len(out)].to

\* Runs leave the window in stream order, without overlap: a reordered or
\* retransmitted segment is neither released late nor released twice.
InOrder ==
    /\ \A i \in 1 .. Len(out) : out[i].from < out[i].to
    /\ \A i, j \in 1 .. Len(out) : i < j => out[i].to <= out[j].from

Released == UNION {out[i].from .. out[i].to - 1 : i \in 1 .. Len(out)}

\* Between confirms, every byte of the stream that was acknowledged has been
\* released to the reader: no segment is dropped as a duplicate, left in the
\* ring or skipped while a byte it alone carries is missing.
NoAckedByteLost ==
    pc = "idle" => \A b \in 0 .. StreamLen - 1 : b < acked => b \in Released

\* One direction of a connection is an ordered byte stream.
OS == INSTANCE OrderedStream
        WITH seen <- captured, handed <- Handed, Gapless <- ~LossyCapture

\* Every step of the window is a step of the ordered stream it promises.
ImplementsOrderedStream == OS!Spec

=============================================================================
