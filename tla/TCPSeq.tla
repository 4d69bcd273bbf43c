------------------------------- MODULE TCPSeq -------------------------------
(***************************************************************************)
(* Serial-number arithmetic of tcpport/assembler.go: the constants         *)
(* maxTCPSeq and tcpSeqWindow and the comparison compareTCPSeq.  Sequence  *)
(* numbers are uint32 in the code, so every sum and difference wraps at    *)
(* Modulus; the code's values are MaxTCPSeq = 2^32-1, TCPSeqWindow = 65535.*)
(***************************************************************************)
EXTENDS Integers

CONSTANTS
    MaxTCPSeq,      \* the largest sequence number
    TCPSeqWindow    \* width of the zone around the wrap treated specially

ASSUME SeqAssumption ==
    /\ MaxTCPSeq \in Nat \ {0}
    /\ TCPSeqWindow \in Nat
    /\ 2 * TCPSeqWindow < MaxTCPSeq

Modulus == MaxTCPSeq + 1

SeqNumbers == 0 .. MaxTCPSeq

\* The conversion int32(u) of an unsigned difference u.
AsInt32(u) == IF 2 * u <= MaxTCPSeq THEN u ELSE u - Modulus

(***************************************************************************)
(* compareTCPSeq.  The first two branches convert a uint32 to a 64-bit     *)
(* int, which never yields a negative number; only the last one goes       *)
(* through int32.                                                          *)
(***************************************************************************)
CompareTCPSeq(seq1, seq2) ==
    IF seq1 < TCPSeqWindow /\ seq2 > MaxTCPSeq - TCPSeqWindow
    THEN (seq1 + MaxTCPSeq - seq2) % Modulus
    ELSE IF seq2 < TCPSeqWindow /\ seq1 > MaxTCPSeq - TCPSeqWindow
    THEN (seq1 - (MaxTCPSeq + seq2)) % Modulus
    ELSE AsInt32((seq1 - seq2) % Modulus)

=============================================================================
