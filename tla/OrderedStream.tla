--------------------------- MODULE OrderedStream ---------------------------
(***************************************************************************)
(* What one direction of a reassembled connection promises its reader: an  *)
(* ordered byte stream.  The reader has been handed bytes up to offset     *)
(* `handed'; the next hand-over is a non-empty run of captured bytes at    *)
(* or after that offset, and directly at it when no byte that the          *)
(* receiver acknowledged is missing from the capture (Gapless).            *)
(***************************************************************************)
EXTENDS Integers

CONSTANTS
    StreamLen,  \* number of bytes the sender sends
    Gapless     \* TRUE when the capture misses no acknowledged byte

VARIABLES
    seen,       \* offsets of the bytes captured so far
    handed      \* first offset not yet handed to, or skipped over for, the reader

vars == <<seen, handed>>

Init == seen = {} /\ handed = 0

Capture ==
    /\ seen' \in SUBSET (0 .. StreamLen - 1)
    /\ seen \subseteq seen'
    /\ UNCHANGED handed

Hand(from, to) ==
    /\ handed <= from
    /\ Gapless => from = handed
    /\ from < to
    /\ from .. to - 1 \subseteq seen
    /\ handed' = to
    /\ UNCHANGED seen

Next ==
    \/ Capture
    \/ \E from \in 0 .. StreamLen - 1, to \in 1 .. StreamLen : Hand(from, to)

Spec == Init /\ [][Next]_vars

=============================================================================
