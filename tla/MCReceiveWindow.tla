-------------------------- MODULE MCReceiveWindow --------------------------
(***************************************************************************)
(* Instances of ReceiveWindow for TLC.                                     *)
(***************************************************************************)
EXTENDS ReceiveWindow

Run(f, t) == [from |-> f, to |-> t]

\* Overlapping segments, one length per sequence number, and an empty packet:
\* the retransmissions of a sender that keeps its segment boundaries for each
\* sequence number.
StableSegments ==
    {Run(0, 2), Run(1, 3), Run(2, 3), Run(3, 5), Run(4, 5), Run(5, 5)}

\* One byte per segment, enough to grow the ring from one slot twice.
ByteSegments == {Run(0, 1), Run(1, 2), Run(2, 3), Run(3, 4)}

\* A retransmission that carries more bytes than the first transmission.
RepacketizedSegments == {Run(0, 2), Run(0, 3), Run(3, 4)}

=============================================================================
