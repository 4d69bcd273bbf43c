--------------------------- MODULE MCTCPAssembler ---------------------------
(***************************************************************************)
(* Instances of TCPAssembler for TLC.                                      *)
(***************************************************************************)
EXTENDS TCPAssembler

CONSTANTS k1, k2

OneKey == {k1}

TwoKeys == {k1, k2}

=============================================================================
