----------------------------- MODULE MCFraming -----------------------------
(***************************************************************************)
(* Instances of Framing for TLC.                                           *)
(***************************************************************************)
EXTENDS Framing

AllFormats == DOMAIN KindsOf

SmallBodies == {0, 1, 2, 4}

=============================================================================
