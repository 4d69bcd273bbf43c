----------------------------- MODULE MCPrinter -----------------------------
(***************************************************************************)
(* Instances of Printer for TLC.                                           *)
(***************************************************************************)
EXTENDS Printer

CONSTANTS h1, h2, h3

ThreeSenders == {h1, h2, h3}

=============================================================================
