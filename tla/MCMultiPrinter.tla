-------------------------- MODULE MCMultiPrinter --------------------------
(***************************************************************************)
(* Instances of MultiPrinter for TLC.                                      *)
(***************************************************************************)
EXTENDS MultiPrinter, TLC

CONSTANTS h1, h2, h3, redis, http

\* Two handlers of one protocol and one of another.
FileSenders == {h1, h2, h3}

FileProtocols == {redis, http}

FileProtocolOf == h1 :> redis @@ h2 :> redis @@ h3 :> http

=============================================================================
