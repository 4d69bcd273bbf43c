----------------------------- MODULE MCHandlers -----------------------------
(***************************************************************************)
(* Instances of Handlers for TLC.                                          *)
(***************************************************************************)
EXTENDS Handlers

AllProtocols == DOMAIN ProfileOf

SeveralReads == {"mongo"}

OneRead == {"redis"}

\* Every trait on its own.
EveryTraffic ==
    {{}, {"oneway"}, {"heartbeat"}, {"hidden"}, {"repeat"}, {"bad"}}

PlainTraffic == {{}}

FilteredTraffic == {{}, {"hidden"}}

EveryAnswer == {<<"ok">>, <<"more", "ok">>, <<"bad">>}

PlainAnswer == {<<"ok">>}

NoFilter == {0 .. MaxTime}

\* No filter, and one that accepts only the slow exchanges.
EveryFilter == {0 .. MaxTime, {MaxTime}}

=============================================================================
