------------------------------ MODULE Matching ------------------------------
(***************************************************************************)
(* The decisions that the program takes about a name, a time, a            *)
(* connection, a header or a packet: the filters, the detection of the     *)
(* protocol, the layout of the flags of Dubbo and what is shown of MySQL.  *)
(* Each is called once with one of the given inputs.  WildcardMatch takes  *)
(* one step for each pass of its loop, the others return at once.          *)
(***************************************************************************)
EXTENDS TextFilters, Detectors, DubboHeaders, MySQLPackets

CONSTANTS
    Texts, Patterns,    \* for WildcardMatch
    Costs, Times,       \* for matchCost
    Heads,              \* first messages of connections
    Headers,            \* of Dubbo messages
    Packets             \* of MySQL

ASSUME TextsAssumption == \A t \in Texts \cup Patterns : t \in Seq(STRING)
ASSUME CostsAssumption == \A f \in Costs : f \in Seq({Plus, Minus, Space} \cup Nat)
ASSUME TimesAssumption == Times \subseteq Int
ASSUME HeadsAssumption == \A h \in Heads : IsFirstMessage(h)
ASSUME HeadersAssumption ==
    Headers \subseteq [apache : BOOLEAN, twoway : BOOLEAN, event : BOOLEAN,
                       status : Byte, length : Nat]
ASSUME PacketsAssumption == \A p \in Packets : IsPacket(p)

VARIABLES
    call,   \* the function called
    input,
    loop,   \* the local variables of WildcardMatch
    output,
    called

vars == <<call, input, loop, output, called>>

Uncalled ==
    /\ called = FALSE
    /\ output = <<>>
    /\ loop = LoopStart

MatchingInit ==
    /\ Uncalled
    /\ \/ call = "WildcardMatch" /\ input \in [str : Texts, pattern : Patterns]
       \/ call = "matchCost" /\ input \in [filter : Costs, ms : Times]
       \/ call = "detect" /\ input \in Heads
       \/ call = "dubboFlags" /\ input \in Headers
       \/ call = "mysql" /\ input \in Packets

\* The function f is called and returns result.
Returns(f, result) ==
    /\ call = f
    /\ ~called
    /\ called' = TRUE
    /\ output' = result
    /\ UNCHANGED <<call, input, loop>>

-----------------------------------------------------------------------------
\* The loop of WildcardMatch goes on while there is text left.
Looping ==
    /\ call = "WildcardMatch"
    /\ ~called
    /\ loop.i <= Len(input.str)

Asterisk == AtAsterisk(input.pattern, loop)
Character == Fits(input.str, input.pattern, loop)

\* A pass of the loop leaves l in its variables.
Pass(l) ==
    /\ loop' = l
    /\ UNCHANGED <<call, input, output, called>>

MeetAsterisk == Looping /\ Asterisk /\ Pass(PastAsterisk(loop))

MeetCharacter == Looping /\ ~Asterisk /\ Character /\ Pass(PastCharacter(loop))

GoBack ==
    /\ Looping
    /\ ~Asterisk
    /\ ~Character
    /\ loop.asterisk > 0
    /\ Pass(BackToAsterisk(loop))

GiveUp ==
    /\ Looping
    /\ ~Asterisk
    /\ ~Character
    /\ loop.asterisk = 0
    /\ Returns("WildcardMatch", FALSE)

EndOfText ==
    /\ call = "WildcardMatch"
    /\ loop.i > Len(input.str)
    /\ Returns("WildcardMatch", OnlyAsterisks(input.pattern, loop.j))

WildcardMatch == MeetAsterisk \/ MeetCharacter \/ GoBack \/ GiveUp \/ EndOfText

-----------------------------------------------------------------------------
MatchingNext ==
    \/ WildcardMatch
    \/ Returns("matchCost", MatchCost(TrimSpace(input.filter), input.ms))
    \/ Returns("detect", AutoDetect(input))
    \/ Returns("dubboFlags", FixupFlags(DubboHeader(input), FlagOf(input)))
    \/ Returns("mysql", ParsePacket(input))

MatchingSpec == MatchingInit /\ [][MatchingNext]_vars

Called(f) == called /\ call = f

-----------------------------------------------------------------------------
\* WildcardMatch, which goes back to the last asterisk only, accepts exactly
\* the texts that the pattern denotes from their first character to their last.
\* A README gives 'GET*' for "GET and HGET": the claim "wildcard" of Documented.
WildcardRight ==
    Called("WildcardMatch") => output = Denotes(input.pattern, input.str)

\* matchCost admits the times that the documented forms admit, in whatever
\* order it tries them, and every time if it can read no number; only what
\* has a sign too many is read as something else.
CostAsDocumented ==
    LET f == TrimSpace(input.filter) IN
    Called("matchCost") /\ Documented(f) =>
        output = (input.ms \in Admitted(f, Times))

\* Auto mode takes every first message for what it is, but for the cases that
\* TakenFor lists, in which an earlier detector is satisfied by less.  The
\* READMEs promise recognition, and another order: the claims "recognised" and
\* "order" of Documented.
DetectedExactly == Called("detect") => output = TakenFor(input)

\* A packet on whose payload the assembler creates a connection is recognised
\* by the auto handler too, from the first bytes of it.  The exception is a
\* MySQL login, accepted for its first byte only when the packet is complete.
CreatedIsHandled ==
    Called("detect") /\ Creates(input) =>
        \/ output # Unknown
        \/ /\ input.proto = "mysql"
           /\ input.len > PeekSize
           /\ input.bytes[5] \notin MySQLMarkers

\* Both layouts of a Dubbo header are understood if the body is large enough,
\* except for events that want no answer; with a small body, and in responses,
\* only that of Alibaba's Dubbo, unless it makes no difference.
DubboFlags ==
    Called("dubboFlags") =>
        (output.twoway = input.twoway /\ output.event = input.event
         <=> IF input.status = 0 /\ input.length > HeartbeatLimit
             THEN input.twoway \/ ~input.event
             ELSE ~input.apache \/ input.twoway = input.event)

\* A MySQL packet is shown as what it is, exactly if it is none of those of
\* which ShownOtherwise knows that something else is shown.  Of EOF packets and
\* plugins the comments say otherwise: the claims "eof" and "plugin" of
\* Documented.
MySQLShown ==
    Called("mysql") =>
        /\ output = Intended(input) <=> ~ShownOtherwise(input)
        /\ ShownOtherwise(input) => output.type = MistakenType(input)

=============================================================================
