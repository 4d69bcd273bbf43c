---------------------------- MODULE TextFilters ----------------------------
(***************************************************************************)
(* The filters a user writes on the command line: the wildcards of names   *)
(* and the expressions for response times.  A text is a sequence of        *)
(* characters; a cost expression one of tokens, a token being a number or  *)
(* one of three signs.                                                     *)
(***************************************************************************)
EXTENDS Integers, Sequences

Any == "*"
One == "?"

From(s, i) == SubSeq(s, i, Len(s))

\* After the last character only asterisks may be left, from j on.
OnlyAsterisks(pattern, j) == \A k \in j .. Len(pattern) : pattern[k] = Any

\* The loop of WildcardMatch: i and j are the places in the text and in the
\* pattern, asterisk is the last asterisk met (0 for none) and match the place
\* where the text behind it is taken to begin.
LoopStart == [i |-> 1, j |-> 1, asterisk |-> 0, match |-> 1]

AtAsterisk(pattern, l) == l.j <= Len(pattern) /\ pattern[l.j] = Any
Fits(str, pattern, l) == l.j <= Len(pattern) /\ pattern[l.j] \in {str[l.i], One}

PastAsterisk(l) == [i |-> l.i, j |-> l.j + 1, asterisk |-> l.j, match |-> l.i]
PastCharacter(l) == [l EXCEPT !.i = @ + 1, !.j = @ + 1]

\* Fault: what was compared since the asterisk is not compared again.
BackToAsteriskFromHere(l) ==
    [l EXCEPT !.i = @ + 1, !.j = l.asterisk + 1, !.match = @ + 1]

\* The last asterisk takes one more character.
BackToAsterisk(l) ==
    [l EXCEPT !.i = l.match + 1, !.j = l.asterisk + 1, !.match = @ + 1]

\* What a character of a pattern stands for: an asterisk for any text, a
\* question mark for any character, and any other character for itself.  The
\* text is the one from i up to k, without k.
StandsFor(c, str, i, k) ==
    IF c = Any THEN i <= k ELSE k = i + 1 /\ c \in {str[i], One}

\* The pattern from j on denotes the text from i on: the text can be cut into
\* what the characters stand for.
DenotesFrom(pattern, j, str, i) ==
    \E cut \in [j .. Len(pattern) + 1 -> 1 .. Len(str) + 1] :
        /\ cut[j] = i
        /\ cut[Len(pattern) + 1] = Len(str) + 1
        /\ \A k \in j .. Len(pattern) : StandsFor(pattern[k], str, cut[k], cut[k + 1])

Denotes(pattern, str) == DenotesFrom(pattern, 1, str, 1)

-----------------------------------------------------------------------------
Plus == -1
Minus == -2
Space == -3

IsNumber(t) == t >= 0

\* strconv.ParseInt: a number with or without a sign.
Parses(s) ==
    \/ Len(s) = 1 /\ IsNumber(s[1])
    \/ Len(s) = 2 /\ s[1] \in {Plus, Minus} /\ IsNumber(s[2])

ParseInt(s) ==
    IF Len(s) = 1 THEN s[1] ELSE IF s[1] = Minus THEN -s[2] ELSE s[2]

TrimSpace(s) ==
    LET solid == {i \in 1 .. Len(s) : s[i] # Space} IN
    IF solid = {} THEN <<>>
    ELSE SubSeq(s, CHOOSE i \in solid : \A k \in solid : i <= k,
                   CHOOSE i \in solid : \A k \in solid : k <= i)

Before(s, i) == SubSeq(s, 1, i - 1)

Contains(s, t) == \E i \in 1 .. Len(s) : s[i] = t

First(s, t) == CHOOSE i \in 1 .. Len(s) : s[i] = t /\ \A k \in 1 .. i - 1 : s[k] # t

\* Fault: a leading minus is taken for the sign of an exact time.
MatchCostSigned(f, ms) ==
    LET n == Len(f)
        d == First(f, Minus) IN
    IF n = 0 THEN TRUE
    ELSE IF f[n] = Plus /\ Parses(Before(f, n)) THEN ms >= ParseInt(Before(f, n))
    ELSE IF f[n] = Minus /\ Parses(Before(f, n)) THEN ms <= ParseInt(Before(f, n))
    ELSE IF Parses(f) THEN ms = ParseInt(f)
    ELSE /\ Contains(f, Minus) /\ Parses(Before(f, d)) /\ Parses(From(f, d + 1))
         /\ ms >= ParseInt(Before(f, d)) /\ ms <= ParseInt(From(f, d + 1))

\* The forms in the order in which matchCost tries them on the trimmed
\* expression; one whose number does not parse gives way to the next.
MatchCost(f, ms) ==
    LET n == Len(f)
        d == First(f, Minus) IN
    IF n = 0 THEN TRUE
    ELSE IF f[n] = Plus /\ Parses(Before(f, n)) THEN ms >= ParseInt(Before(f, n))
    ELSE IF f[1] = Plus /\ Parses(From(f, 2)) THEN ms >= ParseInt(From(f, 2))
    ELSE IF f[n] = Minus /\ Parses(Before(f, n)) THEN ms <= ParseInt(Before(f, n))
    ELSE IF f[1] = Minus /\ ~Contains(From(f, 2), Minus) /\ Parses(From(f, 2))
         THEN ms <= ParseInt(From(f, 2))
    ELSE IF Contains(f, Minus) /\ Parses(Before(f, d)) /\ Parses(From(f, d + 1))
         THEN ms \in ParseInt(Before(f, d)) .. ParseInt(From(f, d + 1))
    ELSE Parses(f) => ms = ParseInt(f)

\* The times that the documented forms admit: "100+" and "+100", "100-" and
\* "-100", "50-200", "100", and no expression; All for any other text.
Admitted(f, All) ==
    LET n == Len(f) IN
    CASE n = 1 /\ IsNumber(f[1]) -> {f[1]}
      [] n = 2 /\ {f[1], f[2]} \cap Nat # {} /\ Plus \in {f[1], f[2]} ->
            {t \in All : \A i \in 1 .. 2 : IsNumber(f[i]) => t >= f[i]}
      [] n = 2 /\ {f[1], f[2]} \cap Nat # {} /\ Minus \in {f[1], f[2]} ->
            {t \in All : \A i \in 1 .. 2 : IsNumber(f[i]) => t <= f[i]}
      [] n = 3 /\ IsNumber(f[1]) /\ f[2] = Minus /\ IsNumber(f[3]) -> f[1] .. f[3]
      [] OTHER -> All

\* An expression of one of the documented forms, or one in which no number
\* can be read: not the likes of "-50-" or "50--200", where a sign is taken
\* for that of a number.
Documented(f) ==
    \/ Contains(f, Space)
    \/ \A i \in 1 .. Len(f) - 1 : {f[i], f[i + 1]} \cap Nat = {}
    \/ Len(f) = 2
    \/ Len(f) = 3 /\ IsNumber(f[1]) /\ f[2] = Minus /\ IsNumber(f[3])

=============================================================================
