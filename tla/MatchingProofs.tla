--------------------------- MODULE MatchingProofs ---------------------------
(***************************************************************************)
(* The filters, the detection of the protocol, the layout of the flags of  *)
(* Dubbo and what is shown of MySQL, for every input of the kind that      *)
(* Matching assumes.                                                       *)
(***************************************************************************)
EXTENDS Matching, RecursionFacts, SequenceTheorems

-----------------------------------------------------------------------------
(***************************************************************************)
(* What a pattern denotes, one character at a time.                        *)
(***************************************************************************)

\* Behind its end a pattern denotes no text but the empty one.
LEMMA DenotesEnd ==
    ASSUME NEW pattern \in Seq(STRING), NEW str \in Seq(STRING), NEW i \in 1 .. Len(str) + 1
    PROVE  DenotesFrom(pattern, Len(pattern) + 1, str, i) <=> i = Len(str) + 1
  <1> DEFINE n == Len(pattern)
             m == Len(str)
  <1>1. n \in Nat /\ m \in Nat
    OBVIOUS
  <1> HIDE DEF n, m
  <1>2. ASSUME i = m + 1 PROVE DenotesFrom(pattern, n + 1, str, i)
    <2> DEFINE cut == [k \in n + 1 .. n + 1 |-> i]
    <2>1. cut \in [n + 1 .. n + 1 -> 1 .. m + 1] /\ cut[n + 1] = i
      BY <1>1, <1>2
    <2>2. n + 1 .. n = {}
      BY <1>1
    <2> HIDE DEF cut
    <2> QED
      BY <1>2, <2>1, <2>2 DEF DenotesFrom, n, m
  <1>3. ASSUME DenotesFrom(pattern, n + 1, str, i) PROVE i = m + 1
    BY <1>3 DEF DenotesFrom, n, m
  <1> QED
    BY <1>2, <1>3 DEF n, m

\* An asterisk stands for any text.
LEMMA DenotesAsterisk ==
    ASSUME NEW pattern \in Seq(STRING), NEW str \in Seq(STRING),
           NEW j \in 1 .. Len(pattern), NEW i \in 1 .. Len(str) + 1, pattern[j] = Any
    PROVE  DenotesFrom(pattern, j, str, i)
           <=> \E k \in i .. Len(str) + 1 : DenotesFrom(pattern, j + 1, str, k)
  <1> DEFINE n == Len(pattern)
             m == Len(str)
  <1>1. n \in Nat /\ m \in Nat /\ j \in 1 .. n /\ i \in 1 .. m + 1
    OBVIOUS
  <1> HIDE DEF n, m
  <1>2. ASSUME DenotesFrom(pattern, j, str, i)
        PROVE  \E k \in i .. m + 1 : DenotesFrom(pattern, j + 1, str, k)
    <2>1. PICK cut \in [j .. n + 1 -> 1 .. m + 1] :
              /\ cut[j] = i
              /\ cut[n + 1] = m + 1
              /\ \A k \in j .. n : StandsFor(pattern[k], str, cut[k], cut[k + 1])
      BY <1>2 DEF DenotesFrom, n, m
    <2> DEFINE rest == [k \in j + 1 .. n + 1 |-> cut[k]]
    <2>2. rest \in [j + 1 .. n + 1 -> 1 .. m + 1] /\ rest[n + 1] = m + 1
      BY <1>1, <2>1
    <2>3. ASSUME NEW k \in j + 1 .. n PROVE StandsFor(pattern[k], str, rest[k], rest[k + 1])
      <3>1. k \in j .. n /\ k \in j + 1 .. n + 1 /\ k + 1 \in j + 1 .. n + 1
        BY <1>1
      <3>2. rest[k] = cut[k] /\ rest[k + 1] = cut[k + 1]
        BY <3>1
      <3> QED
        BY <2>1, <3>1, <3>2
    <2>4. rest[j + 1] = cut[j + 1] /\ cut[j + 1] \in 1 .. m + 1
      BY <1>1
    <2> HIDE DEF rest
    <2>5. DenotesFrom(pattern, j + 1, str, cut[j + 1])
      BY <2>2, <2>3, <2>4 DEF DenotesFrom, n, m
    <2>6. i <= cut[j + 1]
      BY <1>1, <2>1 DEF StandsFor
    <2> QED
      BY <1>1, <2>4, <2>5, <2>6
  <1>3. ASSUME NEW k \in i .. m + 1, DenotesFrom(pattern, j + 1, str, k)
        PROVE  DenotesFrom(pattern, j, str, i)
    <2>1. PICK rest \in [j + 1 .. n + 1 -> 1 .. m + 1] :
              /\ rest[j + 1] = k
              /\ rest[n + 1] = m + 1
              /\ \A p \in j + 1 .. n : StandsFor(pattern[p], str, rest[p], rest[p + 1])
      BY <1>3 DEF DenotesFrom, n, m
    <2> DEFINE cut == [p \in j .. n + 1 |-> IF p = j THEN i ELSE rest[p]]
    <2>2. cut \in [j .. n + 1 -> 1 .. m + 1] /\ cut[j] = i /\ cut[n + 1] = m + 1
      BY <1>1, <2>1
    <2>3. ASSUME NEW p \in j .. n PROVE StandsFor(pattern[p], str, cut[p], cut[p + 1])
      <3>1. cut[p + 1] = rest[p + 1]
        BY <1>1
      <3>2. CASE p = j
        BY <1>1, <2>1, <2>2, <3>1, <3>2 DEF StandsFor
      <3>3. CASE p # j
        <4>1. cut[p] = rest[p] /\ p \in j + 1 .. n
          BY <1>1, <3>3
        <4> QED
          BY <2>1, <3>1, <4>1
      <3> QED
        BY <3>2, <3>3
    <2> HIDE DEF cut
    <2> QED
      BY <2>2, <2>3 DEF DenotesFrom, n, m
  <1> QED
    BY <1>2, <1>3 DEF n, m

\* Any other character stands for one.
LEMMA DenotesCharacter ==
    ASSUME NEW pattern \in Seq(STRING), NEW str \in Seq(STRING),
           NEW j \in 1 .. Len(pattern), NEW i \in 1 .. Len(str) + 1, pattern[j] # Any
    PROVE  DenotesFrom(pattern, j, str, i)
           <=> /\ i <= Len(str)
               /\ pattern[j] \in {str[i], One}
               /\ DenotesFrom(pattern, j + 1, str, i + 1)
  <1> DEFINE n == Len(pattern)
             m == Len(str)
  <1>1. n \in Nat /\ m \in Nat /\ j \in 1 .. n /\ i \in 1 .. m + 1
    OBVIOUS
  <1> HIDE DEF n, m
  <1>2. ASSUME DenotesFrom(pattern, j, str, i)
        PROVE  i <= m /\ pattern[j] \in {str[i], One} /\ DenotesFrom(pattern, j + 1, str, i + 1)
    <2>1. PICK cut \in [j .. n + 1 -> 1 .. m + 1] :
              /\ cut[j] = i
              /\ cut[n + 1] = m + 1
              /\ \A k \in j .. n : StandsFor(pattern[k], str, cut[k], cut[k + 1])
      BY <1>2 DEF DenotesFrom, n, m
    <2>2. StandsFor(pattern[j], str, i, cut[j + 1])
      BY <1>1, <2>1
    <2>3. cut[j + 1] = i + 1 /\ pattern[j] \in {str[i], One}
      BY <2>2 DEF StandsFor
    <2>4. cut[j + 1] \in 1 .. m + 1
      BY <1>1
    <2> DEFINE rest == [k \in j + 1 .. n + 1 |-> cut[k]]
    <2>5. /\ rest \in [j + 1 .. n + 1 -> 1 .. m + 1]
          /\ rest[n + 1] = m + 1
          /\ rest[j + 1] = i + 1
      BY <1>1, <2>1, <2>3
    <2>6. ASSUME NEW k \in j + 1 .. n PROVE StandsFor(pattern[k], str, rest[k], rest[k + 1])
      <3>1. k \in j .. n /\ k \in j + 1 .. n + 1 /\ k + 1 \in j + 1 .. n + 1
        BY <1>1
      <3>2. rest[k] = cut[k] /\ rest[k + 1] = cut[k + 1]
        BY <3>1
      <3> QED
        BY <2>1, <3>1, <3>2
    <2> HIDE DEF rest
    <2>7. DenotesFrom(pattern, j + 1, str, i + 1)
      BY <2>5, <2>6 DEF DenotesFrom, n, m
    <2> QED
      BY <1>1, <2>3, <2>4, <2>7
  <1>3. ASSUME i <= m, pattern[j] \in {str[i], One}, DenotesFrom(pattern, j + 1, str, i + 1)
        PROVE  DenotesFrom(pattern, j, str, i)
    <2>1. PICK rest \in [j + 1 .. n + 1 -> 1 .. m + 1] :
              /\ rest[j + 1] = i + 1
              /\ rest[n + 1] = m + 1
              /\ \A p \in j + 1 .. n : StandsFor(pattern[p], str, rest[p], rest[p + 1])
      BY <1>3 DEF DenotesFrom, n, m
    <2> DEFINE cut == [p \in j .. n + 1 |-> IF p = j THEN i ELSE rest[p]]
    <2>2. cut \in [j .. n + 1 -> 1 .. m + 1] /\ cut[j] = i /\ cut[n + 1] = m + 1
      BY <1>1, <2>1
    <2>3. ASSUME NEW p \in j .. n PROVE StandsFor(pattern[p], str, cut[p], cut[p + 1])
      <3>1. cut[p + 1] = rest[p + 1]
        BY <1>1
      <3>2. CASE p = j
        <4>1. cut[p] = i /\ cut[p + 1] = i + 1
          BY <2>1, <2>2, <3>1, <3>2
        <4> QED
          BY <1>3, <3>2, <4>1 DEF StandsFor
      <3>3. CASE p # j
        <4>1. cut[p] = rest[p] /\ p \in j + 1 .. n
          BY <1>1, <3>3
        <4> QED
          BY <2>1, <3>1, <4>1
      <3> QED
        BY <3>2, <3>3
    <2> HIDE DEF cut
    <2> QED
      BY <2>2, <2>3 DEF DenotesFrom, n, m
  <1> QED
    BY <1>2, <1>3 DEF n, m

\* What a pattern begins with up to its next asterisk stands for as many
\* characters.
LEMMA DenotesUpTo ==
    ASSUME NEW pattern \in Seq(STRING), NEW str \in Seq(STRING),
           NEW j \in 1 .. Len(pattern) + 1, NEW i \in 1 .. Len(str) + 1,
           NEW c \in Nat, j + c <= Len(pattern) + 1,
           \A k \in j .. j + c - 1 : pattern[k] # Any,
           DenotesFrom(pattern, j, str, i)
    PROVE  i + c <= Len(str) + 1 /\ DenotesFrom(pattern, j + c, str, i + c)
  <1> DEFINE n == Len(pattern)
             m == Len(str)
             Done(d) == i + d <= m + 1 /\ DenotesFrom(pattern, j + d, str, i + d)
             G == {d \in Nat : d <= c => Done(d)}
  <1>1. n \in Nat /\ m \in Nat /\ j \in 1 .. n + 1 /\ i \in 1 .. m + 1 /\ j + c <= n + 1
    OBVIOUS
  <1>2. 0 \in G
    <2>1. j + 0 = j /\ i + 0 = i
      OBVIOUS
    <2>2. Done(0)
      BY <1>1, <2>1
    <2> QED
      BY <2>2
  <1>3. ASSUME NEW d \in Nat, d \in G PROVE d + 1 \in G
    <2> SUFFICES ASSUME d + 1 <= c PROVE Done(d + 1)
      OBVIOUS
    <2>1. i + d <= m + 1 /\ DenotesFrom(pattern, j + d, str, i + d)
      BY <1>3
    <2> DEFINE p == j + d
               q == i + d
    <2>2. p \in 1 .. n /\ q \in 1 .. m + 1 /\ p \in j .. j + c - 1
      BY <1>1, <2>1
    <2>3. p + 1 = j + (d + 1) /\ q + 1 = i + (d + 1)
      OBVIOUS
    <2>4. pattern[p] # Any
      BY <2>2
    <2>5. DenotesFrom(pattern, p, str, q)
      BY <2>1
    <2> HIDE DEF p, q
    <2>6. q <= m /\ DenotesFrom(pattern, p + 1, str, q + 1)
      BY <2>2, <2>4, <2>5, DenotesCharacter
    <2>7. q + 1 <= m + 1
      BY <1>1, <2>2, <2>6
    <2> QED
      BY <2>3, <2>6, <2>7
  <1> HIDE DEF G
  <1>4. \A d \in Nat : d \in G
    BY <1>2, <1>3, SetInduction
  <1> QED
    BY <1>4 DEF G

\* Nothing but asterisks denotes the empty text.
LEMMA DenotesEmpty ==
    ASSUME NEW pattern \in Seq(STRING), NEW str \in Seq(STRING),
           NEW j \in 1 .. Len(pattern) + 1
    PROVE  DenotesFrom(pattern, j, str, Len(str) + 1) <=> OnlyAsterisks(pattern, j)
  <1> DEFINE n == Len(pattern)
             m == Len(str)
             Right(k) == DenotesFrom(pattern, k, str, m + 1) <=> OnlyAsterisks(pattern, k)
             G == {d \in Nat : d <= n => Right(n + 1 - d)}
  <1>1. n \in Nat /\ m \in Nat /\ j \in 1 .. n + 1
    OBVIOUS
  <1>2. 0 \in G
    <2>1. n + 1 - 0 = n + 1 /\ n + 1 .. n = {} /\ m + 1 \in 1 .. m + 1
      BY <1>1
    <2>2. DenotesFrom(pattern, n + 1, str, m + 1)
      BY <2>1, DenotesEnd
    <2>3. OnlyAsterisks(pattern, n + 1)
      BY <2>1 DEF OnlyAsterisks
    <2>4. Right(n + 1 - 0)
      BY <2>1, <2>2, <2>3
    <2> QED
      BY <2>4
  <1>3. ASSUME NEW d \in Nat, d \in G PROVE d + 1 \in G
    <2> SUFFICES ASSUME d + 1 <= n PROVE Right(n + 1 - (d + 1))
      OBVIOUS
    <2> DEFINE p == n - d
    <2>1. p \in 1 .. n /\ n + 1 - d = p + 1 /\ n + 1 - (d + 1) = p /\ m + 1 \in 1 .. m + 1
      BY <1>1
    <2>2. Right(p + 1)
      BY <1>1, <1>3, <2>1
    <2> HIDE DEF p
    <2>3. OnlyAsterisks(pattern, p) <=> pattern[p] = Any /\ OnlyAsterisks(pattern, p + 1)
      <3>1. \A k : k \in p .. n <=> k = p \/ k \in p + 1 .. n
        BY <1>1, <2>1
      <3> HIDE DEF n
      <3>2. (\A k \in p .. n : pattern[k] = Any)
            <=> pattern[p] = Any /\ \A k \in p + 1 .. n : pattern[k] = Any
        BY <3>1, Zenon
      <3> QED
        BY <3>2 DEF OnlyAsterisks, n
    <2>4. CASE pattern[p] = Any
      <3>1. DenotesFrom(pattern, p, str, m + 1)
            <=> \E k \in m + 1 .. m + 1 : DenotesFrom(pattern, p + 1, str, k)
        BY <2>1, <2>4, DenotesAsterisk
      <3>2. \A k : k \in m + 1 .. m + 1 <=> k = m + 1
        BY <1>1
      <3>3. DenotesFrom(pattern, p, str, m + 1) <=> DenotesFrom(pattern, p + 1, str, m + 1)
        BY <3>1, <3>2, Zenon
      <3> QED
        BY <2>1, <2>2, <2>3, <2>4, <3>3
    <2>5. CASE pattern[p] # Any
      <3>1. ~DenotesFrom(pattern, p, str, m + 1)
        BY <1>1, <2>1, <2>5, DenotesCharacter
      <3> QED
        BY <2>1, <2>3, <2>5, <3>1
    <2> QED
      BY <2>4, <2>5
  <1> HIDE DEF G
  <1>4. \A d \in Nat : d \in G
    BY <1>2, <1>3, SetInduction
  <1>5. n + 1 - j \in Nat /\ n + 1 - j <= n /\ n + 1 - (n + 1 - j) = j
    BY <1>1
  <1>6. Right(n + 1 - (n + 1 - j))
    BY <1>4, <1>5 DEF G
  <1> QED
    BY <1>5, <1>6

-----------------------------------------------------------------------------
(***************************************************************************)
(* The loop of WildcardMatch.  What it has still to find out is whether    *)
(* the rest of the pattern denotes the rest of the text, or what follows   *)
(* the last asterisk denotes the text from a later place on.  That no      *)
(* earlier asterisk need be tried again rests on what was compared since   *)
(* the last one, which is as long in the pattern as in the text.           *)
(***************************************************************************)
LoopType(str, pattern) ==
    [i : 1 .. Len(str) + 1, j : 1 .. Len(pattern) + 1,
     asterisk : 0 .. Len(pattern), match : 1 .. Len(str) + 1]

Compared(pattern, l) ==
    l.asterisk > 0 =>
        /\ l.match <= l.i
        /\ l.j - l.asterisk - 1 = l.i - l.match
        /\ \A k \in l.asterisk + 1 .. l.j - 1 : pattern[k] # Any

Later(str, pattern, l) ==
    /\ l.asterisk > 0
    /\ \E k \in l.match + 1 .. Len(str) + 1 : DenotesFrom(pattern, l.asterisk + 1, str, k)

Left(str, pattern, l) == DenotesFrom(pattern, l.j, str, l.i) \/ Later(str, pattern, l)

\* What was compared since the last asterisk is passed once more by any later
\* attempt, which so ends behind the place that the loop has reached.
LEMMA LaterIsBehind ==
    ASSUME NEW pattern \in Seq(STRING), NEW str \in Seq(STRING),
           NEW l \in LoopType(str, pattern), Compared(pattern, l), Later(str, pattern, l)
    PROVE  \E k \in l.i + 1 .. Len(str) + 1 : DenotesFrom(pattern, l.j, str, k)
  <1> DEFINE n == Len(pattern)
             m == Len(str)
             i == l.i
             j == l.j
             a == l.asterisk
             s == l.match
             b == a + 1
             c == j - b
  <1>1. /\ m \in Nat /\ n \in Nat /\ i \in 1 .. m + 1 /\ j \in 1 .. n + 1
        /\ a \in 0 .. n /\ s \in 1 .. m + 1
    BY DEF LoopType
  <1>2. a > 0 /\ s <= i /\ j - a - 1 = i - s
    BY DEF Compared, Later
  <1>3. \A p \in a + 1 .. j - 1 : pattern[p] # Any
    BY DEF Compared, Later
  <1>4. PICK k \in s + 1 .. m + 1 : DenotesFrom(pattern, b, str, k)
    BY DEF Later
  <1> HIDE DEF n, m, i, j, a, s
  <1>5. c \in Nat /\ c = i - s /\ b + c = j
    BY <1>1, <1>2
  <1>6. b \in 1 .. n + 1 /\ k \in 1 .. m + 1 /\ b + c <= n + 1
    BY <1>1, <1>2, <1>5
  <1>7. \A p \in b .. b + c - 1 : pattern[p] # Any
    <2>1. b + c - 1 = j - 1
      BY <1>1, <1>5
    <2> HIDE DEF c
    <2> QED
      BY <1>3, <2>1
  <1> HIDE DEF b, c
  <1>8. k + c <= m + 1 /\ DenotesFrom(pattern, b + c, str, k + c)
    BY <1>4, <1>5, <1>6, <1>7, DenotesUpTo DEF n, m
  <1>9. k + c \in i + 1 .. m + 1
    BY <1>1, <1>2, <1>5, <1>8
  <1> QED
    BY <1>5, <1>8, <1>9 DEF i, j, m

\* At an asterisk the pass keeps what is left to find out.
LEMMA PastAsteriskKeeps ==
    ASSUME NEW pattern \in Seq(STRING), NEW str \in Seq(STRING),
           NEW l \in LoopType(str, pattern), Compared(pattern, l),
           l.i <= Len(str), AtAsterisk(pattern, l)
    PROVE  LET after == PastAsterisk(l) IN
           /\ after \in LoopType(str, pattern)
           /\ Compared(pattern, after)
           /\ Left(str, pattern, after) <=> Left(str, pattern, l)
  <1> DEFINE n == Len(pattern)
             m == Len(str)
             after == PastAsterisk(l)
  <1>1. /\ m \in Nat /\ n \in Nat
        /\ l.i \in 1 .. m + 1 /\ l.j \in 1 .. n + 1
        /\ l.asterisk \in 0 .. n /\ l.match \in 1 .. m + 1
    BY DEF LoopType
  <1>2. l.j \in 1 .. n /\ pattern[l.j] = Any
    BY <1>1 DEF AtAsterisk
  <1>3. after.i = l.i /\ after.j = l.j + 1 /\ after.asterisk = l.j /\ after.match = l.i
    BY DEF PastAsterisk
  <1>4. after \in LoopType(str, pattern)
    BY <1>1, <1>2 DEF PastAsterisk, LoopType
  <1>5. Compared(pattern, after)
    <2>1. l.j + 1 .. (l.j + 1) - 1 = {} /\ (l.j + 1) - l.j - 1 = l.i - l.i /\ l.i <= l.i
      BY <1>1
    <2> QED
      BY <1>3, <2>1 DEF Compared
  <1>6. DenotesFrom(pattern, l.j, str, l.i)
        <=> \E k \in l.i .. m + 1 : DenotesFrom(pattern, l.j + 1, str, k)
    BY <1>1, <1>2, DenotesAsterisk
  <1>7. Left(str, pattern, after)
        <=> \/ DenotesFrom(pattern, l.j + 1, str, l.i)
            \/ \E k \in l.i + 1 .. m + 1 : DenotesFrom(pattern, l.j + 1, str, k)
    <2>1. l.j > 0
      BY <1>1
    <2> QED
      BY <1>3, <2>1 DEF Left, Later
  <1>8. \A k : k \in l.i .. m + 1 <=> k = l.i \/ k \in l.i + 1 .. m + 1
    BY <1>1
  <1>9. Left(str, pattern, after) <=> DenotesFrom(pattern, l.j, str, l.i)
    <2> HIDE DEF after, m
    <2> QED
      BY <1>6, <1>7, <1>8, Zenon
  <1>10. ASSUME Later(str, pattern, l) PROVE DenotesFrom(pattern, l.j, str, l.i)
    <2>1. PICK k \in l.i + 1 .. m + 1 : DenotesFrom(pattern, l.j, str, k)
      BY <1>10, LaterIsBehind
    <2>2. k \in 1 .. m + 1
      BY <1>1
    <2>3. PICK q \in k .. m + 1 : DenotesFrom(pattern, l.j + 1, str, q)
      BY <1>2, <2>1, <2>2, DenotesAsterisk
    <2>4. q \in l.i .. m + 1
      BY <1>1, <2>2
    <2> QED
      BY <1>6, <2>3, <2>4
  <1> QED
    BY <1>4, <1>5, <1>9, <1>10 DEF Left

\* So does it at a character that fits.
LEMMA PastCharacterKeeps ==
    ASSUME NEW pattern \in Seq(STRING), NEW str \in Seq(STRING),
           NEW l \in LoopType(str, pattern), Compared(pattern, l),
           l.i <= Len(str), ~AtAsterisk(pattern, l), Fits(str, pattern, l)
    PROVE  LET after == PastCharacter(l) IN
           /\ after \in LoopType(str, pattern)
           /\ Compared(pattern, after)
           /\ Left(str, pattern, after) <=> Left(str, pattern, l)
  <1> DEFINE n == Len(pattern)
             m == Len(str)
             after == PastCharacter(l)
  <1>1. /\ m \in Nat /\ n \in Nat
        /\ l.i \in 1 .. m + 1 /\ l.j \in 1 .. n + 1
        /\ l.asterisk \in 0 .. n /\ l.match \in 1 .. m + 1
    BY DEF LoopType
  <1>2. l.j \in 1 .. n /\ pattern[l.j] # Any /\ pattern[l.j] \in {str[l.i], One}
    BY <1>1 DEF AtAsterisk, Fits
  <1>3. after.i = l.i + 1 /\ after.j = l.j + 1 /\ after.asterisk = l.asterisk /\ after.match = l.match
    BY DEF PastCharacter, LoopType
  <1>4. after \in LoopType(str, pattern)
    <2>1. l.i + 1 \in 1 .. m + 1 /\ l.j + 1 \in 1 .. n + 1
      BY <1>1, <1>2, SMTT(60)
    <2> QED
      BY <2>1 DEF PastCharacter, LoopType
  <1>5. Compared(pattern, after)
    <2> SUFFICES ASSUME l.asterisk > 0
                 PROVE  /\ l.match <= l.i + 1
                        /\ (l.j + 1) - l.asterisk - 1 = (l.i + 1) - l.match
                        /\ \A k \in l.asterisk + 1 .. (l.j + 1) - 1 : pattern[k] # Any
      BY <1>3 DEF Compared
    <2>1. /\ l.match <= l.i /\ l.j - l.asterisk - 1 = l.i - l.match
          /\ \A k \in l.asterisk + 1 .. l.j - 1 : pattern[k] # Any
      BY DEF Compared
    <2>2. \A k \in l.asterisk + 1 .. (l.j + 1) - 1 : k = l.j \/ k \in l.asterisk + 1 .. l.j - 1
      BY <1>1
    <2>3. \A k \in l.asterisk + 1 .. (l.j + 1) - 1 : pattern[k] # Any
      BY <1>2, <2>1, <2>2
    <2>4. l.match <= l.i + 1 /\ (l.j + 1) - l.asterisk - 1 = (l.i + 1) - l.match
      <3> DEFINE i == l.i
                 j == l.j
                 a == l.asterisk
                 q == l.match
      <3>1. i \in Int /\ j \in Int /\ a \in Int /\ q \in Int /\ q <= i /\ j - a - 1 = i - q
        BY <1>1, <2>1
      <3> HIDE DEF i, j, a, q
      <3>2. q <= i + 1 /\ (j + 1) - a - 1 = (i + 1) - q
        BY <3>1
      <3> QED
        BY <3>2 DEF i, j, a, q
    <2> QED
      BY <2>3, <2>4
  <1>6. DenotesFrom(pattern, l.j, str, l.i) <=> DenotesFrom(pattern, l.j + 1, str, l.i + 1)
    BY <1>1, <1>2, DenotesCharacter
  <1>7. Later(str, pattern, after) <=> Later(str, pattern, l)
    BY <1>3 DEF Later
  <1> QED
    BY <1>3, <1>4, <1>5, <1>6, <1>7 DEF Left

\* Where nothing fits, what is left is what the last asterisk allows, and with
\* none there is nothing.
LEMMA NothingFits ==
    ASSUME NEW pattern \in Seq(STRING), NEW str \in Seq(STRING),
           NEW l \in LoopType(str, pattern),
           l.i <= Len(str), ~AtAsterisk(pattern, l), ~Fits(str, pattern, l)
    PROVE  ~DenotesFrom(pattern, l.j, str, l.i)
  <1> DEFINE n == Len(pattern)
             m == Len(str)
  <1>1. m \in Nat /\ n \in Nat /\ l.i \in 1 .. m + 1 /\ l.j \in 1 .. n + 1
    BY DEF LoopType
  <1>2. CASE l.j = n + 1
    BY <1>1, <1>2, DenotesEnd
  <1>3. CASE l.j # n + 1
    <2>1. l.j \in 1 .. n /\ pattern[l.j] # Any /\ pattern[l.j] \notin {str[l.i], One}
      BY <1>1, <1>3 DEF AtAsterisk, Fits
    <2> QED
      BY <1>1, <2>1, DenotesCharacter
  <1> QED
    BY <1>2, <1>3

LEMMA BackToAsteriskKeeps ==
    ASSUME NEW pattern \in Seq(STRING), NEW str \in Seq(STRING),
           NEW l \in LoopType(str, pattern), Compared(pattern, l), l.i <= Len(str),
           ~AtAsterisk(pattern, l), ~Fits(str, pattern, l), l.asterisk > 0
    PROVE  LET after == BackToAsterisk(l) IN
           /\ after \in LoopType(str, pattern)
           /\ Compared(pattern, after)
           /\ Left(str, pattern, after) <=> Left(str, pattern, l)
  <1> DEFINE n == Len(pattern)
             m == Len(str)
             after == BackToAsterisk(l)
             a == l.asterisk
             s == l.match + 1
  <1>1. /\ m \in Nat /\ n \in Nat
        /\ l.i \in 1 .. m + 1 /\ l.j \in 1 .. n + 1
        /\ a \in 1 .. n /\ l.match \in 1 .. m + 1 /\ l.match <= l.i
    BY DEF LoopType, Compared
  <1>2. after.i = s /\ after.j = a + 1 /\ after.asterisk = a /\ after.match = s
    BY DEF BackToAsterisk, LoopType
  <1>3. s \in 1 .. m + 1 /\ a + 1 \in 1 .. n + 1
    BY <1>1
  <1>4. after \in LoopType(str, pattern)
    BY <1>1, <1>3 DEF BackToAsterisk, LoopType
  <1>5. Compared(pattern, after)
    <2>1. a + 1 .. (a + 1) - 1 = {} /\ (a + 1) - a - 1 = s - s /\ s <= s
      BY <1>1, <1>3
    <2> QED
      BY <1>2, <2>1 DEF Compared
  <1>6. \A k : k \in s .. m + 1 <=> k = s \/ k \in s + 1 .. m + 1
    BY <1>3, <1>1
  <1>7. Left(str, pattern, after)
        <=> \/ DenotesFrom(pattern, a + 1, str, s)
            \/ \E k \in s + 1 .. m + 1 : DenotesFrom(pattern, a + 1, str, k)
    BY <1>2 DEF Left, Later
  <1>8. Left(str, pattern, l) <=> \E k \in s .. m + 1 : DenotesFrom(pattern, a + 1, str, k)
    BY NothingFits DEF Left, Later
  <1> HIDE DEF m, s, a, after
  <1>9. Left(str, pattern, after) <=> Left(str, pattern, l)
    BY <1>6, <1>7, <1>8, Zenon
  <1> QED
    BY <1>4, <1>5, <1>9 DEF after

\* At the end of the text only asterisks may be left of the pattern.
LEMMA EndOfTextDecides ==
    ASSUME NEW pattern \in Seq(STRING), NEW str \in Seq(STRING),
           NEW l \in LoopType(str, pattern), Compared(pattern, l), l.i > Len(str)
    PROVE  OnlyAsterisks(pattern, l.j) <=> Left(str, pattern, l)
  <1>1. /\ Len(str) \in Nat /\ Len(pattern) \in Nat
        /\ l.i \in 1 .. Len(str) + 1 /\ l.j \in 1 .. Len(pattern) + 1
    BY DEF LoopType
  <1>2. l.i = Len(str) + 1
    BY <1>1
  <1>3. DenotesFrom(pattern, l.j, str, l.i) <=> OnlyAsterisks(pattern, l.j)
    BY <1>1, <1>2, DenotesEmpty
  <1>4. ASSUME Later(str, pattern, l) PROVE FALSE
    <2>1. PICK k \in l.i + 1 .. Len(str) + 1 : DenotesFrom(pattern, l.j, str, k)
      BY <1>4, LaterIsBehind
    <2> QED
      BY <1>1, <1>2
  <1> QED
    BY <1>3, <1>4 DEF Left

-----------------------------------------------------------------------------
(***************************************************************************)
(* The inductive invariant of a call of WildcardMatch.                     *)
(***************************************************************************)
WildcardInv ==
    call = "WildcardMatch" =>
        /\ input \in [str : Seq(STRING), pattern : Seq(STRING)]
        /\ loop \in LoopType(input.str, input.pattern)
        /\ Compared(input.pattern, loop)
        /\ called \in BOOLEAN
        /\ ~called => (Left(input.str, input.pattern, loop) <=> Denotes(input.pattern, input.str))
        /\ called => output = Denotes(input.pattern, input.str)

LEMMA WildcardInit == MatchingInit => WildcardInv
  <1> SUFFICES ASSUME MatchingInit, call = "WildcardMatch" PROVE WildcardInv
    BY DEF WildcardInv
  <1> DEFINE str == input.str
             pattern == input.pattern
  <1>1. /\ input \in [str : Texts, pattern : Patterns]
        /\ called = FALSE /\ loop = LoopStart
    BY DEF MatchingInit, Uncalled
  <1>2. str \in Seq(STRING) /\ pattern \in Seq(STRING)
    BY <1>1, TextsAssumption
  <1>3. input \in [str : Seq(STRING), pattern : Seq(STRING)]
    BY <1>1, TextsAssumption
  <1>4. loop.i = 1 /\ loop.j = 1 /\ loop.asterisk = 0
    BY <1>1 DEF LoopStart
  <1>5. loop \in LoopType(str, pattern)
    <2>1. Len(str) \in Nat /\ Len(pattern) \in Nat
      BY <1>2
    <2> HIDE DEF str, pattern
    <2>2. 1 \in 1 .. Len(str) + 1 /\ 1 \in 1 .. Len(pattern) + 1 /\ 0 \in 0 .. Len(pattern)
      BY <2>1
    <2> QED
      BY <1>1, <2>2 DEF LoopStart, LoopType
  <1>6. Compared(pattern, loop) /\ ~Later(str, pattern, loop)
    BY <1>4 DEF Compared, Later
  <1>7. Left(str, pattern, loop) <=> Denotes(pattern, str)
    BY <1>4, <1>6 DEF Left, Denotes
  <1> QED
    BY <1>1, <1>3, <1>5, <1>6, <1>7 DEF WildcardInv

LEMMA WildcardStep == WildcardInv /\ [MatchingNext]_vars => WildcardInv'
  <1> SUFFICES ASSUME WildcardInv, [MatchingNext]_vars PROVE WildcardInv'
    OBVIOUS
  <1> DEFINE str == input.str
             pattern == input.pattern
  <1>1. ASSUME call' = call, call # "WildcardMatch" PROVE WildcardInv'
    BY <1>1 DEF WildcardInv
  <1>2. CASE UNCHANGED vars
    BY <1>2 DEF WildcardInv, vars
  <1>3. ASSUME call = "WildcardMatch"
        PROVE  str \in Seq(STRING) /\ pattern \in Seq(STRING) /\ loop \in LoopType(str, pattern)
               /\ Compared(pattern, loop)
    BY <1>3 DEF WildcardInv
  <1>4. CASE MeetAsterisk
    <2>1. /\ call = "WildcardMatch" /\ ~called /\ loop.i <= Len(str) /\ AtAsterisk(pattern, loop)
          /\ loop' = PastAsterisk(loop) /\ UNCHANGED <<call, input, output, called>>
      BY <1>4 DEF MeetAsterisk, Looping, Asterisk, Pass
    <2>2. /\ loop' \in LoopType(str, pattern) /\ Compared(pattern, loop')
          /\ Left(str, pattern, loop') <=> Left(str, pattern, loop)
      BY <1>3, <2>1, PastAsteriskKeeps
    <2> QED
      BY <2>1, <2>2 DEF WildcardInv
  <1>5. CASE MeetCharacter
    <2>1. /\ call = "WildcardMatch" /\ ~called /\ loop.i <= Len(str) /\ ~AtAsterisk(pattern, loop)
          /\ Fits(str, pattern, loop)
          /\ loop' = PastCharacter(loop) /\ UNCHANGED <<call, input, output, called>>
      BY <1>5 DEF MeetCharacter, Looping, Asterisk, Character, Pass
    <2>2. /\ loop' \in LoopType(str, pattern) /\ Compared(pattern, loop')
          /\ Left(str, pattern, loop') <=> Left(str, pattern, loop)
      BY <1>3, <2>1, PastCharacterKeeps
    <2> QED
      BY <2>1, <2>2 DEF WildcardInv
  <1>6. CASE GoBack
    <2>1. /\ call = "WildcardMatch" /\ ~called /\ loop.i <= Len(str) /\ ~AtAsterisk(pattern, loop)
          /\ ~Fits(str, pattern, loop) /\ loop.asterisk > 0
          /\ loop' = BackToAsterisk(loop) /\ UNCHANGED <<call, input, output, called>>
      BY <1>6 DEF GoBack, Looping, Asterisk, Character, Pass
    <2>2. /\ loop' \in LoopType(str, pattern) /\ Compared(pattern, loop')
          /\ Left(str, pattern, loop') <=> Left(str, pattern, loop)
      BY <1>3, <2>1, BackToAsteriskKeeps
    <2> QED
      BY <2>1, <2>2 DEF WildcardInv
  <1>7. CASE GiveUp
    <2>1. /\ call = "WildcardMatch" /\ ~called /\ loop.i <= Len(str) /\ ~AtAsterisk(pattern, loop)
          /\ ~Fits(str, pattern, loop) /\ loop.asterisk = 0
          /\ called' = TRUE /\ output' = FALSE /\ UNCHANGED <<call, input, loop>>
      BY <1>7 DEF GiveUp, Looping, Asterisk, Character, Returns
    <2>2. ~Left(str, pattern, loop)
      <3>1. ~DenotesFrom(pattern, loop.j, str, loop.i)
        BY <1>3, <2>1, NothingFits
      <3> QED
        BY <2>1, <3>1 DEF Left, Later
    <2>3. ~Denotes(pattern, str)
      BY <2>1, <2>2 DEF WildcardInv
    <2>4. output' = Denotes(pattern, str)
      <3>1. Denotes(pattern, str) \in BOOLEAN
        BY DEF Denotes, DenotesFrom
      <3> QED
        BY <2>1, <2>3, <3>1
    <2> QED
      BY <2>1, <2>4 DEF WildcardInv
  <1>8. CASE EndOfText
    <2>1. /\ call = "WildcardMatch" /\ ~called /\ loop.i > Len(str)
          /\ called' = TRUE /\ output' = OnlyAsterisks(pattern, loop.j)
          /\ UNCHANGED <<call, input, loop>>
      BY <1>8 DEF EndOfText, Returns
    <2>2. OnlyAsterisks(pattern, loop.j) <=> Denotes(pattern, str)
      <3>1. OnlyAsterisks(pattern, loop.j) <=> Left(str, pattern, loop)
        BY <1>3, <2>1, EndOfTextDecides
      <3> QED
        BY <2>1, <3>1 DEF WildcardInv
    <2>3. OnlyAsterisks(pattern, loop.j) = Denotes(pattern, str)
      <3>1. OnlyAsterisks(pattern, loop.j) \in BOOLEAN /\ Denotes(pattern, str) \in BOOLEAN
        BY DEF OnlyAsterisks, Denotes, DenotesFrom
      <3> QED
        BY <2>2, <3>1
    <2> QED
      BY <2>1, <2>3 DEF WildcardInv
  <1>9. CASE \/ Returns("matchCost", MatchCost(TrimSpace(input.filter), input.ms))
             \/ Returns("detect", AutoDetect(input))
             \/ Returns("dubboFlags", FixupFlags(DubboHeader(input), FlagOf(input)))
             \/ Returns("mysql", ParsePacket(input))
    <2>1. call' = call /\ call # "WildcardMatch"
      BY <1>9 DEF Returns
    <2> QED
      BY <1>1, <2>1
  <1> QED
    BY <1>2, <1>4, <1>5, <1>6, <1>7, <1>8, <1>9 DEF MatchingNext, WildcardMatch

\* WildcardMatch returns TRUE for exactly the texts that the pattern denotes,
\* whatever the text and the pattern are.
THEOREM WildcardIsRight == MatchingSpec => []WildcardRight
  <1>1. WildcardInv => WildcardRight
    BY DEF WildcardInv, WildcardRight, Called
  <1> QED
    BY <1>1, WildcardInit, WildcardStep, PTL DEF MatchingSpec

\* The order in which the loop runs through the values of its variables: it
\* goes on to a later asterisk, or lets the same one take more text, or goes
\* on in the text.
Advances(l, after) ==
    \/ l.asterisk < after.asterisk
    \/ /\ l.asterisk = after.asterisk
       /\ \/ l.match < after.match
          \/ l.match = after.match /\ l.i < after.i

\* Every pass of the loop of WildcardMatch advances in this order, in which
\* the variables are bounded by the lengths of the pattern and the text.  So
\* the loop ends, although it goes back in the text.
THEOREM WildcardLoopEnds ==
    MatchingSpec =>
        /\ [](call = "WildcardMatch" => loop \in LoopType(input.str, input.pattern))
        /\ [][loop' # loop => Advances(loop, loop')]_vars
  <1>1. WildcardInv => (call = "WildcardMatch" => loop \in LoopType(input.str, input.pattern))
    BY DEF WildcardInv
  <1>2. WildcardInv /\ [MatchingNext]_vars => [loop' # loop => Advances(loop, loop')]_vars
    <2> SUFFICES ASSUME WildcardInv, MatchingNext, loop' # loop PROVE Advances(loop, loop')
      BY DEF vars
    <2>1. /\ call = "WildcardMatch"
          /\ \/ loop' = PastAsterisk(loop)
             \/ loop' = PastCharacter(loop)
             \/ loop' = BackToAsterisk(loop) /\ loop.asterisk > 0
      BY DEF MatchingNext, WildcardMatch, MeetAsterisk, MeetCharacter, GoBack, GiveUp,
             EndOfText, Returns, Pass, Looping
    <2> DEFINE n == Len(input.pattern)
               m == Len(input.str)
    <2>2. /\ input.pattern \in Seq(STRING) /\ input.str \in Seq(STRING)
          /\ loop \in LoopType(input.str, input.pattern) /\ Compared(input.pattern, loop)
      BY <2>1 DEF WildcardInv
    <2>3. n \in Nat /\ m \in Nat
      BY <2>2
    <2>4. loop.i \in 1 .. m + 1 /\ loop.j \in 1 .. n + 1 /\ loop.asterisk \in 0 .. n
          /\ loop.match \in 1 .. m + 1
      BY <2>2 DEF LoopType
    <2> HIDE DEF n, m
    <2>5. loop.asterisk < loop.j
      <3>1. CASE loop.asterisk = 0
        BY <2>3, <2>4, <3>1
      <3>2. CASE loop.asterisk # 0
        <4> DEFINE i == loop.i
                   j == loop.j
                   a == loop.asterisk
                   s == loop.match
        <4>1. a > 0
          BY <2>3, <2>4, <3>2
        <4>2. s <= i /\ j - a - 1 = i - s
          BY <2>2, <4>1 DEF Compared
        <4>3. i \in Int /\ j \in Int /\ a \in Int /\ s \in Int
          BY <2>3, <2>4
        <4> HIDE DEF i, j, a, s
        <4>4. a < j
          BY <4>2, <4>3
        <4> QED
          BY <4>4 DEF a, j
      <3> QED
        BY <3>1, <3>2
    <2>6. CASE loop' = PastAsterisk(loop)
      BY <2>5, <2>6 DEF PastAsterisk, Advances
    <2>7. CASE loop' = PastCharacter(loop)
      <3>1. /\ loop'.asterisk = loop.asterisk /\ loop'.match = loop.match
            /\ loop'.i = loop.i + 1
        BY <2>2, <2>7 DEF PastCharacter, LoopType
      <3>2. loop.i < loop.i + 1
        BY <2>3, <2>4
      <3> QED
        BY <3>1, <3>2 DEF Advances
    <2>8. CASE loop' = BackToAsterisk(loop)
      <3>1. loop'.asterisk = loop.asterisk /\ loop'.match = loop.match + 1
        BY <2>2, <2>8 DEF BackToAsterisk, LoopType
      <3>2. loop.match < loop.match + 1
        BY <2>3, <2>4
      <3> QED
        BY <3>1, <3>2 DEF Advances
    <2> QED
      BY <2>1, <2>6, <2>7, <2>8
  <1> QED
    BY <1>1, <1>2, WildcardInit, WildcardStep, PTL DEF MatchingSpec

-----------------------------------------------------------------------------
(***************************************************************************)
(* The other calls return at once.                                         *)
(***************************************************************************)
Returned ==
    /\ call = "matchCost" =>
          /\ input \in [filter : Costs, ms : Times]
          /\ called => output = MatchCost(TrimSpace(input.filter), input.ms)
    /\ call = "detect" => input \in Heads /\ (called => output = AutoDetect(input))
    /\ call = "dubboFlags" =>
          /\ input \in Headers
          /\ called => output = FixupFlags(DubboHeader(input), FlagOf(input))
    /\ call = "mysql" => input \in Packets /\ (called => output = ParsePacket(input))

LEMMA ReturnedInvariant == MatchingSpec => []Returned
  <1>1. MatchingInit => Returned
    <2> SUFFICES ASSUME MatchingInit PROVE Returned
      OBVIOUS
    <2>1. ~called
      BY DEF MatchingInit, Uncalled
    <2>2. call = "matchCost" => input \in [filter : Costs, ms : Times]
      BY DEF MatchingInit
    <2>3. call = "detect" => input \in Heads
      BY DEF MatchingInit
    <2>4. call = "dubboFlags" => input \in Headers
      BY DEF MatchingInit
    <2>5. call = "mysql" => input \in Packets
      BY DEF MatchingInit
    <2> QED
      BY <2>1, <2>2, <2>3, <2>4, <2>5 DEF Returned
  <1>2. Returned /\ [MatchingNext]_vars => Returned'
    <2> SUFFICES ASSUME Returned, [MatchingNext]_vars PROVE Returned'
      OBVIOUS
    <2>1. CASE UNCHANGED vars
      BY <2>1 DEF vars, Returned
    <2>2. CASE WildcardMatch
      <3>1. call = "WildcardMatch" /\ call' = call
        BY <2>2 DEF WildcardMatch, MeetAsterisk, MeetCharacter, GoBack, GiveUp, EndOfText,
                    Looping, Pass, Returns
      <3> QED
        BY <3>1 DEF Returned
    <2>3. CASE Returns("matchCost", MatchCost(TrimSpace(input.filter), input.ms))
      <3>1. /\ call = "matchCost" /\ call' = call /\ input' = input
            /\ output' = MatchCost(TrimSpace(input.filter), input.ms)
        BY <2>3 DEF Returns
      <3> QED
        BY <3>1 DEF Returned
    <2>4. CASE Returns("detect", AutoDetect(input))
      <3>1. call = "detect" /\ call' = call /\ input' = input /\ output' = AutoDetect(input)
        BY <2>4 DEF Returns
      <3> QED
        BY <3>1 DEF Returned
    <2>5. CASE Returns("dubboFlags", FixupFlags(DubboHeader(input), FlagOf(input)))
      <3>1. /\ call = "dubboFlags" /\ call' = call /\ input' = input
            /\ output' = FixupFlags(DubboHeader(input), FlagOf(input))
        BY <2>5 DEF Returns
      <3> QED
        BY <3>1 DEF Returned
    <2>6. CASE Returns("mysql", ParsePacket(input))
      <3>1. call = "mysql" /\ call' = call /\ input' = input /\ output' = ParsePacket(input)
        BY <2>6 DEF Returns
      <3> QED
        BY <3>1 DEF Returned
    <2> QED
      BY <2>1, <2>2, <2>3, <2>4, <2>5, <2>6 DEF MatchingNext
  <1> QED
    BY <1>1, <1>2, PTL DEF MatchingSpec

-----------------------------------------------------------------------------
(***************************************************************************)
(* The flags of Dubbo.                                                     *)
(***************************************************************************)

\* The two bits of the flags, in both layouts.
LEMMA FlagBits ==
    ASSUME NEW r \in [apache : BOOLEAN, twoway : BOOLEAN, event : BOOLEAN,
                      status : Byte, length : Nat]
    PROVE  /\ SetIn(FlagOf(r), 32) <=> IF r.apache THEN r.event ELSE r.twoway
           /\ SetIn(FlagOf(r), 64) <=> IF r.apache THEN r.twoway ELSE r.event
  <1> USE DEF SetIn, FlagOf, AlibabaTwoway, AlibabaEvent, ApacheTwoway, ApacheEvent
  <1>1. CASE r.twoway /\ r.event
    BY <1>1
  <1>2. CASE r.twoway /\ ~r.event
    BY <1>2
  <1>3. CASE ~r.twoway /\ r.event
    BY <1>3
  <1>4. CASE ~r.twoway /\ ~r.event
    BY <1>4
  <1> QED
    BY <1>1, <1>2, <1>3, <1>4

\* What fixupFlags makes of a header, for each layout.
LEMMA FlagsRead ==
    ASSUME NEW r \in [apache : BOOLEAN, twoway : BOOLEAN, event : BOOLEAN,
                      status : Byte, length : Nat]
    PROVE  LET h == FixupFlags(DubboHeader(r), FlagOf(r)) IN
           h.twoway = r.twoway /\ h.event = r.event
           <=> IF r.status = 0 /\ r.length > HeartbeatLimit
               THEN r.twoway \/ ~r.event
               ELSE ~r.apache \/ r.twoway = r.event
  <1> DEFINE flag == FlagOf(r)
             low == SetIn(flag, 32)
             high == SetIn(flag, 64)
             h == DubboHeader(r)
             fixed == FixupFlags(h, flag)
             swapped == [h EXCEPT !.twoway = high, !.event = low]
  <1>1. low = (IF r.apache THEN r.event ELSE r.twoway) /\ high = (IF r.apache THEN r.twoway ELSE r.event)
    <2>1. low \in BOOLEAN /\ high \in BOOLEAN
      BY DEF SetIn
    <2> HIDE DEF low, high
    <2> QED
      BY <2>1, FlagBits DEF low, high, flag
  <1>2. h = [serialization |-> flag % 32, isRequest |-> r.status = 0, length |-> r.length,
             twoway |-> low, event |-> high]
    BY DEF DubboHeader, ParseDubboHeader, AlibabaTwoway, AlibabaEvent
  <1>3. fixed = IF r.status # 0 \/ r.length <= 50 \/ (low /\ ~high) THEN h
                ELSE IF high /\ ~low THEN swapped
                ELSE IF r.length > 200 /\ high /\ ~low THEN swapped ELSE h
    <2>1. /\ h.isRequest = (r.status = 0) /\ h.length = r.length
          /\ h.twoway = low /\ h.event = high
      BY <1>2
    <2>2. swapped.twoway = high /\ swapped.event = low
      BY <1>2
    <2>3. fixed = IF ~h.isRequest \/ h.length <= HeartbeatLimit \/ (h.twoway /\ ~h.event)
                  THEN h
                  ELSE IF swapped.twoway /\ ~swapped.event THEN swapped
                  ELSE IF h.length > LargeBody /\ swapped.twoway /\ ~h.twoway THEN swapped
                  ELSE h
      BY DEF FixupFlags, ApacheTwoway, ApacheEvent
    <2> HIDE DEF fixed, swapped, h, low, high
    <2> QED
      BY <2>1, <2>2, <2>3 DEF HeartbeatLimit, LargeBody
  <1>4. h.twoway = low /\ h.event = high /\ swapped.twoway = high /\ swapped.event = low
    BY <1>2
  <1> HIDE DEF fixed, swapped, h, low, high
  <1>5. r.apache \in BOOLEAN /\ r.twoway \in BOOLEAN /\ r.event \in BOOLEAN /\ r.length \in Nat
    OBVIOUS
  <1>6. fixed.twoway = r.twoway /\ fixed.event = r.event
        <=> IF r.status = 0 /\ r.length > 50
            THEN r.twoway \/ ~r.event
            ELSE ~r.apache \/ r.twoway = r.event
    <2>1. CASE r.status = 0 /\ r.length > 50
      <3>1. fixed = IF high /\ ~low THEN swapped ELSE h
        BY <1>3, <1>5, <2>1
      <3> QED
        BY <1>1, <1>4, <1>5, <2>1, <3>1
    <2>2. CASE ~(r.status = 0 /\ r.length > 50)
      <3>1. fixed = h
        BY <1>3, <1>5, <2>2
      <3> QED
        BY <1>1, <1>4, <1>5, <2>2, <3>1
    <2> QED
      BY <2>1, <2>2
  <1> QED
    BY <1>6 DEF fixed, h, flag, HeartbeatLimit

\* The two flags of every Dubbo header are read as they were meant in exactly
\* the cases that DubboFlags names, whatever the layout and the length.
THEOREM DubboFlagsAreRead == MatchingSpec => []DubboFlags
  <1>1. Returned => DubboFlags
    <2> SUFFICES ASSUME Returned, Called("dubboFlags") PROVE DubboFlags
      BY DEF DubboFlags
    <2>1. input \in Headers /\ output = FixupFlags(DubboHeader(input), FlagOf(input))
      BY DEF Returned, Called
    <2>2. input \in [apache : BOOLEAN, twoway : BOOLEAN, event : BOOLEAN,
                     status : Byte, length : Nat]
      BY <2>1, HeadersAssumption
    <2> QED
      BY <2>1, <2>2, FlagsRead DEF DubboFlags
  <1> QED
    BY <1>1, ReturnedInvariant, PTL

-----------------------------------------------------------------------------
(***************************************************************************)
(* The cost filters.                                                       *)
(***************************************************************************)
Tokens == {Plus, Minus, Space} \cup Nat

\* A part of an expression.
LEMMA PartOf ==
    ASSUME NEW f \in Seq(Tokens), NEW a \in 1 .. Len(f) + 1, NEW b \in 0 .. Len(f), a <= b + 1
    PROVE  /\ SubSeq(f, a, b) \in Seq(Tokens)
           /\ Len(SubSeq(f, a, b)) = b - a + 1
           /\ \A k \in 1 .. b - a + 1 : SubSeq(f, a, b)[k] = f[a + k - 1]
  <1>1. CASE a <= b
    BY <1>1, SubSeqProperties
  <1>2. CASE a = b + 1
    BY <1>2, SubSeqProperties
  <1> QED
    BY <1>1, <1>2

\* Where a part of an expression is a number, and which.
LEMMA PartParses ==
    ASSUME NEW f \in Seq(Tokens), NEW a \in 1 .. Len(f) + 1, NEW b \in 0 .. Len(f), a <= b + 1
    PROVE  /\ Parses(SubSeq(f, a, b))
              <=> \/ b = a /\ f[a] >= 0
                  \/ b = a + 1 /\ f[a] \in {-1, -2} /\ f[a + 1] >= 0
           /\ b = a => ParseInt(SubSeq(f, a, b)) = f[a]
           /\ b = a + 1 => ParseInt(SubSeq(f, a, b)) = IF f[a] = -2 THEN -f[a + 1] ELSE f[a + 1]
  <1> DEFINE s == SubSeq(f, a, b)
  <1>1. Len(s) = b - a + 1 /\ \A k \in 1 .. b - a + 1 : s[k] = f[a + k - 1]
    BY PartOf
  <1>2. Len(f) \in Nat
    OBVIOUS
  <1> HIDE DEF s
  <1>3. b = a => Len(s) = 1 /\ s[1] = f[a]
    BY <1>1, <1>2
  <1>4. b = a + 1 => Len(s) = 2 /\ s[1] = f[a] /\ s[2] = f[a + 1]
    BY <1>1, <1>2
  <1>5. /\ Len(s) = 1 => b = a
        /\ Len(s) = 2 => b = a + 1
    BY <1>1, <1>2
  <1>6. Parses(s) <=> \/ b = a /\ f[a] >= 0
                      \/ b = a + 1 /\ f[a] \in {-1, -2} /\ f[a + 1] >= 0
    BY <1>3, <1>4, <1>5 DEF Parses, IsNumber, Plus, Minus
  <1>7. b = a => ParseInt(s) = f[a]
    BY <1>3 DEF ParseInt
  <1>8. b = a + 1 => ParseInt(s) = IF f[a] = -2 THEN -f[a + 1] ELSE f[a + 1]
    BY <1>4 DEF ParseInt, Minus
  <1> QED
    BY <1>6, <1>7, <1>8 DEF s

LEMMA FirstIs ==
    ASSUME NEW f \in Seq(Tokens), NEW t, Contains(f, t)
    PROVE  /\ First(f, t) \in 1 .. Len(f)
           /\ f[First(f, t)] = t
           /\ \A k \in 1 .. First(f, t) - 1 : f[k] # t
  <1> DEFINE T == {i \in 1 .. Len(f) : f[i] = t}
  <1>1. T \subseteq Nat /\ T # {}
    BY DEF Contains
  <1>2. PICK i \in T : \A k \in T : i <= k
    BY <1>1, LeastNumber
  <1>3. \A k \in 1 .. i - 1 : f[k] # t
    <2> SUFFICES ASSUME NEW k \in 1 .. i - 1, f[k] = t PROVE FALSE
      OBVIOUS
    <2>1. k \in 1 .. Len(f)
      BY <1>1
    <2>2. i <= k
      BY <1>2, <2>1
    <2> QED
      BY <1>1, <2>2
  <1>4. \E j \in 1 .. Len(f) : f[j] = t /\ \A k \in 1 .. j - 1 : f[k] # t
    BY <1>2, <1>3
  <1> QED
    BY <1>4 DEF First

\* An expression of which no part is a number admits every time.
LEMMA NoNumberRead ==
    ASSUME NEW f \in Seq(Tokens), NEW ms \in Int, Len(f) > 0,
           ~Parses(Before(f, Len(f))), ~Parses(From(f, 2)), ~Parses(f),
           \A d \in 1 .. Len(f) : f[d] = Minus => ~Parses(Before(f, d)) \/ ~Parses(From(f, d + 1))
    PROVE  MatchCost(f, ms) = TRUE
  <1>1. Contains(f, Minus)
        => ~Parses(Before(f, First(f, Minus))) \/ ~Parses(From(f, First(f, Minus) + 1))
    BY FirstIs
  <1> QED
    BY <1>1 DEF MatchCost

\* The tokens of an expression, and its parts, by their places.
LEMMA Places ==
    ASSUME NEW f \in Seq(Tokens)
    PROVE  LET n == Len(f) IN
           /\ n \in Nat
           /\ \A i \in 1 .. n : f[i] \in Int /\ (f[i] \in Nat \/ f[i] \in {-1, -2, -3})
           /\ \A d \in 1 .. n :
                 Parses(Before(f, d)) <=> \/ d = 2 /\ f[1] >= 0
                                          \/ d = 3 /\ f[1] \in {-1, -2} /\ f[2] >= 0
           /\ \A d \in 1 .. n :
                 Parses(From(f, d + 1))
                 <=> \/ n = d + 1 /\ f[d + 1] >= 0
                     \/ n = d + 2 /\ f[d + 1] \in {-1, -2} /\ f[d + 2] >= 0
  <1> DEFINE n == Len(f)
  <1>1. n \in Nat
    OBVIOUS
  <1>2. ASSUME NEW i \in 1 .. n PROVE f[i] \in Int /\ (f[i] \in Nat \/ f[i] \in {-1, -2, -3})
    <2>1. f[i] \in Tokens
      OBVIOUS
    <2> QED
      BY <2>1 DEF Tokens, Plus, Minus, Space
  <1>3. ASSUME NEW d \in 1 .. n
        PROVE  Parses(Before(f, d)) <=> \/ d = 2 /\ f[1] >= 0
                                        \/ d = 3 /\ f[1] \in {-1, -2} /\ f[2] >= 0
    <2>1. 1 \in 1 .. n + 1 /\ d - 1 \in 0 .. n /\ 1 <= (d - 1) + 1
      BY <1>1
    <2>2. Parses(SubSeq(f, 1, d - 1))
          <=> \/ d - 1 = 1 /\ f[1] >= 0
              \/ d - 1 = 1 + 1 /\ f[1] \in {-1, -2} /\ f[1 + 1] >= 0
      <3> DEFINE b == d - 1
      <3> HIDE DEF b
      <3>1. b \in 0 .. n /\ 1 <= b + 1
        BY <2>1 DEF b
      <3>2. Parses(SubSeq(f, 1, b))
            <=> \/ b = 1 /\ f[1] >= 0
                \/ b = 1 + 1 /\ f[1] \in {-1, -2} /\ f[1 + 1] >= 0
        BY <2>1, <3>1, PartParses
      <3> QED
        BY <3>2 DEF b
    <2>3. (d - 1 = 1 <=> d = 2) /\ (d - 1 = 1 + 1 <=> d = 3) /\ 1 + 1 = 2
      OBVIOUS
    <2> QED
      BY <2>2, <2>3 DEF Before
  <1>4. ASSUME NEW d \in 1 .. n
        PROVE  Parses(From(f, d + 1))
               <=> \/ n = d + 1 /\ f[d + 1] >= 0
                   \/ n = d + 2 /\ f[d + 1] \in {-1, -2} /\ f[d + 2] >= 0
    <2> DEFINE a == d + 1
    <2>1. a \in 1 .. n + 1 /\ n \in 0 .. n /\ a <= n + 1 /\ a + 1 = d + 2
      BY <1>1
    <2> HIDE DEF a
    <2>2. Parses(SubSeq(f, a, n))
          <=> \/ n = a /\ f[a] >= 0
              \/ n = a + 1 /\ f[a] \in {-1, -2} /\ f[a + 1] >= 0
      BY <2>1, PartParses
    <2> QED
      BY <2>1, <2>2 DEF From, a
  <1> QED
    BY <1>1, <1>2, <1>3, <1>4

Trimmed(f) == Len(f) > 0 => f[1] # Space /\ f[Len(f)] # Space

\* A space inside an expression makes it unreadable.
LEMMA CostWithSpace ==
    ASSUME NEW f \in Seq(Tokens), NEW ms \in Times, Trimmed(f), Contains(f, Space)
    PROVE  MatchCost(f, ms) = TRUE /\ Admitted(f, Times) = Times
  <1> DEFINE n == Len(f)
  <1>1. PICK q \in 1 .. n : f[q] = -3
    BY DEF Contains, Space
  <1>2. n \in Nat /\ ms \in Int
    BY TimesAssumption
  <1>3. q \in 2 .. n - 1 /\ n >= 3
    BY <1>1, <1>2 DEF Trimmed, Space
  <1>4. \A d \in 1 .. n :
           /\ Parses(Before(f, d)) <=> \/ d = 2 /\ f[1] >= 0
                                       \/ d = 3 /\ f[1] \in {-1, -2} /\ f[2] >= 0
           /\ Parses(From(f, d + 1))
              <=> \/ n = d + 1 /\ f[d + 1] >= 0
                  \/ n = d + 2 /\ f[d + 1] \in {-1, -2} /\ f[d + 2] >= 0
    BY Places
  <1> HIDE DEF n
  <1>5. n # 1 /\ n # 2 /\ (n = 3 => q = 2)
    BY <1>2, <1>3
  <1>6. ~Parses(f) /\ Admitted(f, Times) = Times
    <2>1. Len(f) # 1 /\ Len(f) # 2 /\ ~(Len(f) = 3 /\ f[2] = -2)
      BY <1>1, <1>5 DEF n
    <2> QED
      BY <2>1 DEF Parses, Admitted, Minus
  <1>7. ~Parses(Before(f, n))
    <2>1. n \in 1 .. n
      BY <1>2, <1>3
    <2>2. n # 2 /\ (n = 3 => f[2] = -3)
      BY <1>1, <1>2, <1>3
    <2> QED
      BY <1>4, <2>1, <2>2
  <1>8. ~Parses(From(f, 2))
    <2>1. 1 \in 1 .. n /\ 1 + 1 = 2 /\ 1 + 2 = 3
      BY <1>2, <1>3
    <2>2. n # 2 /\ (n = 3 => f[2] = -3)
      BY <1>1, <1>2, <1>3
    <2>3. Parses(From(f, 1 + 1)) <=> \/ n = 1 + 1 /\ f[1 + 1] >= 0
                                     \/ n = 1 + 2 /\ f[1 + 1] \in {-1, -2} /\ f[1 + 2] >= 0
      BY <1>4, <2>1
    <2> QED
      BY <2>1, <2>2, <2>3
  <1>9. ASSUME NEW d \in 1 .. n, f[d] = Minus
        PROVE  ~Parses(Before(f, d)) \/ ~Parses(From(f, d + 1))
    <2>1. d # q
      BY <1>1, <1>9 DEF Minus
    <2>2. CASE q < d
      <3>1. d # 2 /\ (d = 3 => q = 2)
        BY <1>3, <2>2
      <3> QED
        BY <1>1, <1>4, <3>1
    <2>3. CASE q > d
      <3>1. n # d + 1 /\ (n = d + 2 => q = d + 1)
        BY <1>2, <1>3, <2>3
      <3> QED
        BY <1>1, <1>4, <3>1
    <2> QED
      BY <1>3, <2>1, <2>2, <2>3
  <1>10. n > 0
    BY <1>2, <1>3
  <1> QED
    BY <1>2, <1>6, <1>7, <1>8, <1>9, <1>10, NoNumberRead DEF n

\* So does the lack of a number.
LEMMA CostWithoutNumber ==
    ASSUME NEW f \in Seq(Tokens), NEW ms \in Times, Len(f) > 0,
           \A i \in 1 .. Len(f) : f[i] \notin Nat
    PROVE  MatchCost(f, ms) = TRUE /\ Admitted(f, Times) = Times
  <1> DEFINE n == Len(f)
  <1>1. n \in Nat /\ n > 0 /\ ms \in Int
    BY TimesAssumption
  <1>2. \A i \in 1 .. n : ~(f[i] >= 0)
    BY Places
  <1>3. \A d \in 1 .. n :
           /\ Parses(Before(f, d)) <=> \/ d = 2 /\ f[1] >= 0
                                       \/ d = 3 /\ f[1] \in {-1, -2} /\ f[2] >= 0
           /\ Parses(From(f, d + 1))
              <=> \/ n = d + 1 /\ f[d + 1] >= 0
                  \/ n = d + 2 /\ f[d + 1] \in {-1, -2} /\ f[d + 2] >= 0
    BY Places
  <1>4. ~Parses(f)
    BY <1>2 DEF Parses, IsNumber
  <1>5. Admitted(f, Times) = Times
    <2>1. n = 1 => ~IsNumber(f[1])
      BY <1>2 DEF IsNumber
    <2>2. n = 2 => {f[1], f[2]} \cap Nat = {}
      OBVIOUS
    <2>3. n = 3 => ~IsNumber(f[1])
      BY <1>2 DEF IsNumber
    <2> QED
      BY <2>1, <2>2, <2>3 DEF Admitted
  <1> HIDE DEF n
  <1>6. ASSUME NEW d \in 1 .. n PROVE ~Parses(Before(f, d)) /\ ~Parses(From(f, d + 1))
    <2>1. (d = 2 \/ d = 3 => 1 \in 1 .. n /\ 2 \in 1 .. n)
          /\ (n = d + 1 => d + 1 \in 1 .. n) /\ (n = d + 2 => d + 2 \in 1 .. n)
      BY <1>1
    <2>2. ~Parses(Before(f, d))
      BY <1>2, <1>3, <2>1
    <2>3. ~Parses(From(f, d + 1))
      BY <1>2, <1>3, <2>1
    <2> QED
      BY <2>2, <2>3
  <1>7. n \in 1 .. n /\ 1 \in 1 .. n /\ 1 + 1 = 2
    BY <1>1
  <1>8. ~Parses(Before(f, n)) /\ ~Parses(From(f, 2))
    BY <1>6, <1>7
  <1> QED
    BY <1>1, <1>4, <1>5, <1>6, <1>8, NoNumberRead DEF n

\* An expression of one token: an exact time, or nothing to be read.
LEMMA CostOfOne ==
    ASSUME NEW f \in Seq(Tokens), NEW ms \in Times, Len(f) = 1
    PROVE  MatchCost(f, ms) = (ms \in Admitted(f, Times))
  <1>1. ms \in Int /\ f[1] \in Int /\ (f[1] \in Nat \/ f[1] \in {-1, -2, -3})
    BY Places, TimesAssumption
  <1>2. CASE f[1] \in Nat
    <2>1. Parses(f) /\ ParseInt(f) = f[1]
      BY <1>2 DEF Parses, IsNumber, ParseInt
    <2>2. ~Contains(f, Minus) /\ f[1] # Plus /\ f[1] # Minus
      BY <1>2 DEF Contains, Minus, Plus
    <2>3. MatchCost(f, ms) = (ms = f[1])
      BY <2>1, <2>2 DEF MatchCost
    <2>4. Admitted(f, Times) = {f[1]}
      BY <1>2 DEF Admitted, IsNumber
    <2> QED
      BY <2>3, <2>4
  <1>3. CASE f[1] \notin Nat
    <2>1. \A i \in 1 .. Len(f) : f[i] \notin Nat
      BY <1>3
    <2>2. Len(f) > 0
      OBVIOUS
    <2>3. MatchCost(f, ms) = TRUE /\ Admitted(f, Times) = Times
      BY <2>1, <2>2, CostWithoutNumber
    <2> QED
      BY <2>3
  <1> QED
    BY <1>2, <1>3

\* An expression of two: a number with a sign on one of its sides.
LEMMA CostOfTwo ==
    ASSUME NEW f \in Seq(Tokens), NEW ms \in Times, Len(f) = 2, Trimmed(f)
    PROVE  MatchCost(f, ms) = (ms \in Admitted(f, Times))
  <1> DEFINE a == f[1]
             b == f[2]
  <1>1. /\ ms \in Int /\ a \in Int /\ b \in Int
        /\ a \in Nat \/ a \in {-1, -2}
        /\ b \in Nat \/ b \in {-1, -2}
    BY Places, TimesAssumption, SMTT(60) DEF Trimmed, Space
  <1>2. /\ Parses(Before(f, 2)) <=> a >= 0
        /\ Parses(From(f, 2)) <=> b >= 0
    <2>1. Parses(Before(f, 2)) <=> a >= 0
      <3>1. 2 \in 1 .. Len(f)
        OBVIOUS
      <3>2. Parses(Before(f, 2)) <=> \/ 2 = 2 /\ f[1] >= 0
                                     \/ 2 = 3 /\ f[1] \in {-1, -2} /\ f[2] >= 0
        BY <3>1, Places
      <3> QED
        BY <3>2
    <2>2. Parses(From(f, 2)) <=> b >= 0
      <3>1. 1 \in 1 .. Len(f) /\ 1 + 1 = 2
        OBVIOUS
      <3>2. Parses(From(f, 1 + 1))
            <=> \/ Len(f) = 1 + 1 /\ f[1 + 1] >= 0
                \/ Len(f) = 1 + 2 /\ f[1 + 1] \in {-1, -2} /\ f[1 + 2] >= 0
        BY <3>1, Places
      <3> QED
        BY <3>1, <3>2
    <2> QED
      BY <2>1, <2>2
  <1>3. ParseInt(Before(f, 2)) = a /\ ParseInt(From(f, 2)) = b
    <2>1. 1 \in 1 .. Len(f) + 1 /\ 1 \in 0 .. Len(f) /\ 2 \in 1 .. Len(f) + 1 /\ 2 \in 0 .. Len(f)
      OBVIOUS
    <2>2. ParseInt(SubSeq(f, 1, 1)) = f[1]
      BY <2>1, PartParses
    <2>3. ParseInt(SubSeq(f, 2, 2)) = f[2]
      BY <2>1, PartParses
    <2>4. 2 - 1 = 1
      OBVIOUS
    <2> QED
      BY <2>2, <2>3, <2>4 DEF Before, From
  <1>4. Contains(From(f, 2), Minus) <=> b = -2
    <2>1. 2 \in 1 .. Len(f) + 1 /\ 2 \in 0 .. Len(f) /\ 2 <= 2 + 1 /\ 2 - 2 + 1 = 1
      OBVIOUS
    <2>2. Len(SubSeq(f, 2, 2)) = 1 /\ SubSeq(f, 2, 2)[1] = f[2]
      BY <2>1, PartOf
    <2> QED
      BY <2>2 DEF Contains, From, Minus
  <1>5. CASE a \notin Nat /\ b \notin Nat
    <2>1. \A i \in 1 .. Len(f) : f[i] \notin Nat
      BY <1>5
    <2>2. Len(f) > 0
      OBVIOUS
    <2>3. MatchCost(f, ms) = TRUE /\ Admitted(f, Times) = Times
      BY <2>1, <2>2, CostWithoutNumber
    <2> QED
      BY <2>3
  <1>6. CASE a \in Nat /\ b \notin Nat
    <2>1. CASE b = -1
      <3>1. MatchCost(f, ms) = (ms >= a)
        BY <1>2, <1>3, <1>6, <2>1 DEF MatchCost, Plus
      <3>2. Admitted(f, Times) = {t \in Times : \A i \in 1 .. 2 : IsNumber(f[i]) => t >= f[i]}
        BY <1>6, <2>1 DEF Admitted, Plus, Minus
      <3>3. \A i \in 1 .. 2 : IsNumber(f[i]) <=> i = 1
        BY <1>6, <2>1 DEF IsNumber
      <3> QED
        BY <3>1, <3>2, <3>3
    <2>2. CASE b = -2
      <3>1. MatchCost(f, ms) = (ms <= a)
        BY <1>2, <1>3, <1>6, <2>2 DEF MatchCost, Plus, Minus
      <3>2. Admitted(f, Times) = {t \in Times : \A i \in 1 .. 2 : IsNumber(f[i]) => t <= f[i]}
        BY <1>6, <2>2 DEF Admitted, Plus, Minus
      <3>3. \A i \in 1 .. 2 : IsNumber(f[i]) <=> i = 1
        BY <1>6, <2>2 DEF IsNumber
      <3> QED
        BY <3>1, <3>2, <3>3
    <2> QED
      BY <1>1, <1>6, <2>1, <2>2
  <1>7. CASE a \notin Nat /\ b \in Nat
    <2>1. CASE a = -1
      <3>1. MatchCost(f, ms) = (ms >= b)
        BY <1>2, <1>3, <1>7, <2>1 DEF MatchCost, Plus
      <3>2. Admitted(f, Times) = {t \in Times : \A i \in 1 .. 2 : IsNumber(f[i]) => t >= f[i]}
        BY <1>7, <2>1 DEF Admitted, Plus, Minus
      <3>3. \A i \in 1 .. 2 : IsNumber(f[i]) <=> i = 2
        BY <1>7, <2>1 DEF IsNumber
      <3> QED
        BY <3>1, <3>2, <3>3
    <2>2. CASE a = -2
      <3>1. MatchCost(f, ms) = (ms <= b)
        BY <1>2, <1>3, <1>4, <1>7, <2>2 DEF MatchCost, Plus, Minus
      <3>2. Admitted(f, Times) = {t \in Times : \A i \in 1 .. 2 : IsNumber(f[i]) => t <= f[i]}
        BY <1>7, <2>2 DEF Admitted, Plus, Minus
      <3>3. \A i \in 1 .. 2 : IsNumber(f[i]) <=> i = 2
        BY <1>7, <2>2 DEF IsNumber
      <3> QED
        BY <3>1, <3>2, <3>3
    <2> QED
      BY <1>1, <1>7, <2>1, <2>2
  <1>8. CASE a \in Nat /\ b \in Nat
    <2>1. ~Contains(f, Minus) /\ ~Parses(f)
      BY <1>8 DEF Contains, Minus, Plus, Parses
    <2>2. MatchCost(f, ms) = TRUE
      BY <1>8, <2>1 DEF MatchCost, Plus, Minus
    <2>3. Admitted(f, Times) = Times
      BY <1>8 DEF Admitted, Plus, Minus
    <2> QED
      BY <2>2, <2>3
  <1> QED
    BY <1>5, <1>6, <1>7, <1>8

\* Two numbers with a minus between them.
LEMMA CostOfRange ==
    ASSUME NEW f \in Seq(Tokens), NEW ms \in Times,
           Len(f) = 3, f[1] \in Nat, f[2] = Minus, f[3] \in Nat
    PROVE  MatchCost(f, ms) = (ms \in Admitted(f, Times))
  <1>1. Contains(f, Minus)
    BY DEF Contains
  <1>2. First(f, Minus) = 2
    <2> DEFINE d == First(f, Minus)
    <2>1. d \in 1 .. 3 /\ f[d] = -2
      BY <1>1, FirstIs DEF Minus
    <2>2. d # 1 /\ d # 3
      BY <2>1
    <2> HIDE DEF d
    <2>3. d = 2
      BY <2>1, <2>2
    <2> QED
      BY <2>3 DEF d
  <1>3. /\ Parses(SubSeq(f, 1, 1)) /\ ParseInt(SubSeq(f, 1, 1)) = f[1]
        /\ Parses(SubSeq(f, 3, 3)) /\ ParseInt(SubSeq(f, 3, 3)) = f[3]
    <2>1. /\ 1 \in 1 .. Len(f) + 1 /\ 1 \in 0 .. Len(f) /\ 1 <= 1 + 1
          /\ 3 \in 1 .. Len(f) + 1 /\ 3 \in 0 .. Len(f) /\ 3 <= 3 + 1
      OBVIOUS
    <2>2. Parses(SubSeq(f, 1, 1)) /\ ParseInt(SubSeq(f, 1, 1)) = f[1]
      BY <2>1, PartParses
    <2>3. Parses(SubSeq(f, 3, 3)) /\ ParseInt(SubSeq(f, 3, 3)) = f[3]
      BY <2>1, PartParses
    <2> QED
      BY <2>2, <2>3
  <1>4. /\ Parses(Before(f, 2)) /\ ParseInt(Before(f, 2)) = f[1]
        /\ Parses(From(f, 2 + 1)) /\ ParseInt(From(f, 2 + 1)) = f[3]
    <2>1. 2 - 1 = 1 /\ 2 + 1 = 3
      OBVIOUS
    <2> QED
      BY <1>3, <2>1 DEF Before, From
  <1>5. f[1] # -1 /\ f[1] # -2 /\ f[3] # -1 /\ f[3] # -2
    OBVIOUS
  <1>6. MatchCost(f, ms) = (ms \in f[1] .. f[3])
    BY <1>1, <1>2, <1>4, <1>5 DEF MatchCost, Plus, Minus
  <1>7. Admitted(f, Times) = f[1] .. f[3]
    BY DEF Admitted, IsNumber
  <1> QED
    BY <1>6, <1>7

\* matchCost admits what the documented forms admit.
LEMMA CostIsAdmitted ==
    ASSUME NEW f \in Seq(Tokens), NEW ms \in Times, Trimmed(f), Documented(f)
    PROVE  MatchCost(f, ms) = (ms \in Admitted(f, Times))
  <1> DEFINE n == Len(f)
  <1>1. n \in Nat
    OBVIOUS
  <1>2. CASE n = 0
    <2>1. MatchCost(f, ms) = TRUE
      BY <1>2 DEF MatchCost
    <2>2. Admitted(f, Times) = Times
      BY <1>2 DEF Admitted
    <2> QED
      BY <2>1, <2>2
  <1>3. CASE n = 1
    BY <1>3, CostOfOne
  <1>4. CASE n = 2
    BY <1>4, CostOfTwo
  <1>5. CASE Contains(f, Space)
    BY <1>5, CostWithSpace
  <1>6. CASE n > 1 /\ \A i \in 1 .. n - 1 : {f[i], f[i + 1]} \cap Nat = {}
    <2>1. ASSUME NEW i \in 1 .. n PROVE f[i] \notin Nat
      <3>1. CASE i \in 1 .. n - 1
        BY <1>6, <3>1
      <3>2. CASE i = n
        <4>1. n - 1 \in 1 .. n - 1 /\ (n - 1) + 1 = n
          BY <1>1, <1>6
        <4>2. {f[n - 1], f[(n - 1) + 1]} \cap Nat = {}
          BY <1>6, <4>1
        <4> QED
          BY <3>2, <4>1, <4>2
      <3> QED
        BY <1>1, <3>1, <3>2
    <2>2. Len(f) > 0
      BY <1>1, <1>6
    <2>3. MatchCost(f, ms) = TRUE /\ Admitted(f, Times) = Times
      BY <2>1, <2>2, CostWithoutNumber
    <2> QED
      BY <2>3
  <1>7. CASE n = 3 /\ IsNumber(f[1]) /\ f[2] = Minus /\ IsNumber(f[3])
    <2>1. f[1] \in Nat /\ f[3] \in Nat
      BY <1>7, Places DEF IsNumber
    <2> QED
      BY <1>7, <2>1, CostOfRange
  <1>8. \/ Contains(f, Space)
        \/ \A i \in 1 .. n - 1 : {f[i], f[i + 1]} \cap Nat = {}
        \/ n = 2
        \/ n = 3 /\ IsNumber(f[1]) /\ f[2] = Minus /\ IsNumber(f[3])
    BY DEF Documented
  <1> HIDE DEF n
  <1>9. n = 0 \/ n = 1 \/ n > 1
    BY <1>1
  <1> QED
    BY <1>2, <1>3, <1>4, <1>5, <1>6, <1>7, <1>8, <1>9, Zenon

\* What TrimSpace leaves is a part of the expression that neither begins nor
\* ends with a space.
LEMMA TrimSpaceTrims ==
    ASSUME NEW s \in Seq(Tokens)
    PROVE  TrimSpace(s) \in Seq(Tokens) /\ Trimmed(TrimSpace(s))
  <1> DEFINE solid == {i \in 1 .. Len(s) : s[i] # Space}
             lowest == CHOOSE i \in solid : \A k \in solid : i <= k
             highest == CHOOSE i \in solid : \A k \in solid : k <= i
  <1>1. CASE solid = {}
    <2>1. TrimSpace(s) = <<>>
      BY <1>1 DEF TrimSpace
    <2> QED
      BY <2>1 DEF Trimmed
  <1>2. CASE solid # {}
    <2>1. lowest \in solid /\ \A k \in solid : lowest <= k
      <3>1. solid \subseteq Nat
        OBVIOUS
      <3> HIDE DEF solid
      <3>2. \E i \in solid : \A k \in solid : i <= k
        BY <1>2, <3>1, LeastNumber
      <3> QED
        BY <3>2
    <2>2. highest \in solid /\ \A k \in solid : k <= highest
      <3> DEFINE n == Len(s)
                 T == {d \in 0 .. n : n - d \in solid}
      <3>1. n \in Nat /\ solid \subseteq 1 .. n
        OBVIOUS
      <3> HIDE DEF n, solid
      <3>2. T \subseteq Nat
        OBVIOUS
      <3>3. T # {}
        <4>1. PICK i \in solid : TRUE
          BY <1>2
        <4>2. n - i \in 0 .. n /\ n - (n - i) = i
          BY <3>1
        <4> QED
          BY <4>1, <4>2
      <3>4. PICK d \in T : \A e \in T : d <= e
        BY <3>2, <3>3, LeastNumber
      <3>5. ASSUME NEW k \in solid PROVE k <= n - d
        <4>1. n - k \in 0 .. n /\ n - (n - k) = k /\ k \in Int
          BY <3>1
        <4>2. n - k \in T
          BY <4>1
        <4>3. d <= n - k
          BY <3>4, <4>2
        <4> QED
          BY <3>1, <4>1, <4>3
      <3>6. n - d \in solid
        BY <3>4
      <3> QED
        BY <3>5, <3>6
    <2>3. lowest \in 1 .. Len(s) /\ highest \in 1 .. Len(s) /\ s[lowest] # Space /\ s[highest] # Space
      BY <2>1, <2>2
    <2>4. lowest <= highest
      BY <2>1, <2>2
    <2>5. TrimSpace(s) = SubSeq(s, lowest, highest)
      BY <1>2 DEF TrimSpace
    <2> HIDE DEF lowest, highest
    <2> DEFINE f == SubSeq(s, lowest, highest)
    <2>6. /\ lowest \in 1 .. Len(s) + 1 /\ highest \in 0 .. Len(s) /\ lowest <= highest + 1
          /\ 1 \in 1 .. highest - lowest + 1
          /\ highest - lowest + 1 \in 1 .. highest - lowest + 1
          /\ lowest + 1 - 1 = lowest /\ lowest + (highest - lowest + 1) - 1 = highest
      BY <2>3, <2>4
    <2>7. /\ f \in Seq(Tokens) /\ Len(f) = highest - lowest + 1
          /\ \A k \in 1 .. highest - lowest + 1 : f[k] = s[lowest + k - 1]
      BY <2>6, PartOf
    <2> HIDE DEF f
    <2>8. f[1] = s[lowest]
      BY <2>6, <2>7
    <2>9. f[Len(f)] = s[highest]
      BY <2>6, <2>7
    <2>10. Trimmed(f)
      BY <2>3, <2>8, <2>9 DEF Trimmed
    <2> QED
      BY <2>5, <2>7, <2>10 DEF f
  <1> QED
    BY <1>1, <1>2

\* For every expression of a documented form, and for every one in which no
\* number can be read, matchCost admits exactly the times that the form does.
THEOREM CostIsAsDocumented == MatchingSpec => []CostAsDocumented
  <1>1. Returned => CostAsDocumented
    <2> SUFFICES ASSUME Returned, Called("matchCost"), Documented(TrimSpace(input.filter))
                 PROVE  output = (input.ms \in Admitted(TrimSpace(input.filter), Times))
      BY DEF CostAsDocumented
    <2>1. /\ input \in [filter : Costs, ms : Times]
          /\ output = MatchCost(TrimSpace(input.filter), input.ms)
      BY DEF Returned, Called
    <2>2. input.filter \in Seq(Tokens) /\ input.ms \in Times
      BY <2>1, CostsAssumption DEF Tokens
    <2>3. TrimSpace(input.filter) \in Seq(Tokens) /\ Trimmed(TrimSpace(input.filter))
      BY <2>2, TrimSpaceTrims
    <2> QED
      BY <2>1, <2>2, <2>3, CostIsAdmitted
  <1> QED
    BY <1>1, ReturnedInvariant, PTL

-----------------------------------------------------------------------------
(***************************************************************************)
(* The detection of the protocol.                                          *)
(***************************************************************************)

LEMMA LeastOf ==
    ASSUME NEW A \in SUBSET (1 .. 10), NEW i \in A, \A j \in 1 .. 10 : j < i => j \notin A
    PROVE  (CHOOSE k \in A : \A j \in A : k <= j) = i
  <1>1. \A j \in A : i <= j
    OBVIOUS
  <1>2. \A k \in A : (\A j \in A : k <= j) => k = i
    BY <1>1
  <1> QED
    BY <1>1, <1>2

LEMMA AcceptsIs ==
    ASSUME NEW h
    PROVE  /\ Accepts("dubbo", h) <=> DetectDubbo(h)
           /\ Accepts("triple", h) <=> DetectTriple(h)
           /\ Accepts("rocketmq", h) <=> DetectRocketMQ(h)
           /\ Accepts("mongo", h) <=> DetectMongo(h)
           /\ Accepts("mysql", h) <=> DetectMySQL(h)
           /\ Accepts("redis", h) <=> DetectRESP(h)
           /\ Accepts("zookeeper", h) <=> DetectZK(h)
           /\ Accepts("websocket", h) <=> DetectWebSocket(h)
           /\ Accepts("nacos", h) <=> DetectNacos(h)
           /\ Accepts("http", h) <=> DetectHTTP(h)
  BY DEF Accepts

\* The order of the detectors, written out.
LEMMA FirstAcceptingIs ==
    ASSUME NEW h
    PROVE  FirstAccepting(h) =
              IF DetectDubbo(h) THEN "dubbo" ELSE IF DetectTriple(h) THEN "triple"
              ELSE IF DetectRocketMQ(h) THEN "rocketmq" ELSE IF DetectMongo(h) THEN "mongo"
              ELSE IF DetectMySQL(h) THEN "mysql" ELSE IF DetectRESP(h) THEN "redis"
              ELSE IF DetectZK(h) THEN "zookeeper" ELSE IF DetectWebSocket(h) THEN "websocket"
              ELSE IF DetectNacos(h) THEN "nacos" ELSE IF DetectHTTP(h) THEN "http"
              ELSE Unknown
  <1> DEFINE accepting == {i \in 1 .. 10 : Accepts(DetectOrder[i], h)}
             least == CHOOSE i \in accepting : \A j \in accepting : i <= j
  <1>1. Len(DetectOrder) = 10
    BY DEF DetectOrder
  <1>2. FirstAccepting(h) = IF accepting = {} THEN Unknown ELSE DetectOrder[least]
    BY <1>1 DEF FirstAccepting
  <1>3. /\ 1 \in accepting <=> DetectDubbo(h)
        /\ 2 \in accepting <=> DetectTriple(h)
        /\ 3 \in accepting <=> DetectRocketMQ(h)
        /\ 4 \in accepting <=> DetectMongo(h)
        /\ 5 \in accepting <=> DetectMySQL(h)
    BY AcceptsIs DEF DetectOrder
  <1>4. /\ 6 \in accepting <=> DetectRESP(h)
        /\ 7 \in accepting <=> DetectZK(h)
        /\ 8 \in accepting <=> DetectWebSocket(h)
        /\ 9 \in accepting <=> DetectNacos(h)
        /\ 10 \in accepting <=> DetectHTTP(h)
    BY AcceptsIs DEF DetectOrder
  <1>5. accepting \in SUBSET (1 .. 10)
    OBVIOUS
  <1> HIDE DEF accepting
  <1>6. ASSUME NEW i \in 1 .. 10, i \in accepting, \A j \in 1 .. 10 : j < i => j \notin accepting
        PROVE  FirstAccepting(h) = DetectOrder[i]
    <2>1. least = i
      BY <1>5, <1>6, LeastOf
    <2> QED
      BY <1>2, <1>6, <2>1
  <1>7. (\A j \in 1 .. 10 : j \notin accepting) => FirstAccepting(h) = Unknown
    BY <1>2, <1>5
  <1>8. \A j \in 1 .. 10 : \/ j = 1 \/ j = 2 \/ j = 3 \/ j = 4 \/ j = 5
                           \/ j = 6 \/ j = 7 \/ j = 8 \/ j = 9 \/ j = 10
    OBVIOUS
  <1>9. /\ DetectOrder[1] = "dubbo" /\ DetectOrder[2] = "triple" /\ DetectOrder[3] = "rocketmq"
        /\ DetectOrder[4] = "mongo" /\ DetectOrder[5] = "mysql" /\ DetectOrder[6] = "redis"
        /\ DetectOrder[7] = "zookeeper" /\ DetectOrder[8] = "websocket"
        /\ DetectOrder[9] = "nacos" /\ DetectOrder[10] = "http"
    BY DEF DetectOrder
  <1> HIDE DEF least
  <1>10. CASE 1 \in accepting
    BY <1>3, <1>6, <1>9, <1>10
  <1>11. CASE 1 \notin accepting /\ 2 \in accepting
    BY <1>3, <1>6, <1>8, <1>9, <1>11
  <1>12. CASE 1 \notin accepting /\ 2 \notin accepting /\ 3 \in accepting
    BY <1>3, <1>6, <1>8, <1>9, <1>12
  <1>13. CASE 1 \notin accepting /\ 2 \notin accepting /\ 3 \notin accepting /\ 4 \in accepting
    BY <1>3, <1>6, <1>8, <1>9, <1>13
  <1>14. CASE 1 \notin accepting /\ 2 \notin accepting /\ 3 \notin accepting /\ 4 \notin accepting
    <2>1. CASE 5 \in accepting
      BY <1>3, <1>6, <1>8, <1>9, <1>14, <2>1
    <2>2. CASE 5 \notin accepting /\ 6 \in accepting
      BY <1>3, <1>4, <1>6, <1>8, <1>9, <1>14, <2>2
    <2>3. CASE 5 \notin accepting /\ 6 \notin accepting /\ 7 \in accepting
      BY <1>3, <1>4, <1>6, <1>8, <1>9, <1>14, <2>3
    <2>4. CASE 5 \notin accepting /\ 6 \notin accepting /\ 7 \notin accepting
      <3>1. CASE 8 \in accepting
        BY <1>3, <1>4, <1>6, <1>8, <1>9, <1>14, <2>4, <3>1
      <3>2. CASE 8 \notin accepting /\ 9 \in accepting
        BY <1>3, <1>4, <1>6, <1>8, <1>9, <1>14, <2>4, <3>2
      <3>3. CASE 8 \notin accepting /\ 9 \notin accepting /\ 10 \in accepting
        BY <1>3, <1>4, <1>6, <1>8, <1>9, <1>14, <2>4, <3>3
      <3>4. CASE 8 \notin accepting /\ 9 \notin accepting /\ 10 \notin accepting
        <4>1. \A j \in 1 .. 10 : j \notin accepting
          BY <1>8, <1>14, <2>4, <3>4
        <4> QED
          BY <1>3, <1>4, <1>7, <1>14, <2>4, <3>4, <4>1
      <3> QED
        BY <3>1, <3>2, <3>3, <3>4
    <2> QED
      BY <2>1, <2>2, <2>3, <2>4
  <1> QED
    BY <1>10, <1>11, <1>12, <1>13, <1>14

\* Bytes with a word behind them.
LEMMA ThenWord ==
    ASSUME NEW s \in Seq(Byte), NEW w \in Seq(Byte), Len(w) = 4
    PROVE  /\ s \o w \in Seq(Byte)
           /\ Len(s \o w) = Len(s) + 4
           /\ \A k \in 1 .. Len(s) : (s \o w)[k] = s[k]
           /\ \A k \in 1 .. 4 : (s \o w)[Len(s) + k] = w[k]
  <1> DEFINE r == s \o w
             n == Len(s)
  <1>1. /\ r \in Seq(Byte) /\ Len(r) = Len(s) + Len(w)
        /\ \A i \in 1 .. Len(s) + Len(w) : r[i] = IF i <= Len(s) THEN s[i] ELSE w[i - Len(s)]
    BY ConcatProperties, Zenon
  <1>2. n \in Nat
    OBVIOUS
  <1> HIDE DEF r
  <1>3. Len(r) = n + 4 /\ \A i \in 1 .. n + 4 : r[i] = IF i <= n THEN s[i] ELSE w[i - n]
    BY <1>1
  <1> HIDE DEF n
  <1>4. \A k \in 1 .. n : r[k] = s[k]
    BY <1>2, <1>3
  <1>5. ASSUME NEW k \in 1 .. 4 PROVE r[n + k] = w[k]
    <2>1. n + k \in 1 .. n + 4 /\ ~(n + k <= n) /\ (n + k) - n = k
      BY <1>2
    <2> QED
      BY <1>3, <2>1
  <1> QED
    BY <1>1, <1>3, <1>4, <1>5 DEF r, n

\* Two words in a row.
LEMMA TwoWords ==
    ASSUME NEW v \in Seq(Byte), NEW w \in Seq(Byte), Len(v) = 4, Len(w) = 4
    PROVE  /\ v \o w \in Seq(Byte) /\ Len(v \o w) = 8
           /\ \A k \in 1 .. 4 : (v \o w)[k] = v[k]
           /\ \A k \in 1 .. 4 : (v \o w)[4 + k] = w[k]
  BY ThenWord

\* Three words in a row, and four.
Three(s, u, v, w) ==
    /\ s \in Seq(Byte) /\ Len(s) = 12
    /\ \A k \in 1 .. 4 : s[k] = u[k] /\ s[4 + k] = v[k] /\ s[8 + k] = w[k]

LEMMA ThreeWords ==
    ASSUME NEW u \in Seq(Byte), NEW v \in Seq(Byte), NEW w \in Seq(Byte),
           Len(u) = 4, Len(v) = 4, Len(w) = 4
    PROVE  Three(u \o v \o w, u, v, w)
  <1> DEFINE r == u \o v
             q == r \o w
  <1>1. /\ r \in Seq(Byte) /\ Len(r) = 8
        /\ \A k \in 1 .. 4 : r[k] = u[k] /\ r[4 + k] = v[k]
    BY TwoWords
  <1> HIDE DEF r
  <1>2. /\ q \in Seq(Byte) /\ Len(q) = Len(r) + 4
        /\ \A k \in 1 .. Len(r) : q[k] = r[k]
        /\ \A k \in 1 .. 4 : q[Len(r) + k] = w[k]
    BY <1>1, ThenWord, Zenon
  <1> HIDE DEF q
  <1>3. \A k \in 1 .. 4 : k \in 1 .. 8 /\ 4 + k \in 1 .. 8
    OBVIOUS
  <1>4. \A k \in 1 .. 4 : q[k] = u[k] /\ q[4 + k] = v[k]
    BY <1>1, <1>2, <1>3
  <1>5. Len(q) = 12 /\ \A k \in 1 .. 4 : q[8 + k] = w[k]
    BY <1>1, <1>2
  <1>6. Three(q, u, v, w)
    BY <1>2, <1>4, <1>5 DEF Three
  <1> QED
    BY <1>6, Zenon DEF q, r

Four(s, u, v, w, x) ==
    /\ s \in Seq(Byte) /\ Len(s) = 16
    /\ \A k \in 1 .. 4 : s[k] = u[k] /\ s[4 + k] = v[k] /\ s[8 + k] = w[k] /\ s[12 + k] = x[k]

LEMMA FourWords ==
    ASSUME NEW u \in Seq(Byte), NEW v \in Seq(Byte), NEW w \in Seq(Byte), NEW x \in Seq(Byte),
           Len(u) = 4, Len(v) = 4, Len(w) = 4, Len(x) = 4
    PROVE  Four(u \o v \o w \o x, u, v, w, x)
  <1> DEFINE r == u \o v \o w
             q == r \o x
  <1>1. Three(r, u, v, w)
    BY ThreeWords, Zenon
  <1> HIDE DEF r
  <1>2. /\ r \in Seq(Byte) /\ Len(r) = 12
        /\ \A k \in 1 .. 4 : r[k] = u[k] /\ r[4 + k] = v[k] /\ r[8 + k] = w[k]
    BY <1>1, Zenon DEF Three
  <1>3. /\ q \in Seq(Byte) /\ Len(q) = Len(r) + 4
        /\ \A k \in 1 .. Len(r) : q[k] = r[k]
        /\ \A k \in 1 .. 4 : q[Len(r) + k] = x[k]
    BY <1>2, ThenWord, ZenonT(60)
  <1> HIDE DEF q
  <1>4. \A k \in 1 .. 4 : k \in 1 .. 12 /\ 4 + k \in 1 .. 12 /\ 8 + k \in 1 .. 12
    OBVIOUS
  <1>5. \A k \in 1 .. 4 : q[k] = u[k] /\ q[4 + k] = v[k] /\ q[8 + k] = w[k]
    BY <1>2, <1>3, <1>4
  <1>6. Len(q) = 16 /\ \A k \in 1 .. 4 : q[12 + k] = x[k]
    BY <1>2, <1>3
  <1>7. Four(q, u, v, w, x)
    BY <1>3, <1>5, <1>6 DEF Four
  <1> QED
    BY <1>7, Zenon DEF q, r

\* The auto handler sees the same head, cut.
Cut(h) == [h EXCEPT !.len = Peeked(h)]

\* The parts of a head and of what the auto handler sees of it.
Made(h, proto, s, fill, len, json, at) ==
    /\ h.proto = proto /\ h.len = len /\ h.at = at
    /\ \A k \in 1 .. 16 : /\ h.bytes[k] \in Byte
                          /\ h.bytes[k] = IF k <= Len(s) THEN s[k] ELSE fill
    /\ Cut(h).len \in Nat /\ Cut(h).len <= 24
    /\ Cut(h).len = IF len < 24 THEN len ELSE 24
    /\ Cut(h).bytes = h.bytes /\ Cut(h).json = json /\ Cut(h).at = at
    /\ AutoDetect(h) = FirstAccepting(Cut(h))

LEMMA HeadIs ==
    ASSUME NEW proto, NEW s \in Seq(Byte), NEW fill \in Byte, NEW len \in Nat, NEW json, NEW at
    PROVE  Made(Head16(proto, s, fill, len, json, at), proto, s, fill, len, json, at)
  <1> DEFINE h == Head16(proto, s, fill, len, json, at)
  <1>1. /\ h.proto = proto /\ h.len = len /\ h.json = json /\ h.at = at
        /\ \A k \in 1 .. 16 : h.bytes[k] = IF k <= Len(s) THEN s[k] ELSE fill
    BY DEF Head16, Padded, HeadBytes
  <1>2. /\ AutoDetect(h) = FirstAccepting(Cut(h))
        /\ Cut(h).len = IF len < 24 THEN len ELSE 24
        /\ Cut(h).bytes = h.bytes /\ Cut(h).json = h.json /\ Cut(h).at = h.at
    BY DEF Head16, Cut, Peeked, AutoDetect, PeekSize
  <1>3. Cut(h).len \in Nat /\ Cut(h).len <= 24
    BY <1>2
  <1>4. \A k \in 1 .. 16 : (IF k <= Len(s) THEN s[k] ELSE fill) \in Byte
    OBVIOUS
  <1> HIDE DEF h
  <1>5. \A k \in 1 .. 16 : h.bytes[k] \in Byte
    BY <1>1, <1>4
  <1> QED
    BY <1>1, <1>2, <1>3, <1>5 DEF Made, h

\* What a message is taken for, by its protocol.
LEMMA OtherwiseIs ==
    ASSUME NEW h
    PROVE  /\ h.proto = "rocketmq" => OtherwiseTakenFor(h) = "rocketmq"
           /\ h.proto = "triple" =>
                 OtherwiseTakenFor(h) = IF h.len >= 24 THEN "triple" ELSE "websocket"
           /\ h.proto = "mongo" =>
                 OtherwiseTakenFor(h) = IF LooksShort(h) /\ ~HeaderInSight(h) THEN "rocketmq" ELSE "mongo"
           /\ h.proto = "mysql" =>
                 OtherwiseTakenFor(h) =
                    IF LooksShort(h) THEN "rocketmq"
                    ELSE IF \/ h.bytes[5] \in MySQLMarkers
                            \/ h.len <= PeekSize /\ h.bytes[5] < 251 THEN "mysql"
                    ELSE IF h.bytes[1] \in RESPTypes THEN "redis"
                    ELSE IF h.bytes[1] % 16 \in WebSocketOpcodes THEN "websocket"
                    ELSE Unknown
           /\ h.proto = "redis" =>
                 OtherwiseTakenFor(h) = IF h.bytes[4] = 13 THEN "mysql" ELSE "redis"
           /\ h.proto = "zookeeper" =>
                 OtherwiseTakenFor(h) = IF ~HeaderInSight(h) THEN "rocketmq"
                                        ELSE IF h.len <= PeekSize THEN "zookeeper"
                                        ELSE IF h.len < 256 THEN "websocket" ELSE "mysql"
           /\ h.proto = "websocket" =>
                 OtherwiseTakenFor(h) = IF h.at["upgrade"] < Never THEN "http"
                                        ELSE IF h.bytes[5] \in MySQLMarkers THEN "mysql"
                                        ELSE "websocket"
           /\ h.proto \in {"nacos", "http"} =>
                 OtherwiseTakenFor(h) = IF h.bytes[1] \in FrameLetters THEN "websocket"
                                        ELSE IF h.at["nacos"] <= PeekSize THEN "nacos" ELSE "http"
  BY SMT DEF OtherwiseTakenFor

\* No text shows in what has none.
LEMMA NothingShows ==
    ASSUME NEW h, h.at = NoText, h.len \in Nat, h.len < Never
    PROVE  \A f \in Features : ~Shows(h, f)
  BY SMT DEF NoText, Shows, Never, Features

\* The bytes of a word, and the word back from its bytes.
LEMMA WordBytes ==
    ASSUME NEW n \in FourBytes
    PROVE  /\ n \div 16777216 \in Nat /\ n \div 16777216 <= 127
           /\ (n \div 65536) % 256 \in Byte /\ (n \div 256) % 256 \in Byte /\ n % 256 \in Byte
           /\ U32(n \div 16777216, (n \div 65536) % 256, (n \div 256) % 256, n % 256) = n
  <1> DEFINE a == n \div 16777216
             p == n \div 65536
             q == n \div 256
  <1>1. n \in Nat /\ n <= 2147483647
    BY SMT DEF FourBytes, TooLarge
  <1>2. q \in Nat /\ n = 256 * q + (n % 256) /\ n % 256 \in 0 .. 255
    BY <1>1, SMT
  <1>3. p \in Nat /\ q = 256 * p + (q % 256) /\ q % 256 \in 0 .. 255
    BY <1>1, SMT
  <1>4. a \in Nat /\ a <= 127 /\ p = 256 * a + (p % 256) /\ p % 256 \in 0 .. 255
    BY <1>1, SMT
  <1> HIDE DEF a, p, q
  <1>5. U32(a, p % 256, q % 256, n % 256) = n
    BY <1>1, <1>2, <1>3, <1>4, SMT DEF U32
  <1>6. p % 256 \in Byte /\ q % 256 \in Byte /\ n % 256 \in Byte
    BY <1>2, <1>3, <1>4, SMT DEF Byte
  <1> QED
    BY <1>4, <1>5, <1>6, SMT DEF a, p, q

LEMMA BE32Is ==
    ASSUME NEW n \in FourBytes
    PROVE  /\ BE32(n) \in Seq(Byte) /\ Len(BE32(n)) = 4
           /\ \A k \in 1 .. 4 : BE32(n)[k] \in Byte
           /\ BE32(n)[1] <= 127
           /\ U32(BE32(n)[1], BE32(n)[2], BE32(n)[3], BE32(n)[4]) = n
           /\ n = ((BE32(n)[1] * 256 + BE32(n)[2]) * 256 + BE32(n)[3]) * 256 + BE32(n)[4]
  <1> DEFINE a == n \div 16777216
             b == (n \div 65536) % 256
             c == (n \div 256) % 256
             d == n % 256
  <1>1. /\ a \in Nat /\ a <= 127 /\ b \in Byte /\ c \in Byte /\ d \in Byte
        /\ U32(a, b, c, d) = n
    BY WordBytes, SMT
  <1>2. BE32(n) = <<a, b, c, d>>
    BY SMT DEF BE32
  <1> HIDE DEF a, b, c, d
  <1>3. n = ((a * 256 + b) * 256 + c) * 256 + d
    BY <1>1, SMT DEF U32, Byte
  <1> QED
    BY <1>1, <1>2, <1>3, SMT DEF Byte

LEMMA LE32Is ==
    ASSUME NEW n \in FourBytes
    PROVE  /\ LE32(n) \in Seq(Byte) /\ Len(LE32(n)) = 4
           /\ \A k \in 1 .. 4 : LE32(n)[k] \in Byte
           /\ LE32(n)[4] <= 127
           /\ U32(LE32(n)[4], LE32(n)[3], LE32(n)[2], LE32(n)[1]) = n
           /\ n = ((LE32(n)[4] * 256 + LE32(n)[3]) * 256 + LE32(n)[2]) * 256 + LE32(n)[1]
  <1> DEFINE a == n \div 16777216
             b == (n \div 65536) % 256
             c == (n \div 256) % 256
             d == n % 256
  <1>1. /\ a \in Nat /\ a <= 127 /\ b \in Byte /\ c \in Byte /\ d \in Byte
        /\ U32(a, b, c, d) = n
    BY WordBytes, SMT
  <1>2. LE32(n) = <<d, c, b, a>>
    BY SMT DEF LE32
  <1> HIDE DEF a, b, c, d
  <1>3. n = ((a * 256 + b) * 256 + c) * 256 + d
    BY <1>1, SMT DEF U32, Byte
  <1> QED
    BY <1>1, <1>2, <1>3, SMT DEF Byte

\* What four bytes are read as is a number.
LEMMA WordIsInt ==
    ASSUME NEW h, \A k \in 1 .. 16 : h.bytes[k] \in Byte
    PROVE  BE(h, 1) \in Int /\ BE(h, 5) \in Int
  <1>1. \A a, b, c, d \in Byte : U32(a, b, c, d) \in Int
    BY SMT DEF U32, TooLarge, Byte
  <1>2. /\ h.bytes[1] \in Byte /\ h.bytes[2] \in Byte /\ h.bytes[3] \in Byte /\ h.bytes[4] \in Byte
        /\ h.bytes[5] \in Byte /\ h.bytes[6] \in Byte /\ h.bytes[7] \in Byte /\ h.bytes[8] \in Byte
    BY SMT
  <1>3. /\ BE(h, 1) = U32(h.bytes[1], h.bytes[2], h.bytes[3], h.bytes[4])
        /\ BE(h, 5) = U32(h.bytes[5], h.bytes[6], h.bytes[7], h.bytes[8])
    BY SMT DEF BE
  <1>4. /\ U32(h.bytes[1], h.bytes[2], h.bytes[3], h.bytes[4]) \in Int
        /\ U32(h.bytes[5], h.bytes[6], h.bytes[7], h.bytes[8]) \in Int
    BY <1>1, <1>2
  <1> QED
    BY <1>3, <1>4

\* The length that a MySQL packet would have.
LEMMA LengthIs ==
    ASSUME NEW g, \A k \in 1 .. 16 : g.bytes[k] \in Byte
    PROVE  /\ MySQLLength(g) \in Nat
           /\ MySQLLength(g) = (g.bytes[3] * 256 + g.bytes[2]) * 256 + g.bytes[1]
           /\ g.bytes[2] > 0 => MySQLLength(g) >= 256
  <1> DEFINE b == g.bytes[3]
             c == g.bytes[2]
             d == g.bytes[1]
  <1>1. b \in Nat /\ c \in Nat /\ d \in Nat
    BY SMT DEF Byte
  <1>2. MySQLLength(g) = U32(0, b, c, d)
    BY SMT DEF MySQLLength
  <1> HIDE DEF b, c, d
  <1>3. /\ U32(0, b, c, d) \in Nat /\ U32(0, b, c, d) = (b * 256 + c) * 256 + d
        /\ c > 0 => U32(0, b, c, d) >= 256
    BY <1>1, SMT DEF U32
  <1> QED
    BY <1>2, <1>3, SMT DEF b, c, d

\* What the detectors refuse at the sight of a byte.
LEMMA Refused ==
    ASSUME NEW g, g.len \in Nat, g.len <= 24, \A k \in 1 .. 16 : g.bytes[k] \in Byte
    PROVE  /\ g.bytes[1] # 218 => ~DetectDubbo(g)
           /\ g.bytes[1] >= 7 => ~DetectRocketMQ(g) /\ ~DetectZK(g)
           /\ g.bytes[4] >= 4 => ~DetectMongo(g)
           /\ g.bytes[2] > 0 /\ g.bytes[5] \notin MySQLMarkers => ~DetectMySQL(g)
  <1>1. \A k \in 1 .. 16 : g.bytes[k] \in Int /\ 0 <= g.bytes[k] /\ g.bytes[k] <= 255
    BY SMT DEF Byte
  <1>2. BE(g, 1) \in Int /\ (g.bytes[1] >= 7 => BE(g, 1) > 104857600)
    <2> DEFINE a == g.bytes[1]
               b == g.bytes[2]
               c == g.bytes[3]
               d == g.bytes[4]
    <2>1. a \in Int /\ b \in Int /\ c \in Int /\ d \in Int /\ 0 <= b /\ 0 <= c /\ 0 <= d
      BY <1>1, SMT
    <2>2. BE(g, 1) = U32(a, b, c, d)
      BY SMT DEF BE
    <2> HIDE DEF a, b, c, d
    <2>3. U32(a, b, c, d) \in Int /\ (a >= 7 => U32(a, b, c, d) > 104857600)
      BY <2>1, SMT DEF U32, TooLarge
    <2> QED
      BY <2>2, <2>3, SMT DEF a
  <1>3. LE(g, 1) \in Int /\ (g.bytes[4] >= 4 => LE(g, 1) > 50331648)
    <2> DEFINE a == g.bytes[4]
               b == g.bytes[3]
               c == g.bytes[2]
               d == g.bytes[1]
    <2>1. a \in Int /\ b \in Int /\ c \in Int /\ d \in Int /\ 0 <= b /\ 0 <= c /\ 0 <= d
      BY <1>1, SMT
    <2>2. LE(g, 1) = U32(a, b, c, d)
      BY SMT DEF LE
    <2> HIDE DEF a, b, c, d
    <2>3. U32(a, b, c, d) \in Int /\ (a >= 4 => U32(a, b, c, d) > 50331648)
      BY <2>1, SMT DEF U32, TooLarge
    <2> QED
      BY <2>2, <2>3, SMT DEF a
  <1>4. MySQLLength(g) \in Int /\ (g.bytes[2] > 0 => MySQLLength(g) >= 256)
    BY LengthIs, SMT
  <1>5. ASSUME g.bytes[1] >= 7 PROVE ~DetectRocketMQ(g) /\ ~DetectZK(g)
    BY <1>2, <1>5, SMT DEF DetectRocketMQ, DetectZK, RocketMQMaxFrameSize
  <1>6. ASSUME g.bytes[4] >= 4 PROVE ~DetectMongo(g)
    BY <1>3, <1>6, SMT DEF DetectMongo
  <1>7. ASSUME g.bytes[2] > 0, g.bytes[5] \notin MySQLMarkers PROVE ~DetectMySQL(g)
    BY <1>4, <1>7, SMT DEF DetectMySQL
  <1>8. g.bytes[1] # 218 => ~DetectDubbo(g)
    BY SMT DEF DetectDubbo
  <1> QED
    BY <1>5, <1>6, <1>7, <1>8, SMT

LEMMA DubboDetected ==
    ASSUME NEW len \in Lengths(16)
    PROVE  AutoDetect(DubboHead(len)) = TakenFor(DubboHead(len))
  <1> DEFINE s == <<218, 187, 194, 0>>
             h == DubboHead(len)
             g == Cut(h)
  <1>1. len \in Nat /\ len >= 16
    BY SMT DEF Lengths
  <1>2. 0 \in Byte /\ s \in Seq(Byte) /\ Len(s) = 4 /\ s[1] = 218 /\ s[2] = 187
    BY SMT DEF Byte
  <1>3. h = Head16("dubbo", s, 0, len, FALSE, NoText)
    BY DEF DubboHead
  <1> HIDE DEF s, h
  <1>4. Made(h, "dubbo", s, 0, len, FALSE, NoText)
    BY <1>1, <1>2, <1>3, HeadIs, Zenon
  <1>5. DetectDubbo(g)
    BY <1>1, <1>2, <1>4, SMT DEF DetectDubbo, Made
  <1>6. FirstAccepting(g) = "dubbo"
    BY <1>5, FirstAcceptingIs, SMT
  <1>7. TakenFor(h) = "dubbo"
    BY <1>2, <1>4, SMT DEF Made, MagicInSight, TakenFor
  <1> QED
    BY <1>4, <1>6, <1>7, SMT DEF Made, h

LEMMA TripleDetected ==
    ASSUME NEW len \in Lengths(2)
    PROVE  AutoDetect(TripleHead(len)) = TakenFor(TripleHead(len))
  <1> DEFINE s == <<80, 82, 73, 32, 42, 32, 72, 84>>
             at == [NoText EXCEPT !["preface"] = 24, !["pri"] = 14]
             h == TripleHead(len)
             g == Cut(h)
  <1>1. len \in Nat /\ 84 \in Byte /\ s \in Seq(Byte)
    BY SMT DEF Byte, Lengths
  <1>2. len >= 2 /\ Len(s) = 8 /\ s[1] = 80 /\ s[2] = 82 /\ s[4] = 32 /\ s[5] = 42
    BY SMT DEF Lengths
  <1>3. h = Head16("triple", s, 84, len, FALSE, at)
    BY DEF TripleHead
  <1>4. at["preface"] = 24 /\ at["upgrade"] = Never /\ at["switching"] = Never
    BY DEF NoText, Features
  <1> HIDE DEF s, h, at
  <1>5. Made(h, "triple", s, 84, len, FALSE, at)
    BY <1>1, <1>3, HeadIs, Zenon
  <1>6. /\ h.bytes[1] = 80 /\ h.bytes[2] = 82 /\ h.bytes[4] = 32 /\ h.bytes[5] = 42
        /\ g.bytes = h.bytes
    BY <1>2, <1>5, SMT DEF Made
  <1>7. /\ \A k \in 1 .. 16 : g.bytes[k] \in Byte
        /\ g.len \in Nat /\ g.len <= 24 /\ g.len = (IF len < 24 THEN len ELSE 24) /\ g.at = at
        /\ h.proto = "triple" /\ h.len = len
    BY <1>5, SMT DEF Made
  <1>8. TakenFor(h) = IF len >= 24 THEN "triple" ELSE "websocket"
    BY <1>6, <1>7, OtherwiseIs, SMT DEF TakenFor, MagicInSight
  <1> HIDE DEF g
  <1>9. ~DetectDubbo(g) /\ ~DetectRocketMQ(g) /\ ~DetectZK(g) /\ ~DetectMongo(g) /\ ~DetectMySQL(g)
    <2>1. g.bytes[5] \notin MySQLMarkers
      BY <1>6, SMT DEF MySQLMarkers
    <2> QED
      BY <1>6, <1>7, <2>1, Refused, SMT
  <1>10. ~DetectRESP(g) /\ DetectWebSocket(g)
    <2>1. g.len >= 2
      BY <1>1, <1>2, <1>7, SMT
    <2> QED
      BY <1>6, <1>7, <2>1, SMT DEF DetectRESP, RESPTypes, DetectWebSocket, WebSocketOpcodes
  <1>11. DetectTriple(g) <=> len >= 24
    BY <1>1, <1>4, <1>7, SMT DEF DetectTriple, Shows
  <1>12. FirstAccepting(g) = IF len >= 24 THEN "triple" ELSE "websocket"
    BY <1>9, <1>10, <1>11, FirstAcceptingIs, SMT
  <1> QED
    BY <1>5, <1>8, <1>12, SMT DEF Made, g, h

LEMMA RedisDetected ==
    ASSUME NEW n \in 1 .. 99
    PROVE  AutoDetect(RedisHead(n)) = TakenFor(RedisHead(n))
  <1> DEFINE s == IF n < 10 THEN <<42, 48 + n, 13, 10>>
                  ELSE <<42, 48 + (n \div 10), 48 + (n % 10), 13, 10>>
             h == RedisHead(n)
             g == Cut(h)
  <1>1. 40 \in Nat /\ 36 \in Byte /\ s \in Seq(Byte)
    <2>1. CASE n < 10
      BY <2>1, SMT DEF Byte
    <2>2. CASE n >= 10
      <3> DEFINE a == 48 + (n \div 10)
                 b == 48 + (n % 10)
      <3>1. a \in Byte /\ b \in Byte /\ 42 \in Byte /\ 13 \in Byte /\ 10 \in Byte
        BY SMT DEF Byte
      <3>2. s = <<42, a, b, 13, 10>>
        BY <2>2
      <3> HIDE DEF a, b, s
      <3>3. s \in Seq(Byte)
        BY <3>1, <3>2
      <3> QED
        BY <3>3, SMT DEF Byte
    <2> QED
      BY <2>1, <2>2
  <1>2. /\ s[1] = 42 /\ Len(s) = (IF n < 10 THEN 4 ELSE 5)
        /\ s[2] > 0
        /\ s[4] = IF n < 10 THEN 10 ELSE 13
        /\ n >= 10 => s[5] = 10
    OBVIOUS
  <1>3. h = Head16("redis", s, 36, 40, FALSE, NoText)
    BY DEF RedisHead
  <1> HIDE DEF s, h
  <1>4. Made(h, "redis", s, 36, 40, FALSE, NoText)
    BY <1>1, <1>3, HeadIs, Zenon
  <1>5. /\ h.bytes[1] = 42 /\ h.bytes[2] > 0 /\ h.bytes[4] = (IF n < 10 THEN 10 ELSE 13)
        /\ h.bytes[5] = (IF n < 10 THEN 36 ELSE 10)
        /\ g.bytes = h.bytes
    BY <1>2, <1>4, SMT DEF Made
  <1>6. /\ \A k \in 1 .. 16 : g.bytes[k] \in Byte
        /\ g.len = 24 /\ g.at = NoText
        /\ h.proto = "redis"
    BY <1>4, SMT DEF Made
  <1>7. TakenFor(h) = IF n >= 10 THEN "mysql" ELSE "redis"
    BY <1>5, <1>6, OtherwiseIs, SMT DEF TakenFor, MagicInSight
  <1> HIDE DEF g
  <1>8. ~DetectDubbo(g) /\ ~DetectRocketMQ(g) /\ ~DetectMongo(g)
    BY <1>5, <1>6, Refused, SMT
  <1>9. ~DetectTriple(g)
    BY <1>6, NothingShows, SMT DEF DetectTriple, Features, Never
  <1>10. DetectMySQL(g) <=> n >= 10
    <2>1. CASE n < 10
      <3>1. g.bytes[5] \notin MySQLMarkers
        BY <1>5, <2>1, SMT DEF MySQLMarkers
      <3> QED
        BY <1>5, <1>6, <2>1, <3>1, Refused, SMT
    <2>2. CASE n >= 10
      <3>1. g.bytes[5] \in MySQLMarkers
        BY <1>5, <2>2, SMT DEF MySQLMarkers
      <3>2. MySQLLength(g) # 0
        BY <1>5, <1>6, LengthIs, SMT
      <3> QED
        BY <1>6, <2>2, <3>1, <3>2, SMT DEF DetectMySQL
    <2> QED
      BY <2>1, <2>2
  <1>11. DetectRESP(g)
    BY <1>5, <1>6, SMT DEF DetectRESP, RESPTypes
  <1>12. FirstAccepting(g) = IF n >= 10 THEN "mysql" ELSE "redis"
    BY <1>8, <1>9, <1>10, <1>11, FirstAcceptingIs, SMT
  <1> QED
    BY <1>4, <1>7, <1>12, SMT DEF Made, g, h

LEMMA WebSocketDetected ==
    ASSUME NEW opcode \in WebSocketOpcodes, NEW length \in 0 .. 125, NEW mask \in Byte
    PROVE  AutoDetect(WebSocketHead(opcode, length, mask)) = TakenFor(WebSocketHead(opcode, length, mask))
  <1> DEFINE a == 128 + opcode
             b == 128 + length
             len == length + 6
             s == <<a, b, mask, 77, mask, 77>>
             h == WebSocketHead(opcode, length, mask)
             g == Cut(h)
  <1>1. /\ a \in Byte /\ b \in Byte /\ 77 \in Byte /\ len \in Nat
    BY SMT DEF Byte, WebSocketOpcodes
  <1>2. a >= 128 /\ a <= 138 /\ a % 16 \in WebSocketOpcodes /\ b > 0 /\ len >= 6
    BY SMT DEF WebSocketOpcodes
  <1>3. h = Head16("websocket", s, 77, len, FALSE, NoText)
    BY DEF WebSocketHead
  <1> HIDE DEF a, b, len, h
  <1>4. s \in Seq(Byte) /\ Len(s) = 6 /\ s[1] = a /\ s[2] = b /\ s[4] = 77 /\ s[5] = mask
    BY <1>1, SMT
  <1> HIDE DEF s
  <1>5. Made(h, "websocket", s, 77, len, FALSE, NoText)
    BY <1>1, <1>3, <1>4, HeadIs, ZenonT(60)
  <1>6. /\ h.bytes[1] = a /\ h.bytes[2] = b /\ h.bytes[4] = 77 /\ h.bytes[5] = mask
        /\ g.bytes = h.bytes
    BY <1>4, <1>5, SMT DEF Made
  <1>7. /\ \A k \in 1 .. 16 : g.bytes[k] \in Byte
        /\ g.len \in Nat /\ g.len <= 24 /\ g.len = (IF len < 24 THEN len ELSE 24) /\ g.at = NoText
        /\ h.proto = "websocket" /\ h.at = NoText
    BY <1>5, SMT DEF Made
  <1>8. TakenFor(h) = IF mask \in MySQLMarkers THEN "mysql" ELSE "websocket"
    <2>1. ~(h.at["upgrade"] < Never)
      BY <1>7, SMT DEF NoText, Features, Never
    <2>2. ~MagicInSight(h)
      BY <1>2, <1>6, SMT DEF MagicInSight
    <2> QED
      BY <1>6, <1>7, <2>1, <2>2, OtherwiseIs, SMT DEF TakenFor
  <1>9. g.len >= 6
    BY <1>1, <1>2, <1>7, SMT
  <1> HIDE DEF g
  <1>10. ~DetectDubbo(g) /\ ~DetectRocketMQ(g) /\ ~DetectMongo(g) /\ ~DetectZK(g)
    <2>1. g.bytes[1] >= 7 /\ g.bytes[1] # 218 /\ g.bytes[4] >= 4
      BY <1>1, <1>2, <1>6, SMT DEF Byte
    <2> QED
      BY <1>7, <2>1, Refused, SMT
  <1>11. ~DetectTriple(g)
    BY <1>7, NothingShows, SMT DEF DetectTriple, Features, Never
  <1>12. DetectMySQL(g) <=> mask \in MySQLMarkers
    <2>1. MySQLLength(g) \in Nat /\ MySQLLength(g) >= 256
      BY <1>1, <1>2, <1>6, <1>7, LengthIs, SMT
    <2> QED
      BY <1>6, <1>7, <1>9, <2>1, SMT DEF DetectMySQL
  <1>13. ~DetectRESP(g) /\ DetectWebSocket(g)
    BY <1>1, <1>2, <1>6, <1>7, <1>9, SMT DEF DetectRESP, RESPTypes, DetectWebSocket
  <1>14. FirstAccepting(g) = IF mask \in MySQLMarkers THEN "mysql" ELSE "websocket"
    BY <1>10, <1>11, <1>12, <1>13, FirstAcceptingIs, SMT
  <1> QED
    BY <1>5, <1>8, <1>14, SMT DEF Made, g, h

\* A request whose upgrade, if any, lies beyond what the auto handler reads.
LEMMA RequestDetected ==
    ASSUME NEW letter \in MethodLetters, NEW n \in 3 .. 7, NEW nacos \in Nat, NEW upgrade \in Nat,
           upgrade >= Never \/ (upgrade > 24 /\ letter = 71 /\ nacos = Never)
    PROVE  AutoDetect(HTTPHead(letter, n, nacos, upgrade)) = TakenFor(HTTPHead(letter, n, nacos, upgrade))
  <1> DEFINE proto == IF upgrade < Never THEN "websocket" ELSE IF nacos < Never THEN "nacos" ELSE "http"
             s == <<letter>>
             at == [NoText EXCEPT !["method"] = n + 1, !["nacos"] = nacos, !["upgrade"] = upgrade]
             h == HTTPHead(letter, n, nacos, upgrade)
             g == Cut(h)
             frame == letter \in FrameLetters
             taken == IF frame THEN "websocket" ELSE IF nacos <= 24 THEN "nacos" ELSE "http"
  <1>1. 69 \in Byte /\ letter \in Byte /\ 80 \in Nat /\ s \in Seq(Byte)
    BY SMT DEF Byte, MethodLetters
  <1>2. /\ Len(s) = 1 /\ s[1] = letter /\ letter >= 67 /\ letter <= 84
        /\ letter \notin RESPTypes
        /\ letter % 16 \in WebSocketOpcodes <=> frame
    BY SMT DEF MethodLetters, RESPTypes, WebSocketOpcodes, FrameLetters
  <1>3. h = Head16(proto, s, 69, 80, FALSE, at)
    BY DEF HTTPHead
  <1>4. /\ at["method"] = n + 1 /\ at["nacos"] = nacos /\ at["upgrade"] = upgrade
        /\ at["preface"] = Never /\ at["pri"] = Never /\ at["switching"] = Never
    BY DEF NoText, Features
  <1> HIDE DEF s, h, at, proto
  <1>5. Made(h, proto, s, 69, 80, FALSE, at)
    BY <1>1, <1>3, HeadIs, ZenonT(60)
  <1>6. /\ h.bytes[1] = letter /\ h.bytes[2] = 69 /\ h.bytes[4] = 69 /\ h.bytes[5] = 69
        /\ g.bytes = h.bytes
    BY <1>2, <1>5, SMT DEF Made
  <1>7. /\ \A k \in 1 .. 16 : g.bytes[k] \in Byte
        /\ g.len = 24 /\ g.at = at
        /\ h.proto = proto /\ h.at = at
    BY <1>5, SMT DEF Made
  <1>8. TakenFor(h) = taken
    <2>1. ~MagicInSight(h)
      BY <1>2, <1>6, SMT DEF MagicInSight
    <2>2. CASE upgrade < Never
      <3>1. proto = "websocket" /\ ~frame /\ ~(nacos <= 24)
        BY <2>2, SMT DEF proto, Never, FrameLetters
      <3> QED
        BY <1>4, <1>7, <2>1, <2>2, <3>1, OtherwiseIs, SMT DEF TakenFor
    <2>3. CASE ~(upgrade < Never)
      <3>1. proto \in {"nacos", "http"}
        BY <2>3, SMT DEF proto
      <3> QED
        BY <1>4, <1>6, <1>7, <2>1, <3>1, OtherwiseIs, SMT DEF TakenFor, PeekSize
    <2> QED
      BY <2>2, <2>3
  <1> HIDE DEF g
  <1>9. ~DetectDubbo(g) /\ ~DetectRocketMQ(g) /\ ~DetectMongo(g) /\ ~DetectZK(g) /\ ~DetectMySQL(g)
    <2>1. g.bytes[5] \notin MySQLMarkers
      BY <1>6, SMT DEF MySQLMarkers
    <2>2. g.bytes[1] >= 7 /\ g.bytes[1] # 218 /\ g.bytes[2] > 0 /\ g.bytes[4] >= 4
      BY <1>1, <1>2, <1>6, SMT DEF Byte
    <2> QED
      BY <1>7, <2>1, <2>2, Refused, SMT
  <1>10. upgrade > 24
    BY SMT DEF Never
  <1>11. ~DetectTriple(g) /\ ~DetectRESP(g)
    BY <1>2, <1>4, <1>6, <1>7, SMT DEF DetectTriple, Shows, DetectRESP, Never
  <1>12. DetectWebSocket(g) <=> frame
    BY <1>2, <1>4, <1>6, <1>7, <1>10, SMT DEF DetectWebSocket, Shows, Never
  <1>13. DetectNacos(g) <=> nacos <= 24
    BY <1>4, <1>7, SMT DEF DetectNacos, Shows, Never
  <1>14. DetectHTTP(g)
    BY <1>4, <1>7, SMT DEF DetectHTTP, Shows, Never
  <1>15. FirstAccepting(g) = taken
    BY <1>9, <1>11, <1>12, <1>13, <1>14, FirstAcceptingIs, SMT
  <1> QED
    BY <1>5, <1>8, <1>15, SMT DEF Made, g, h

LEMMA ResponseDetected == AutoDetect(HTTPResponseHead) = TakenFor(HTTPResponseHead)
  <1> DEFINE s == <<72, 84, 84, 80, 47, 49, 46>>
             at == [NoText EXCEPT !["response"] = 7]
             h == HTTPResponseHead
             g == Cut(h)
  <1>1. 32 \in Byte /\ 80 \in Nat /\ s \in Seq(Byte)
    BY SMT DEF Byte
  <1>2. Len(s) = 7 /\ s[1] = 72 /\ s[2] = 84 /\ s[4] = 80 /\ s[5] = 47
    BY SMT
  <1>3. h = Head16("http", s, 32, 80, FALSE, at)
    BY DEF HTTPResponseHead
  <1>4. at["preface"] = Never
    BY DEF NoText, Features
  <1> HIDE DEF s, h, at
  <1>5. Made(h, "http", s, 32, 80, FALSE, at)
    BY <1>1, <1>3, HeadIs, Zenon
  <1>6. /\ h.bytes[1] = 72 /\ h.bytes[2] = 84 /\ h.bytes[4] = 80 /\ h.bytes[5] = 47
        /\ g.bytes = h.bytes
    BY <1>2, <1>5, SMT DEF Made
  <1>7. /\ \A k \in 1 .. 16 : g.bytes[k] \in Byte
        /\ g.len = 24 /\ g.at = at
        /\ h.proto = "http"
    BY <1>5, SMT DEF Made
  <1>8. TakenFor(h) = "websocket"
    BY <1>6, <1>7, OtherwiseIs, SMT DEF TakenFor, MagicInSight, FrameLetters
  <1> HIDE DEF g
  <1>9. ~DetectDubbo(g) /\ ~DetectRocketMQ(g) /\ ~DetectMongo(g) /\ ~DetectZK(g) /\ ~DetectMySQL(g)
    <2>1. g.bytes[5] \notin MySQLMarkers
      BY <1>6, SMT DEF MySQLMarkers
    <2> QED
      BY <1>6, <1>7, <2>1, Refused, SMT
  <1>10. ~DetectTriple(g)
    BY <1>4, <1>7, SMT DEF DetectTriple, Shows, Never
  <1>11. ~DetectRESP(g) /\ DetectWebSocket(g)
    BY <1>6, <1>7, SMT DEF DetectRESP, RESPTypes, DetectWebSocket, WebSocketOpcodes
  <1>12. FirstAccepting(g) = "websocket"
    BY <1>9, <1>10, <1>11, FirstAcceptingIs, SMT
  <1> QED
    BY <1>5, <1>8, <1>12, SMT DEF Made, g, h

LEMMA RocketMQDetected ==
    ASSUME NEW len \in Lengths(10), NEW n \in 2 .. len - 8
    PROVE  AutoDetect(RocketMQHead(n, len - 8 - n)) = TakenFor(RocketMQHead(n, len - 8 - n))
  <1> DEFINE body == len - 8 - n
             v == BE32(len)
             w == BE32(n + 4)
             s == v \o w
             h == RocketMQHead(n, body)
             g == Cut(h)
  <1>1. len \in Nat /\ len >= 10 /\ len < 1000000 /\ n \in Nat /\ n <= len - 8
    BY SMT DEF Lengths, Never
  <1>2. len \in FourBytes /\ n + 4 \in FourBytes /\ 123 \in Byte
    BY <1>1, SMT DEF FourBytes, TooLarge, Byte
  <1>3. 8 + n + body = len
    BY <1>1, SMT
  <1>4. h = Head16("rocketmq", s, 123, len, TRUE, NoText)
    <2> HIDE DEF body
    <2>1. h = Head16("rocketmq", BE32(8 + n + body) \o BE32(n + 4), 123, 8 + n + body, TRUE, NoText)
      BY Zenon DEF RocketMQHead
    <2> QED
      BY <1>3, <2>1, Zenon
  <1>5. /\ v \in Seq(Byte) /\ Len(v) = 4 /\ v[1] <= 127 /\ v[1] \in Byte
        /\ U32(v[1], v[2], v[3], v[4]) = len
    BY <1>2, BE32Is, SMT
  <1>6. w \in Seq(Byte) /\ Len(w) = 4
    BY <1>2, BE32Is, SMT
  <1> HIDE DEF v, w, h, body
  <1>7. s \in Seq(Byte) /\ Len(s) = 8 /\ \A k \in 1 .. 4 : s[k] = v[k]
    BY <1>5, <1>6, TwoWords
  <1> HIDE DEF s
  <1>8. Made(h, "rocketmq", s, 123, len, TRUE, NoText)
    <2>1. len \in Nat
      BY <1>1
    <2> QED
      BY <1>2, <1>4, <1>7, <2>1, HeadIs, ZenonT(60)
  <1>9. /\ h.bytes[1] = v[1] /\ h.bytes[2] = v[2] /\ h.bytes[3] = v[3] /\ h.bytes[4] = v[4]
        /\ g.bytes = h.bytes
    <2>1. g.bytes = h.bytes /\ \A k \in 1 .. 4 : h.bytes[k] = s[k]
      BY <1>7, <1>8, SMT DEF Made
    <2> QED
      BY <1>7, <2>1, SMT
  <1>10. /\ g.len \in Nat /\ g.len = (IF len < 24 THEN len ELSE 24) /\ g.at = NoText /\ g.json = TRUE
         /\ h.proto = "rocketmq"
    BY <1>8, SMT DEF Made
  <1>11. h.bytes[1] # 218
    BY <1>5, <1>9, SMT DEF Byte
  <1>12. TakenFor(h) = "rocketmq"
    BY <1>10, <1>11, OtherwiseIs, SMT DEF TakenFor, MagicInSight
  <1>13. g.len >= 10 /\ g.len < Never
    BY <1>1, <1>10, SMT DEF Never
  <1> HIDE DEF g
  <1>14. ~DetectDubbo(g) /\ ~DetectTriple(g)
    BY <1>9, <1>10, <1>11, <1>13, NothingShows, SMT DEF DetectDubbo, DetectTriple, Features
  <1>15. BE(g, 1) = len
    BY <1>5, <1>9, SMT DEF BE
  <1>16. DetectRocketMQ(g)
    BY <1>1, <1>10, <1>13, <1>15, SMT DEF DetectRocketMQ, RocketMQMinFrameSize, RocketMQMaxFrameSize
  <1>17. FirstAccepting(g) = "rocketmq"
    BY <1>14, <1>16, FirstAcceptingIs, SMT
  <1> QED
    BY <1>8, <1>12, <1>17, SMT DEF Made, g, h, body

LEMMA ZooKeeperDetected ==
    ASSUME NEW len \in Lengths(12), NEW xid \in FourBytes, NEW type \in ZKTypes
    PROVE  AutoDetect(ZooKeeperHead(len, xid, type)) = TakenFor(ZooKeeperHead(len, xid, type))
  <1> DEFINE u == BE32(len)
             v == BE32(xid)
             w == BE32(type)
             s == u \o v \o w
             h == ZooKeeperHead(len, xid, type)
             g == Cut(h)
             seen == xid >= 4 /\ xid <= g.len - 8
             taken == IF ~seen THEN "rocketmq" ELSE IF len <= 24 THEN "zookeeper"
                      ELSE IF len < 256 THEN "websocket" ELSE "mysql"
  <1>1. len \in Nat /\ len >= 12 /\ len < 1000000 /\ xid \in Nat
    BY SMT DEF Lengths, Never, FourBytes
  <1>2. len \in FourBytes /\ type \in FourBytes /\ 0 \in Byte
    BY <1>1, SMT DEF FourBytes, TooLarge, Byte, ZKTypes
  <1>3. h = Head16("zookeeper", s, 0, len, FALSE, NoText)
    BY Zenon DEF ZooKeeperHead
  <1>4. /\ u \in Seq(Byte) /\ Len(u) = 4 /\ u[1] \in Byte /\ u[2] \in Byte /\ u[3] \in Byte /\ u[4] \in Byte
        /\ U32(u[1], u[2], u[3], u[4]) = len
        /\ len = ((u[1] * 256 + u[2]) * 256 + u[3]) * 256 + u[4]
    BY <1>2, BE32Is, SMT
  <1>5. /\ v \in Seq(Byte) /\ Len(v) = 4 /\ v[1] \in Byte /\ v[2] \in Byte /\ v[3] \in Byte /\ v[4] \in Byte
        /\ U32(v[1], v[2], v[3], v[4]) = xid
        /\ xid = ((v[1] * 256 + v[2]) * 256 + v[3]) * 256 + v[4]
    BY BE32Is, SMT
  <1>6. w \in Seq(Byte) /\ Len(w) = 4 /\ U32(w[1], w[2], w[3], w[4]) = type
    BY <1>2, BE32Is, SMT
  <1> HIDE DEF u, v, w, h
  <1>7. /\ s \in Seq(Byte) /\ Len(s) = 12
        /\ \A k \in 1 .. 4 : s[k] = u[k] /\ s[4 + k] = v[k] /\ s[8 + k] = w[k]
    <2>1. Three(s, u, v, w)
      BY <1>4, <1>5, <1>6, ThreeWords, Zenon
    <2> HIDE DEF s
    <2> QED
      BY <2>1 DEF Three
  <1> HIDE DEF s
  <1>8. Made(h, "zookeeper", s, 0, len, FALSE, NoText)
    <2>1. len \in Nat
      BY <1>1
    <2> QED
      BY <1>2, <1>3, <1>7, <2>1, HeadIs, Zenon
  <1>9. /\ h.bytes[1] = u[1] /\ h.bytes[2] = u[2] /\ h.bytes[3] = u[3] /\ h.bytes[4] = u[4]
        /\ h.bytes[5] = v[1] /\ h.bytes[6] = v[2] /\ h.bytes[7] = v[3] /\ h.bytes[8] = v[4]
        /\ h.bytes[9] = w[1] /\ h.bytes[10] = w[2] /\ h.bytes[11] = w[3] /\ h.bytes[12] = w[4]
        /\ h.bytes[13] = 0 /\ h.bytes[14] = 0 /\ h.bytes[15] = 0 /\ h.bytes[16] = 0
    <2>1. \A k \in 1 .. 12 : h.bytes[k] = s[k]
      BY <1>7, <1>8, SMT DEF Made
    <2>2. \A k \in 13 .. 16 : h.bytes[k] = 0
      BY <1>7, <1>8, SMTT(60) DEF Made
    <2>3. /\ s[1] = u[1] /\ s[2] = u[2] /\ s[3] = u[3] /\ s[4] = u[4]
          /\ s[5] = v[1] /\ s[6] = v[2] /\ s[7] = v[3] /\ s[8] = v[4]
          /\ s[9] = w[1] /\ s[10] = w[2] /\ s[11] = w[3] /\ s[12] = w[4]
      BY <1>7, SMT
    <2> QED
      BY <2>1, <2>2, <2>3, SMT
  <1>10. /\ \A k \in 1 .. 16 : g.bytes[k] \in Byte
         /\ g.len \in Nat /\ g.len <= 24 /\ g.len = (IF len < 24 THEN len ELSE 24)
         /\ g.at = NoText /\ g.json = FALSE /\ g.bytes = h.bytes
         /\ h.proto = "zookeeper" /\ h.len = len
    BY <1>8, SMT DEF Made
  <1>11. u[1] = 0 /\ (len < 256 => u[2] = 0 /\ u[3] = 0) /\ (len >= 256 => u[2] > 0 \/ u[3] > 0)
    BY <1>1, <1>4, SMTT(60) DEF Byte
  <1>12. TakenFor(h) = taken
    <2>1. BE(h, 5) = xid
      BY <1>5, <1>9, SMT DEF BE
    <2>2. Peeked(h) = g.len
      BY <1>1, <1>10, SMT DEF Peeked, PeekSize
    <2>3. HeaderInSight(h) <=> seen
      BY <1>1, <1>10, <2>1, <2>2, SMT DEF HeaderInSight
    <2>4. ~MagicInSight(h)
      BY <1>9, <1>11, SMT DEF MagicInSight
    <2> QED
      BY <1>10, <2>3, <2>4, OtherwiseIs, SMT DEF TakenFor, PeekSize
  <1>13. g.len >= 12 /\ g.len < Never
    BY <1>1, <1>10, SMT DEF Never
  <1> HIDE DEF g
  <1>14. ~DetectDubbo(g) /\ ~DetectTriple(g) /\ ~DetectRESP(g)
    BY <1>9, <1>10, <1>11, <1>13, NothingShows, SMT
       DEF DetectDubbo, DetectTriple, DetectRESP, RESPTypes, Features
  <1>15. BE(g, 1) = len /\ BE(g, 5) = xid /\ BE(g, 9) = type
    BY <1>4, <1>5, <1>6, <1>9, <1>10, SMTT(60) DEF BE
  <1>16. DetectRocketMQ(g) <=> ~seen
    BY <1>1, <1>10, <1>13, <1>15, SMT DEF DetectRocketMQ, RocketMQMinFrameSize, RocketMQMaxFrameSize
  <1>17. ~DetectMongo(g)
    <2>1. LE(g, 13) = 0
      BY <1>9, <1>10, SMT DEF LE, U32
    <2> QED
      BY <2>1, SMT DEF DetectMongo, MongoOpCodes
  <1>18. seen => (DetectMySQL(g) <=> len >= 256)
    <2>1. ASSUME seen PROVE g.bytes[5] \in MySQLMarkers
      <3>1. xid <= 16
        BY <1>1, <1>10, <2>1, SMT
      <3> DEFINE a == v[1]
                 b == v[2]
                 c == v[3]
                 d == v[4]
      <3>2. /\ a \in Nat /\ b \in Nat /\ c \in Nat /\ d \in Nat
            /\ xid = ((a * 256 + b) * 256 + c) * 256 + d
        BY <1>5, SMT DEF Byte
      <3> HIDE DEF a, b, c, d
      <3>3. a = 0
        BY <3>1, <3>2, SMT
      <3> QED
        BY <1>9, <1>10, <3>3, SMT DEF MySQLMarkers, a
    <2>2. MySQLLength(g) = (u[3] * 256 + u[2]) * 256
      <3>1. MySQLLength(g) = (u[3] * 256 + u[2]) * 256 + u[1]
        BY <1>9, <1>10, LengthIs, SMT
      <3> QED
        BY <1>4, <1>11, <3>1, SMT DEF Byte
    <2>3. MySQLLength(g) # 0 <=> len >= 256
      BY <1>1, <1>4, <1>11, <2>2, SMTT(60) DEF Byte
    <2> QED
      BY <1>13, <1>10, <2>1, <2>3, SMT DEF DetectMySQL
  <1>19. DetectZK(g) <=> len <= 24
    <2>1. IsValidType(g)
      BY <1>15, SMT DEF IsValidType
    <2> QED
      BY <1>1, <1>10, <1>13, <1>15, <2>1, SMT DEF DetectZK
  <1>20. DetectWebSocket(g)
    BY <1>9, <1>10, <1>11, <1>13, SMT DEF DetectWebSocket, WebSocketOpcodes
  <1>21. FirstAccepting(g) = taken
    BY <1>1, <1>14, <1>16, <1>17, <1>18, <1>19, <1>20, FirstAcceptingIs, SMT
  <1> QED
    BY <1>8, <1>12, <1>21, SMT DEF Made, g, h

LEMMA MongoDetected ==
    ASSUME NEW len \in Lengths(16), NEW id \in FourBytes
    PROVE  AutoDetect(MongoHead(len, id)) = TakenFor(MongoHead(len, id))
  <1> DEFINE u == LE32(len)
             v == LE32(id)
             w == LE32(0)
             x == LE32(2013)
             s == u \o v \o w \o x
             h == MongoHead(len, id)
             g == Cut(h)
             header == BE(h, 5)
             seen == HeaderInSight(h)
             short == LooksShort(h)
             magic == MagicInSight(h)
             taken == IF magic THEN "dubbo" ELSE IF short /\ ~seen THEN "rocketmq" ELSE "mongo"
  <1>1. len \in Nat /\ len >= 16 /\ len < 1000000
    BY SMT DEF Lengths, Never
  <1>2. len \in FourBytes /\ 0 \in FourBytes /\ 2013 \in FourBytes
    BY <1>1, SMT DEF FourBytes, TooLarge
  <1>3. h = Head16("mongo", s, 0, len, FALSE, NoText)
    BY Zenon DEF MongoHead
  <1>4. /\ u \in Seq(Byte) /\ Len(u) = 4 /\ u[1] \in Byte /\ u[2] \in Byte /\ u[3] \in Byte /\ u[4] \in Byte
        /\ U32(u[4], u[3], u[2], u[1]) = len
        /\ len = ((u[4] * 256 + u[3]) * 256 + u[2]) * 256 + u[1]
    BY <1>2, LE32Is, SMT
  <1>5. v \in Seq(Byte) /\ Len(v) = 4
    BY LE32Is, SMT
  <1>6. w \in Seq(Byte) /\ Len(w) = 4
    BY <1>2, LE32Is, SMT
  <1>7. x \in Seq(Byte) /\ Len(x) = 4 /\ U32(x[4], x[3], x[2], x[1]) = 2013
    BY <1>2, LE32Is, SMT
  <1> HIDE DEF u, v, w, x, h
  <1>8. /\ s \in Seq(Byte) /\ Len(s) = 16
        /\ \A k \in 1 .. 4 : s[k] = u[k] /\ s[12 + k] = x[k]
    <2>0. u \in Seq(Byte) /\ Len(u) = 4 /\ x \in Seq(Byte) /\ Len(x) = 4
      BY <1>4, <1>7, SMT
    <2>1. Four(s, u, v, w, x)
      BY <1>5, <1>6, <2>0, FourWords, Zenon
    <2> HIDE DEF s
    <2> QED
      BY <2>1 DEF Four
  <1> HIDE DEF s
  <1>9. Made(h, "mongo", s, 0, len, FALSE, NoText)
    <2>1. len \in Nat /\ 0 \in Byte
      BY <1>1, SMT DEF Byte
    <2> QED
      BY <1>3, <1>8, <2>1, HeadIs, Zenon
  <1>10. /\ h.bytes[1] = u[1] /\ h.bytes[2] = u[2] /\ h.bytes[3] = u[3] /\ h.bytes[4] = u[4]
         /\ h.bytes[13] = x[1] /\ h.bytes[14] = x[2] /\ h.bytes[15] = x[3] /\ h.bytes[16] = x[4]
    <2>0. \A k \in 1 .. 16 : k <= Len(s)
      BY <1>8, SMT
    <2>1. \A k \in 1 .. 16 : h.bytes[k] = s[k]
      BY <1>9, <2>0, Zenon DEF Made
    <2>2. /\ s[1] = u[1] /\ s[2] = u[2] /\ s[3] = u[3] /\ s[4] = u[4]
          /\ s[13] = x[1] /\ s[14] = x[2] /\ s[15] = x[3] /\ s[16] = x[4]
      BY <1>8, SMT
    <2> QED
      BY <2>1, <2>2, SMT
  <1>11. /\ \A k \in 1 .. 16 : h.bytes[k] \in Byte
         /\ g.len \in Nat /\ g.len <= 24 /\ g.len = (IF len < 24 THEN len ELSE 24)
         /\ g.at = NoText /\ g.json = FALSE /\ g.bytes = h.bytes
         /\ h.proto = "mongo" /\ h.len = len
    BY <1>9, SMT DEF Made
  <1>12. TakenFor(h) = taken
    BY <1>11, OtherwiseIs, SMT DEF TakenFor
  <1>13. g.len >= 16 /\ g.len < Never
    BY <1>1, <1>11, SMT DEF Never
  <1>14. Peeked(h) = g.len
    BY <1>1, <1>11, SMT DEF Peeked, PeekSize
  <1>15. BE(g, 1) = BE(h, 1) /\ BE(g, 5) = header
    BY <1>11, SMT DEF BE
  <1> HIDE DEF g, header
  <1>16. header \in Int /\ (seen <=> header >= 4 /\ header <= g.len - 8)
    <2>1. header \in Int
      BY <1>11, WordIsInt, SMT DEF header
    <2> QED
      BY <1>11, <1>14, <2>1, SMT DEF HeaderInSight, header
  <1>17. BE(h, 1) \in Int /\ BE(h, 1) >= 256
    <2> DEFINE a == u[1]
               b == u[2]
               c == u[3]
               d == u[4]
    <2>1. /\ a \in Nat /\ b \in Nat /\ c \in Nat /\ d \in Nat /\ a < 256 /\ b < 256 /\ c < 256 /\ d < 256
          /\ len = ((d * 256 + c) * 256 + b) * 256 + a
      BY <1>4, SMT DEF Byte
    <2>2. BE(h, 1) = U32(a, b, c, d)
      BY <1>10, SMT DEF BE
    <2> HIDE DEF a, b, c, d
    <2>3. a > 0 \/ b > 0 \/ c > 0
      BY <1>1, <2>1, SMT
    <2>4. U32(a, b, c, d) \in Int /\ U32(a, b, c, d) >= 256
      BY <2>1, <2>3, SMT DEF U32, TooLarge
    <2> QED
      BY <2>2, <2>4, SMT
  <1>18. short <=> BE(h, 1) <= 104857600
    BY SMT DEF LooksShort, RocketMQMaxFrameSize
  <1> HIDE DEF seen, short
  <1>19. DetectDubbo(g) <=> magic
    BY <1>11, <1>13, SMT DEF DetectDubbo, MagicInSight
  <1>20. ~DetectTriple(g)
    BY <1>11, <1>13, NothingShows, SMT DEF DetectTriple, Features
  <1>21. DetectRocketMQ(g) <=> short /\ ~seen
    BY <1>11, <1>13, <1>15, <1>16, <1>17, <1>18, SMT
       DEF DetectRocketMQ, RocketMQMinFrameSize, RocketMQMaxFrameSize
  <1>22. DetectMongo(g)
    <2>1. LE(g, 1) = len /\ LE(g, 13) = 2013
      BY <1>4, <1>7, <1>10, <1>11, SMTT(60) DEF LE
    <2> QED
      BY <1>1, <1>13, <2>1, SMT DEF DetectMongo, MongoOpCodes
  <1> HIDE DEF magic
  <1>23. FirstAccepting(g) = taken
    BY <1>19, <1>20, <1>21, <1>22, FirstAcceptingIs, SMT
  <1> QED
    BY <1>9, <1>12, <1>23, SMT DEF Made, g, h

LEMMA MySQLDetected ==
    ASSUME NEW length \in TwoBytes, NEW seq \in Byte, NEW b \in Byte
    PROVE  AutoDetect(MySQLHead(length, seq, b)) = TakenFor(MySQLHead(length, seq, b))
  <1> DEFINE p == length % 256
             q == length \div 256
             len == length + 4
             s == <<p, q, 0, seq, b>>
             h == MySQLHead(length, seq, b)
             g == Cut(h)
             short == LooksShort(h)
             magic == MagicInSight(h)
             shown == b \in MySQLMarkers \/ (len <= 24 /\ b < 251)
             taken == IF magic THEN "dubbo" ELSE IF short THEN "rocketmq"
                      ELSE IF shown THEN "mysql" ELSE IF p \in RESPTypes THEN "redis"
                      ELSE IF p % 16 \in WebSocketOpcodes THEN "websocket" ELSE Unknown
  <1>0. length \in Nat /\ length >= 1 /\ length <= 65535
    BY SMT DEF TwoBytes
  <1>1. p \in Byte /\ q \in Byte /\ 32 \in Byte /\ 0 \in Byte /\ len \in Nat
    BY <1>0, SMT DEF Byte
  <1>2. length \in Nat /\ length >= 1 /\ length = 256 * q + p /\ len = length + 4
    BY <1>0, SMT
  <1>3. h = Head16("mysql", s, 32, len, FALSE, NoText)
    BY SMT DEF MySQLHead
  <1> HIDE DEF p, q, len, h
  <1>4. s \in Seq(Byte) /\ Len(s) = 5
    BY <1>1, SMT
  <1>5. s[1] = p /\ s[2] = q /\ s[3] = 0 /\ s[4] = seq /\ s[5] = b
    BY <1>1, SMT
  <1> HIDE DEF s
  <1>6. Made(h, "mysql", s, 32, len, FALSE, NoText)
    BY <1>1, <1>3, <1>4, HeadIs, Zenon
  <1>7. /\ h.bytes[1] = p /\ h.bytes[2] = q /\ h.bytes[3] = 0 /\ h.bytes[4] = seq /\ h.bytes[5] = b
        /\ \A k \in 6 .. 16 : h.bytes[k] = 32
    <2>1. \A k \in 1 .. 5 : h.bytes[k] = s[k]
      BY <1>4, <1>6, SMTT(60) DEF Made
    <2>2. \A k \in 6 .. 16 : h.bytes[k] = 32
      BY <1>4, <1>6, SMTT(60) DEF Made
    <2> QED
      BY <1>5, <2>1, <2>2, SMT
  <1>8. /\ \A k \in 1 .. 16 : h.bytes[k] \in Byte
        /\ g.len \in Nat /\ g.len <= 24 /\ g.len = (IF len < 24 THEN len ELSE 24)
        /\ g.at = NoText /\ g.json = FALSE /\ g.bytes = h.bytes
        /\ h.proto = "mysql" /\ h.len = len
    BY <1>6, SMT DEF Made
  <1>9. TakenFor(h) = taken
    BY <1>7, <1>8, OtherwiseIs, SMT DEF TakenFor, PeekSize
  <1>10. g.len >= 5 /\ g.len < Never
    BY <1>2, <1>8, SMT DEF Never
  <1>11. BE(g, 1) = BE(h, 1)
    BY <1>8, SMT DEF BE
  <1> HIDE DEF g
  <1>12. BE(h, 1) \in Int /\ BE(h, 1) >= 65536
    <2>1. BE(h, 1) = U32(p, q, 0, seq)
      BY <1>7, SMT DEF BE
    <2>2. p \in Nat /\ q \in Nat /\ seq \in Nat /\ p < 256
      BY <1>1, SMT DEF Byte
    <2>3. p > 0 \/ q > 0
      BY <1>2, <2>2, SMT
    <2>4. U32(p, q, 0, seq) \in Int /\ U32(p, q, 0, seq) >= 65536
      BY <2>2, <2>3, SMT DEF U32, TooLarge
    <2> QED
      BY <2>1, <2>4, SMT
  <1>13. BE(g, 5) \in Int /\ BE(g, 5) > 24
    <2>1. BE(g, 5) = U32(b, 32, 32, 32)
      BY <1>7, <1>8, SMT DEF BE
    <2>2. U32(b, 32, 32, 32) \in Int /\ U32(b, 32, 32, 32) > 24
      BY SMT DEF U32, TooLarge, Byte
    <2> QED
      BY <2>1, <2>2, SMT
  <1>14. short <=> BE(h, 1) <= 104857600
    BY SMT DEF LooksShort, RocketMQMaxFrameSize
  <1>15. DetectDubbo(g) <=> magic
    BY <1>8, <1>10, SMT DEF DetectDubbo, MagicInSight
  <1> HIDE DEF short, magic
  <1>16. /\ ~DetectTriple(g) /\ ~DetectNacos(g) /\ ~DetectHTTP(g)
         /\ ~Shows(g, "upgrade") /\ ~Shows(g, "switching")
    BY <1>8, <1>10, NothingShows, SMT DEF DetectTriple, DetectNacos, DetectHTTP, Features
  <1>17. DetectRocketMQ(g) <=> short
    BY <1>8, <1>10, <1>11, <1>12, <1>13, <1>14, SMT
       DEF DetectRocketMQ, RocketMQMinFrameSize, RocketMQMaxFrameSize
  <1>18. ~DetectMongo(g)
    <2>1. LE(g, 13) = 538976288
      BY <1>7, <1>8, SMT DEF LE, U32
    <2> QED
      BY <2>1, SMT DEF DetectMongo, MongoOpCodes
  <1>19. DetectMySQL(g) <=> shown
    <2>1. MySQLLength(g) = length
      <3>1. MySQLLength(g) = (0 * 256 + q) * 256 + p
        BY <1>7, <1>8, LengthIs, SMT
      <3> QED
        BY <1>1, <1>2, <3>1, SMT DEF Byte
    <2>2. g.len >= 4 + length <=> len <= 24
      BY <1>2, <1>8, SMT
    <2>3. b \notin MySQLMarkers => (MySQLColumns(g) > 0 /\ MySQLColumns(g) <= 4096 <=> b < 251)
      <3>1. g.bytes[5] = b /\ g.bytes[6] = 32 /\ g.bytes[7] = 32 /\ g.bytes[8] = 32 /\ b \in Nat /\ b < 256
        BY <1>7, <1>8, SMT DEF Byte
      <3>2. U32(0, 32, 32, 32) = 2105376
        BY SMT DEF U32
      <3>3. CASE b < 251
        <4>1. MySQLColumns(g) = b
          BY <3>1, <3>3, SMT DEF MySQLColumns
        <4>2. b \notin MySQLMarkers => b >= 1
          BY <3>1, SMT DEF MySQLMarkers
        <4> QED
          BY <3>1, <3>3, <4>1, <4>2, SMT
      <3>4. CASE b >= 251
        <4>1. MySQLColumns(g) \in {0, 8224, 2105376}
          BY <1>2, <2>1, <3>1, <3>2, <3>4, SMT DEF MySQLColumns
        <4> QED
          BY <3>1, <3>4, <4>1, SMT
      <3> QED
        BY <3>1, <3>3, <3>4, SMT
    <2> QED
      BY <1>2, <1>7, <1>8, <1>10, <2>1, <2>2, <2>3, SMT DEF DetectMySQL
  <1>20. DetectRESP(g) <=> p \in RESPTypes
    BY <1>7, <1>8, <1>10, SMT DEF DetectRESP
  <1>21. ~short => ~DetectZK(g)
    BY <1>11, <1>12, <1>14, SMT DEF DetectZK
  <1>22. DetectWebSocket(g) <=> p % 16 \in WebSocketOpcodes
    BY <1>7, <1>8, <1>10, <1>16, SMT DEF DetectWebSocket
  <1> HIDE DEF shown
  <1>23. FirstAccepting(g) = taken
    BY <1>15, <1>16, <1>17, <1>18, <1>19, <1>20, <1>21, <1>22, FirstAcceptingIs, SMT
  <1> QED
    BY <1>6, <1>9, <1>23, SMT DEF Made, g, h

\* Every first message is taken for what TakenFor says of it.
LEMMA Detected ==
    ASSUME NEW h, IsFirstMessage(h)
    PROVE  AutoDetect(h) = TakenFor(h)
  <1>1. CASE h.len \in Lengths(16) /\ h = DubboHead(h.len)
    BY <1>1, DubboDetected, Zenon
  <1>2. CASE h.len \in Lengths(2) /\ h = TripleHead(h.len)
    BY <1>2, TripleDetected, Zenon
  <1>3. CASE /\ h.len \in Lengths(10)
             /\ \E n \in {BE(h, 5) - 4} \cap (2 .. h.len - 8) : h = RocketMQHead(n, h.len - 8 - n)
    <2>1. PICK n \in 2 .. h.len - 8 : h = RocketMQHead(n, h.len - 8 - n)
      BY <1>3, Zenon
    <2> QED
      BY <1>3, <2>1, RocketMQDetected, Zenon
  <1>4. CASE h.len \in Lengths(16) /\ \E id \in {LE(h, 5)} \cap FourBytes : h = MongoHead(h.len, id)
    <2>1. PICK id \in FourBytes : h = MongoHead(h.len, id)
      BY <1>4, Zenon
    <2> QED
      BY <1>4, <2>1, MongoDetected, Zenon
  <1>5. CASE \E length \in {h.len - 4} \cap TwoBytes,
                seq \in {h.bytes[4]} \cap Byte, b \in {h.bytes[5]} \cap Byte : h = MySQLHead(length, seq, b)
    <2>1. PICK length \in TwoBytes, seq \in Byte, b \in Byte : h = MySQLHead(length, seq, b)
      BY <1>5, Zenon
    <2> QED
      BY <2>1, MySQLDetected, Zenon
  <1>6. CASE \E n \in 1 .. 99 : h = RedisHead(n)
    BY <1>6, RedisDetected, Zenon
  <1>7. CASE /\ h.len \in Lengths(12)
             /\ \E xid \in {BE(h, 5)} \cap FourBytes, type \in ZKTypes : h = ZooKeeperHead(h.len, xid, type)
    <2>1. PICK xid \in FourBytes, type \in ZKTypes : h = ZooKeeperHead(h.len, xid, type)
      BY <1>7, Zenon
    <2> QED
      BY <1>7, <2>1, ZooKeeperDetected, Zenon
  <1>8. CASE /\ h.len \in 6 .. 131
             /\ \E opcode \in WebSocketOpcodes, mask \in {h.bytes[3]} \cap Byte :
                   h = WebSocketHead(opcode, h.len - 6, mask)
    <2>1. PICK opcode \in WebSocketOpcodes, mask \in Byte : h = WebSocketHead(opcode, h.len - 6, mask)
      BY <1>8, Zenon
    <2>2. h.len - 6 \in 0 .. 125
      BY <1>8, SMT
    <2> QED
      BY <2>1, <2>2, WebSocketDetected, Zenon
  <1>9. CASE \E letter \in MethodLetters, n \in 3 .. 7, nacos \in {h.at["nacos"]} \cap Nat :
                h = HTTPHead(letter, n, nacos, Never)
    <2>1. PICK letter \in MethodLetters, n \in 3 .. 7, nacos \in Nat : h = HTTPHead(letter, n, nacos, Never)
      BY <1>9, Zenon
    <2>2. Never \in Nat /\ Never >= Never
      BY SMT DEF Never
    <2> QED
      BY <2>1, <2>2, RequestDetected, Zenon
  <1>10. CASE \E upgrade \in {h.at["upgrade"]} \cap Lengths(PeekSize + 1) :
                 h = HTTPHead(71, 3, Never, upgrade)
    <2>1. PICK upgrade \in Lengths(PeekSize + 1) : h = HTTPHead(71, 3, Never, upgrade)
      BY <1>10, Zenon
    <2>2. upgrade \in Nat /\ upgrade > 24
      BY SMT DEF Lengths, PeekSize
    <2>3. 71 \in MethodLetters /\ 3 \in 3 .. 7 /\ Never \in Nat
      BY SMT DEF MethodLetters, Never
    <2> QED
      BY <2>1, <2>2, <2>3, RequestDetected, Zenon
  <1>11. CASE h = HTTPResponseHead
    BY <1>11, ResponseDetected, Zenon
  <1> QED
    BY <1>1, <1>2, <1>3, <1>4, <1>5, <1>6, <1>7, <1>8, <1>9, <1>10, <1>11, Zenon DEF IsFirstMessage

\* Auto mode takes every first message, of whatever length and with whatever
\* numbers in it, for the protocol that TakenFor tells from the message: the
\* ten detectors and their order have no surprise beyond the ones listed there.
THEOREM DetectionIsExact == MatchingSpec => []DetectedExactly
  <1>1. Returned => DetectedExactly
    <2> SUFFICES ASSUME Returned, Called("detect") PROVE output = TakenFor(input)
      BY DEF DetectedExactly
    <2>1. input \in Heads /\ output = AutoDetect(input)
      BY DEF Returned, Called
    <2>2. IsFirstMessage(input)
      BY <2>1, HeadsAssumption
    <2> QED
      BY <2>1, <2>2, Detected
  <1> QED
    BY <1>1, ReturnedInvariant, PTL

\* Only a MySQL packet may stay unknown, and only for its first byte.
LEMMA UnknownIsMySQL ==
    ASSUME NEW h, IsFirstMessage(h), TakenFor(h) = Unknown
    PROVE  /\ h.proto = "mysql" /\ h.bytes[5] \notin MySQLMarkers
           /\ \E length \in TwoBytes, seq, b \in Byte : h = MySQLHead(length, seq, b)
  <1>1. ~MagicInSight(h) /\ OtherwiseTakenFor(h) = Unknown
    BY SMT DEF TakenFor, Unknown
  <1>2. h.proto = "mysql" => h.bytes[5] \notin MySQLMarkers
    BY <1>1, OtherwiseIs, SMT DEF Unknown
  <1>3. h.proto \notin {"rocketmq", "triple", "mongo", "redis", "zookeeper", "websocket", "nacos", "http"}
    BY <1>1, OtherwiseIs, SMT DEF Unknown
  <1>4. h # HTTPResponseHead /\ \A letter, n, nacos, upgrade : h # HTTPHead(letter, n, nacos, upgrade)
    BY <1>3, SMT DEF HTTPResponseHead, HTTPHead, Head16
  <1>5. \A len, id, header, body : /\ h # TripleHead(len) /\ h # RocketMQHead(header, body)
                                   /\ h # MongoHead(len, id) /\ h # RedisHead(len)
    BY <1>3, SMT DEF TripleHead, RocketMQHead, MongoHead, RedisHead, Head16
  <1>6. \A opcode, len, mask, xid, type : /\ h # WebSocketHead(opcode, len, mask)
                                          /\ h # ZooKeeperHead(len, xid, type)
    BY <1>3, SMT DEF WebSocketHead, ZooKeeperHead, Head16
  <1>7. \A len : h # DubboHead(len)
    BY <1>1, SMT DEF DubboHead, Head16, Padded, HeadBytes, MagicInSight
  <1>8. \E length \in TwoBytes, seq, b \in Byte : h = MySQLHead(length, seq, b)
    BY <1>4, <1>5, <1>6, <1>7, Zenon DEF IsFirstMessage
  <1>9. h.proto = "mysql"
    BY <1>8, SMT DEF MySQLHead, Head16
  <1> QED
    BY <1>2, <1>8, <1>9, Zenon

\* A packet that fits into the peek is seen as the assembler sees it.
LEMMA WholeIsSeen ==
    ASSUME NEW proto, NEW s, NEW fill, NEW len \in Nat, len <= 24, NEW json, NEW at
    PROVE  AutoDetect(Head16(proto, s, fill, len, json, at)) =
              FirstAccepting(Head16(proto, s, fill, len, json, at))
  <1> DEFINE h == Head16(proto, s, fill, len, json, at)
  <1>1. [h EXCEPT !.len = IF @ < PeekSize THEN @ ELSE PeekSize] = h
    BY DEF Head16, PeekSize
  <1> QED
    BY <1>1 DEF AutoDetect

\* A packet on whose payload the assembler creates a connection is recognised
\* by the auto handler too, but for a MySQL packet that does not fit into the
\* peek and whose first byte is no marker.
THEOREM CreatedConnectionIsHandled == MatchingSpec => []CreatedIsHandled
  <1>1. Returned => CreatedIsHandled
    <2> SUFFICES ASSUME Returned, Called("detect"), Creates(input), output = Unknown
                 PROVE  /\ input.proto = "mysql"
                        /\ input.len > PeekSize
                        /\ input.bytes[5] \notin MySQLMarkers
      BY DEF CreatedIsHandled
    <2>1. input \in Heads /\ output = AutoDetect(input)
      BY DEF Returned, Called
    <2>2. IsFirstMessage(input)
      BY <2>1, HeadsAssumption
    <2>3. TakenFor(input) = Unknown
      BY <2>1, <2>2, Detected
    <2>4. /\ input.proto = "mysql" /\ input.bytes[5] \notin MySQLMarkers
          /\ \E length \in TwoBytes, seq, b \in Byte : input = MySQLHead(length, seq, b)
      BY <2>2, <2>3, UnknownIsMySQL
    <2>5. PICK length \in TwoBytes, seq \in Byte, b \in Byte : input = MySQLHead(length, seq, b)
      BY <2>4
    <2>6. length + 4 \in Nat /\ input.len = length + 4
      BY <2>5, SMT DEF MySQLHead, Head16, TwoBytes
    <2>7. ASSUME ~(input.len > PeekSize) PROVE FALSE
      <3>1. length + 4 <= 24
        BY <2>6, <2>7, SMT DEF PeekSize
      <3>2. AutoDetect(input) = FirstAccepting(input)
        <4> DEFINE s == <<length % 256, length \div 256, 0, seq, b>>
                   len == length + 4
                   head == Head16("mysql", s, 32, len, FALSE, NoText)
        <4>1. input = head
          BY <2>5, SMT DEF MySQLHead
        <4>2. len \in Nat /\ len <= 24
          BY <2>6, <3>1
        <4> HIDE DEF s, len
        <4>3. AutoDetect(head) = FirstAccepting(head)
          BY <4>2, WholeIsSeen
        <4> QED
          BY <4>1, <4>3, Zenon
      <3> QED
        BY <2>1, <3>2 DEF Creates
    <2> QED
      BY <2>4, <2>7
  <1> QED
    BY <1>1, ReturnedInvariant, PTL

-----------------------------------------------------------------------------
(***************************************************************************)
(* What is shown of MySQL.  A payload is put together from parts, and the  *)
(* parser finds each part where it lies.                                   *)
(***************************************************************************)

\* The part s lies in data from position p on.
LiesAt(s, data, p) ==
    /\ p + Len(s) - 1 <= Len(data)
    /\ \A i \in 1 .. Len(s) : data[p + i - 1] = s[i]

LEMMA LiesInJoin ==
    ASSUME NEW S, NEW s \in Seq(S), NEW t \in Seq(S)
    PROVE  /\ s \o t \in Seq(S)
           /\ Len(s \o t) = Len(s) + Len(t)
           /\ LiesAt(s, s \o t, 1)
           /\ LiesAt(t, s \o t, Len(s) + 1)
  <1>1. /\ s \o t \in Seq(S) /\ Len(s \o t) = Len(s) + Len(t)
        /\ \A i \in 1 .. Len(s) + Len(t) :
              (s \o t)[i] = IF i <= Len(s) THEN s[i] ELSE t[i - Len(s)]
    BY ConcatProperties
  <1>2. Len(s) \in Nat /\ Len(t) \in Nat
    OBVIOUS
  <1>3. LiesAt(s, s \o t, 1)
    BY <1>1, <1>2 DEF LiesAt
  <1>4. ASSUME NEW i \in 1 .. Len(t) PROVE (s \o t)[Len(s) + 1 + i - 1] = t[i]
    <2>1. Len(s) + 1 + i - 1 \in 1 .. Len(s) + Len(t) /\ Len(s) + 1 + i - 1 - Len(s) = i
          /\ ~(Len(s) + 1 + i - 1 <= Len(s))
      BY <1>2
    <2> QED
      BY <1>1, <2>1
  <1>5. LiesAt(t, s \o t, Len(s) + 1)
    BY <1>1, <1>2, <1>4 DEF LiesAt
  <1> QED
    BY <1>1, <1>3, <1>5

\* What lies in a part lies in the whole.
LEMMA LiesOn ==
    ASSUME NEW S, NEW s \in Seq(S), NEW t \in Seq(S), NEW p \in Nat \ {0}, LiesAt(s, t, p),
           NEW u \in Seq(S), NEW q \in Nat \ {0}, LiesAt(t, u, q)
    PROVE  LiesAt(s, u, q + p - 1)
  <1>1. Len(s) \in Nat /\ Len(t) \in Nat /\ Len(u) \in Nat
    OBVIOUS
  <1>2. p + Len(s) - 1 <= Len(t) /\ q + Len(t) - 1 <= Len(u)
    BY DEF LiesAt
  <1>3. ASSUME NEW i \in 1 .. Len(s) PROVE u[q + p - 1 + i - 1] = s[i]
    <2>1. p + i - 1 \in 1 .. Len(t)
      BY <1>1, <1>2
    <2>2. u[q + (p + i - 1) - 1] = t[p + i - 1]
      BY <2>1 DEF LiesAt
    <2>3. q + (p + i - 1) - 1 = q + p - 1 + i - 1
      BY <1>1
    <2> QED
      BY <2>2, <2>3 DEF LiesAt
  <1> QED
    BY <1>1, <1>2, <1>3 DEF LiesAt

LEMMA LiesOnLeft ==
    ASSUME NEW S, NEW s \in Seq(S), NEW t \in Seq(S), NEW p \in Nat \ {0}, LiesAt(s, t, p),
           NEW u \in Seq(S)
    PROVE  LiesAt(s, t \o u, p)
  <1>1. t \o u \in Seq(S) /\ LiesAt(t, t \o u, 1)
    BY LiesInJoin
  <1>2. 1 + p - 1 = p /\ 1 \in Nat \ {0}
    OBVIOUS
  <1>3. LiesAt(s, t \o u, 1 + p - 1)
    BY <1>1, <1>2, LiesOn, ZenonT(60)
  <1> QED
    BY <1>2, <1>3

\* A slice of the data that is the place of a part is the part.
LEMMA SliceOf ==
    ASSUME NEW S, NEW s \in Seq(S), NEW data \in Seq(S), NEW p \in Nat \ {0}, LiesAt(s, data, p)
    PROVE  SubSeq(data, p, p + Len(s) - 1) = s
  <1> DEFINE q == p + Len(s) - 1
             t == SubSeq(data, p, q)
  <1>1. Len(s) \in Nat /\ q \in Int /\ q <= Len(data) /\ q - p + 1 = Len(s)
    BY DEF LiesAt
  <1>2. \A i \in p .. q : data[i] \in S
    BY <1>1, ElementOfSeq
  <1>3. /\ t \in Seq(S) /\ Len(t) = IF p <= q THEN q - p + 1 ELSE 0
        /\ \A i \in 1 .. q - p + 1 : t[i] = data[p + i - 1]
    BY <1>1, <1>2, SubSeqProperties
  <1>4. Len(t) = Len(s)
    BY <1>1, <1>3
  <1>5. \A i \in 1 .. Len(t) : t[i] = s[i]
    BY <1>1, <1>3, <1>4 DEF LiesAt
  <1> QED
    BY <1>3, <1>4, <1>5, SeqEqual

-----------------------------------------------------------------------------
LEMMA BytesAreText ==
    /\ \A a \in Below(256) : <<a>> \in ByteText
    /\ \A a, b, c \in Below(256) : <<a, b, c>> \in ByteText
    /\ \A a, b, c, d \in Below(256) : <<a, b, c, d>> \in ByteText
  BY DEF ByteText

\* Numbers of two and of three bytes.
LEMMA LittleShort ==
    ASSUME NEW n \in ShortNumber
    PROVE  Short(n) \in ByteText /\ Len(Short(n)) = 2 /\ Little(Short(n)) = n
  <1>1. n \in Nat /\ n % 256 \in Below(256) /\ n \div 256 \in Below(256)
        /\ (n % 256) + 256 * (n \div 256) = n
    BY SMT DEF Below, ShortNumber
  <1>2. Short(n) \in ByteText /\ Len(Short(n)) = 2
    BY <1>1 DEF Short, ByteText
  <1>3. Short(n)[1] = n % 256 /\ Short(n)[2] = n \div 256
    BY DEF Short
  <1> QED
    BY <1>1, <1>2, <1>3 DEF Little, Digit, Below

\* The bytes of a length-encoded integer.
LEMMA LenEncIs ==
    ASSUME NEW n \in Number
    PROVE  /\ n \in Nat /\ n < 16777216
           /\ n < 251 => LenEnc(n) = <<n>>
           /\ 251 <= n /\ n < 65536 => LenEnc(n) = <<252, n % 256, n \div 256>>
           /\ 65536 <= n => LenEnc(n) = <<253, n % 256, (n \div 256) % 256, n \div 65536>>
           /\ LenEnc(n) \in ByteText
           /\ Len(LenEnc(n)) \in 1 .. 4
  <1>1. n \in Nat /\ n < 16777216
    BY SMT DEF Below, Number, TooMany
  <1>2. n < 251 => LenEnc(n) = <<n>>
    BY <1>1, SMT DEF LenEnc
  <1>3. 251 <= n /\ n < 65536 => LenEnc(n) = <<252, n % 256, n \div 256>>
    BY <1>1, SMT DEF LenEnc
  <1>4. 65536 <= n => LenEnc(n) = <<253, n % 256, (n \div 256) % 256, n \div 65536>>
    BY <1>1, SMT DEF LenEnc
  <1>5. /\ n % 256 \in Below(256)
        /\ n < 65536 => n \div 256 \in Below(256)
        /\ (n \div 256) % 256 \in Below(256)
        /\ n \div 65536 \in Below(256)
    BY <1>1, SMT DEF Below
  <1>6. 252 \in Below(256) /\ 253 \in Below(256) /\ (n < 251 => n \in Below(256))
    BY <1>1, SMT DEF Below
  <1>7. LenEnc(n) \in ByteText /\ Len(LenEnc(n)) \in 1 .. 4
    <2>1. CASE n < 251
      BY <1>1, <1>2, <1>6, <2>1, BytesAreText, SMT
    <2>2. CASE 251 <= n /\ n < 65536
      BY <1>1, <1>3, <1>5, <1>6, <2>2, BytesAreText, SMT
    <2>3. CASE 65536 <= n
      BY <1>1, <1>4, <1>5, <1>6, <2>3, BytesAreText, SMT
    <2> QED
      BY <1>1, <2>1, <2>2, <2>3, SMT
  <1> QED
    BY <1>1, <1>2, <1>3, <1>4, <1>7, SMT

\* A length-encoded integer is read back where it lies, to its end.
LEMMA ReadsLenEnc ==
    ASSUME NEW data \in ByteText, NEW p \in Nat \ {0}, NEW n \in Number,
           LiesAt(LenEnc(n), data, p)
    PROVE  ReadLenEncInt(data, p) = [val |-> n, next |-> p + Len(LenEnc(n))]
  <1>1. n \in Nat /\ n < 16777216 /\ Len(data) \in Nat
    BY LenEncIs, SMT DEF ByteText
  <1>2. CASE n < 251
    <2>1. LenEnc(n) = <<n>>
      BY <1>2, LenEncIs, SMT
    <2>2. data[p] = n /\ p <= Len(data)
      BY <1>1, <2>1, SMT DEF LiesAt
    <2> QED
      BY <1>1, <1>2, <2>1, <2>2, SMT DEF ReadLenEncInt, LenEncSize
  <1>3. CASE 251 <= n /\ n < 65536
    <2> DEFINE s == SubSeq(data, p + 1, p + 2)
    <2>1. LenEnc(n) = <<252, n % 256, n \div 256>>
      BY <1>3, LenEncIs, SMT
    <2>2. data[p] = 252 /\ data[p + 1] = n % 256 /\ data[p + 2] = n \div 256 /\ p + 2 <= Len(data)
      BY <1>1, <2>1, SMT DEF LiesAt
    <2>3. Len(s) = 2 /\ s[1] = n % 256 /\ s[2] = n \div 256
      BY <1>1, <2>2, SMT DEF ByteText
    <2>4. (n % 256) + 256 * (n \div 256) = n
      BY <1>1, SMT
    <2>5. Little(s) = n
      BY <1>1, <2>3, <2>4, SMT DEF Little, Digit
    <2>6. LenEncSize(252) = 3
      BY SMT DEF LenEncSize
    <2> QED
      BY <1>1, <2>1, <2>2, <2>5, <2>6, SMT DEF ReadLenEncInt
  <1>4. CASE 65536 <= n
    <2> DEFINE s == SubSeq(data, p + 1, p + 3)
    <2>1. LenEnc(n) = <<253, n % 256, (n \div 256) % 256, n \div 65536>>
      BY <1>4, LenEncIs, SMT
    <2>2. /\ data[p] = 253 /\ data[p + 1] = n % 256 /\ data[p + 2] = (n \div 256) % 256
          /\ data[p + 3] = n \div 65536 /\ p + 3 <= Len(data)
      BY <1>1, <2>1, SMT DEF LiesAt
    <2>3. Len(s) = 3 /\ s[1] = n % 256 /\ s[2] = (n \div 256) % 256 /\ s[3] = n \div 65536
      BY <1>1, <2>2, SMT DEF ByteText
    <2>4. (n % 256) + 256 * ((n \div 256) % 256) + 65536 * (n \div 65536) = n
      BY <1>1, SMT
    <2>5. Little(s) = n
      BY <1>1, <2>3, <2>4, SMT DEF Little, Digit
    <2>6. LenEncSize(253) = 4
      BY SMT DEF LenEncSize
    <2> QED
      BY <1>1, <2>1, <2>2, <2>5, <2>6, SMTT(60) DEF ReadLenEncInt
  <1> QED
    BY <1>1, <1>2, <1>3, <1>4, SMT

-----------------------------------------------------------------------------
\* The branches of parseServerPacket.
LEMMA ServerBranches ==
    ASSUME NEW payload, payload # <<>>
    PROVE  /\ payload[1] = 10 /\ Len(payload) > 4 => ParseServerPacket(payload) = Greeting(payload)
           /\ payload[1] \in {0, 254} => ParseServerPacket(payload) = OkPacket(payload)
           /\ payload[1] = 255 => ParseServerPacket(payload) = ErrPacket(payload)
           /\ payload[1] \notin {0, 254, 255} /\ ~(payload[1] = 10 /\ Len(payload) > 4)
              => ParseServerPacket(payload) = Columns(payload)
  BY SMT DEF ParseServerPacket, ResponseOK, ResponseEOF, ResponseERR

\* Payloads of up to six parts, put together from the left.
LEMMA NextPart ==
    ASSUME NEW s \in ByteText, NEW t \in ByteText, NEW n \in Nat, Len(s) = n
    PROVE  /\ s \o t \in ByteText
           /\ Len(s \o t) = n + Len(t)
           /\ LiesAt(t, s \o t, n + 1)
           /\ \A u \in ByteText, p \in Nat \ {0} : LiesAt(u, s, p) => LiesAt(u, s \o t, p)
  <1>1. /\ s \o t \in ByteText /\ Len(s \o t) = n + Len(t) /\ LiesAt(t, s \o t, n + 1)
    BY LiesInJoin, ZenonT(60) DEF ByteText
  <1>2. \A u \in ByteText, p \in Nat \ {0} : LiesAt(u, s, p) => LiesAt(u, s \o t, p)
    BY LiesOnLeft, ZenonT(60) DEF ByteText
  <1> QED
    BY <1>1, <1>2

LEMMA TwoParts ==
    ASSUME NEW a \in ByteText, NEW b \in ByteText
    PROVE  /\ a \o b \in ByteText /\ Len(a \o b) = Len(a) + Len(b)
           /\ LiesAt(a, a \o b, 1) /\ LiesAt(b, a \o b, Len(a) + 1)
  BY LiesInJoin, ZenonT(60) DEF ByteText

LEMMA ThreeParts ==
    ASSUME NEW a \in ByteText, NEW b \in ByteText, NEW c \in ByteText
    PROVE  LET s == a \o b \o c IN
           /\ s \in ByteText /\ Len(s) = Len(a) + Len(b) + Len(c)
           /\ LiesAt(a, s, 1)
           /\ LiesAt(b, s, Len(a) + 1)
           /\ LiesAt(c, s, Len(a) + Len(b) + 1)
  <1> DEFINE r == a \o b
             n == Len(a) + Len(b)
  <1>1. /\ n \in Nat
        /\ 1 \in Nat \ {0}
        /\ Len(a) + 1 \in Nat \ {0}
    BY SMT DEF ByteText
  <1>2. /\ r \in ByteText /\ Len(r) = n
        /\ LiesAt(a, r, 1)
        /\ LiesAt(b, r, Len(a) + 1)
    BY TwoParts
  <1> HIDE DEF r, n
  <1>3. /\ r \o c \in ByteText /\ Len(r \o c) = n + Len(c) /\ LiesAt(c, r \o c, n + 1)
        /\ \A u \in ByteText, p \in Nat \ {0} : LiesAt(u, r, p) => LiesAt(u, r \o c, p)
    BY <1>1, <1>2, NextPart, ZenonT(60)
  <1>4. /\ LiesAt(a, r \o c, 1)
        /\ LiesAt(b, r \o c, Len(a) + 1)
    BY <1>1, <1>2, <1>3, Zenon
  <1> QED
    BY <1>3, <1>4, Zenon DEF r, n

LEMMA FourParts ==
    ASSUME NEW a \in ByteText, NEW b \in ByteText, NEW c \in ByteText, NEW d \in ByteText
    PROVE  LET s == a \o b \o c \o d IN
           /\ s \in ByteText /\ Len(s) = Len(a) + Len(b) + Len(c) + Len(d)
           /\ LiesAt(a, s, 1)
           /\ LiesAt(b, s, Len(a) + 1)
           /\ LiesAt(c, s, Len(a) + Len(b) + 1)
           /\ LiesAt(d, s, Len(a) + Len(b) + Len(c) + 1)
  <1> DEFINE r == a \o b \o c
             n == Len(a) + Len(b) + Len(c)
  <1>1. /\ n \in Nat
        /\ 1 \in Nat \ {0}
        /\ Len(a) + 1 \in Nat \ {0}
        /\ Len(a) + Len(b) + 1 \in Nat \ {0}
    BY SMT DEF ByteText
  <1>2. /\ r \in ByteText /\ Len(r) = n
        /\ LiesAt(a, r, 1)
        /\ LiesAt(b, r, Len(a) + 1)
        /\ LiesAt(c, r, Len(a) + Len(b) + 1)
    BY ThreeParts
  <1> HIDE DEF r, n
  <1>3. /\ r \o d \in ByteText /\ Len(r \o d) = n + Len(d) /\ LiesAt(d, r \o d, n + 1)
        /\ \A u \in ByteText, p \in Nat \ {0} : LiesAt(u, r, p) => LiesAt(u, r \o d, p)
    BY <1>1, <1>2, NextPart, ZenonT(60)
  <1>4. /\ LiesAt(a, r \o d, 1)
        /\ LiesAt(b, r \o d, Len(a) + 1)
        /\ LiesAt(c, r \o d, Len(a) + Len(b) + 1)
    BY <1>1, <1>2, <1>3, Zenon
  <1> QED
    BY <1>3, <1>4, Zenon DEF r, n

LEMMA FiveParts ==
    ASSUME NEW a \in ByteText, NEW b \in ByteText, NEW c \in ByteText, NEW d \in ByteText,
           NEW e \in ByteText
    PROVE  LET s == a \o b \o c \o d \o e IN
           /\ s \in ByteText /\ Len(s) = Len(a) + Len(b) + Len(c) + Len(d) + Len(e)
           /\ LiesAt(a, s, 1)
           /\ LiesAt(b, s, Len(a) + 1)
           /\ LiesAt(c, s, Len(a) + Len(b) + 1)
           /\ LiesAt(d, s, Len(a) + Len(b) + Len(c) + 1)
           /\ LiesAt(e, s, Len(a) + Len(b) + Len(c) + Len(d) + 1)
  <1> DEFINE r == a \o b \o c \o d
             n == Len(a) + Len(b) + Len(c) + Len(d)
  <1>1. /\ n \in Nat
        /\ 1 \in Nat \ {0}
        /\ Len(a) + 1 \in Nat \ {0}
        /\ Len(a) + Len(b) + 1 \in Nat \ {0}
        /\ Len(a) + Len(b) + Len(c) + 1 \in Nat \ {0}
    BY SMT DEF ByteText
  <1>2. /\ r \in ByteText /\ Len(r) = n
        /\ LiesAt(a, r, 1)
        /\ LiesAt(b, r, Len(a) + 1)
        /\ LiesAt(c, r, Len(a) + Len(b) + 1)
        /\ LiesAt(d, r, Len(a) + Len(b) + Len(c) + 1)
    BY FourParts
  <1> HIDE DEF r, n
  <1>3. /\ r \o e \in ByteText /\ Len(r \o e) = n + Len(e) /\ LiesAt(e, r \o e, n + 1)
        /\ \A u \in ByteText, p \in Nat \ {0} : LiesAt(u, r, p) => LiesAt(u, r \o e, p)
    BY <1>1, <1>2, NextPart, ZenonT(60)
  <1>4. /\ LiesAt(a, r \o e, 1)
        /\ LiesAt(b, r \o e, Len(a) + 1)
        /\ LiesAt(c, r \o e, Len(a) + Len(b) + 1)
        /\ LiesAt(d, r \o e, Len(a) + Len(b) + Len(c) + 1)
    BY <1>1, <1>2, <1>3, Zenon
  <1> QED
    BY <1>3, <1>4, Zenon DEF r, n

LEMMA SixParts ==
    ASSUME NEW a \in ByteText, NEW b \in ByteText, NEW c \in ByteText, NEW d \in ByteText,
           NEW e \in ByteText, NEW f \in ByteText
    PROVE  LET s == a \o b \o c \o d \o e \o f IN
           /\ s \in ByteText /\ Len(s) = Len(a) + Len(b) + Len(c) + Len(d) + Len(e) + Len(f)
           /\ LiesAt(a, s, 1)
           /\ LiesAt(b, s, Len(a) + 1)
           /\ LiesAt(c, s, Len(a) + Len(b) + 1)
           /\ LiesAt(d, s, Len(a) + Len(b) + Len(c) + 1)
           /\ LiesAt(e, s, Len(a) + Len(b) + Len(c) + Len(d) + 1)
           /\ LiesAt(f, s, Len(a) + Len(b) + Len(c) + Len(d) + Len(e) + 1)
  <1> DEFINE r == a \o b \o c \o d \o e
             n == Len(a) + Len(b) + Len(c) + Len(d) + Len(e)
  <1>1. /\ n \in Nat
        /\ 1 \in Nat \ {0}
        /\ Len(a) + 1 \in Nat \ {0}
        /\ Len(a) + Len(b) + 1 \in Nat \ {0}
        /\ Len(a) + Len(b) + Len(c) + 1 \in Nat \ {0}
        /\ Len(a) + Len(b) + Len(c) + Len(d) + 1 \in Nat \ {0}
    BY SMT DEF ByteText
  <1>2. /\ r \in ByteText /\ Len(r) = n
        /\ LiesAt(a, r, 1)
        /\ LiesAt(b, r, Len(a) + 1)
        /\ LiesAt(c, r, Len(a) + Len(b) + 1)
        /\ LiesAt(d, r, Len(a) + Len(b) + Len(c) + 1)
        /\ LiesAt(e, r, Len(a) + Len(b) + Len(c) + Len(d) + 1)
    BY FiveParts
  <1> HIDE DEF r, n
  <1>3. /\ r \o f \in ByteText /\ Len(r \o f) = n + Len(f) /\ LiesAt(f, r \o f, n + 1)
        /\ \A u \in ByteText, p \in Nat \ {0} : LiesAt(u, r, p) => LiesAt(u, r \o f, p)
    BY <1>1, <1>2, NextPart, ZenonT(60)
  <1>4. /\ LiesAt(a, r \o f, 1)
        /\ LiesAt(b, r \o f, Len(a) + 1)
        /\ LiesAt(c, r \o f, Len(a) + Len(b) + 1)
        /\ LiesAt(d, r \o f, Len(a) + Len(b) + Len(c) + 1)
        /\ LiesAt(e, r \o f, Len(a) + Len(b) + Len(c) + Len(d) + 1)
    BY <1>1, <1>2, <1>3, Zenon
  <1> QED
    BY <1>3, <1>4, Zenon DEF r, n

\* What OkPacket reads, with the positions of the parts.
LEMMA OkRead ==
    ASSUME NEW d \in ByteText, NEW rows \in Number, NEW id \in Number,
           NEW status \in ShortNumber, NEW p \in Nat \ {0}, NEW q \in Nat \ {0},
           Len(d) >= 7, LiesAt(LenEnc(rows), d, 2), 2 + Len(LenEnc(rows)) = p,
           LiesAt(LenEnc(id), d, p), p + Len(LenEnc(id)) = q, LiesAt(Short(status), d, q)
    PROVE  OkPacket(d) = [type |-> "ok", text |-> <<>>, numbers |-> <<rows, id, status>>]
  <1>1. ReadLenEncInt(d, 2) = [val |-> rows, next |-> p]
    <2>1. 2 \in Nat \ {0}
      OBVIOUS
    <2> QED
      BY <2>1, ReadsLenEnc, Zenon
  <1>2. ReadLenEncInt(d, p) = [val |-> id, next |-> q]
    BY ReadsLenEnc, Zenon
  <1>3. /\ Short(status) \in Seq(Below(256)) /\ Len(Short(status)) = 2
        /\ Little(Short(status)) = status /\ d \in Seq(Below(256))
    BY LittleShort, SMT DEF ByteText
  <1>4. SubSeq(d, q, q + Len(Short(status)) - 1) = Short(status)
    BY <1>3, SliceOf, ZenonT(60)
  <1>5. q + Len(Short(status)) - 1 = q + 1
    BY <1>3, SMT
  <1>6. SubSeq(d, q, q + 1) = Short(status)
    BY <1>4, <1>5, Zenon
  <1> DEFINE s == SubSeq(d, q, q + 1)
  <1>7. Len(s) = 2 /\ Little(s) = status
    BY <1>3, <1>6, Zenon
  <1> HIDE DEF s
  <1>8. ~(Len(d) < 7)
    BY SMT DEF ByteText
  <1>9. ReadLenEncInt(d, 2).val = rows /\ ReadLenEncInt(d, 2).next = p
    BY <1>1, SMT
  <1> DEFINE next == ReadLenEncInt(d, ReadLenEncInt(d, 2).next)
  <1>10. next.val = id /\ next.next = q
    BY <1>2, <1>9, SMT
  <1>11. Len(SubSeq(d, next.next, next.next + 1)) = 2 /\ Little(SubSeq(d, next.next, next.next + 1)) = status
    BY <1>7, <1>10, Zenon DEF s
  <1> QED
    BY <1>8, <1>9, <1>10, <1>11, Zenon DEF OkPacket

LEMMA OkShown ==
    ASSUME NEW header \in {0, 254}, NEW rows \in Number, NEW id \in Number,
           NEW status \in ShortNumber
    PROVE  ParseServerPacket(<<header>> \o LenEnc(rows) \o LenEnc(id) \o Short(status) \o <<0, 0>>) =
              [type |-> "ok", text |-> <<>>, numbers |-> <<rows, id, status>>]
  <1> DEFINE H == <<header>>
             R == LenEnc(rows)
             I == LenEnc(id)
             T == Short(status)
             Z == <<0, 0>>
             d == H \o R \o I \o T \o Z
             p == Len(H) + Len(R) + 1
             q == Len(H) + Len(R) + Len(I) + 1
  <1>1. /\ R \in ByteText /\ I \in ByteText /\ T \in ByteText
        /\ Len(R) \in 1 .. 4 /\ Len(I) \in 1 .. 4 /\ Len(T) = 2
    BY LenEncIs, LittleShort, SMT
  <1>2. H \in ByteText /\ Z \in ByteText /\ Len(H) = 1 /\ Len(Z) = 2 /\ H[1] = header
    BY SMT DEF ByteText, Below
  <1> HIDE DEF H, R, I, T, Z
  <1>3. /\ d \in ByteText /\ Len(d) = Len(H) + Len(R) + Len(I) + Len(T) + Len(Z)
        /\ LiesAt(H, d, 1) /\ LiesAt(R, d, Len(H) + 1) /\ LiesAt(I, d, p) /\ LiesAt(T, d, q)
    <2>1. R \in ByteText /\ I \in ByteText /\ T \in ByteText /\ H \in ByteText /\ Z \in ByteText
      BY <1>1, <1>2
    <2> QED
      BY <2>1, FiveParts
  <1>4. Len(H) + 1 = 2 /\ 2 + Len(R) = p /\ p + Len(I) = q /\ p \in Nat \ {0} /\ q \in Nat \ {0}
    BY <1>1, <1>2, SMT
  <1>5. Len(d) >= 7
    BY <1>1, <1>2, <1>3, SMT
  <1> HIDE DEF d, p, q
  <1>6. d # <<>> /\ d[1] = header
    BY <1>2, <1>3, <1>5, SMT DEF LiesAt
  <1>7. ParseServerPacket(d) = OkPacket(d)
    BY <1>6, ServerBranches, SMT
  <1>8. LiesAt(R, d, 2)
    <2>1. LiesAt(R, d, Len(H) + 1) /\ Len(H) + 1 = 2
      BY <1>3, <1>4
    <2> QED
      BY <2>1, Zenon
  <1>9. OkPacket(d) = [type |-> "ok", text |-> <<>>, numbers |-> <<rows, id, status>>]
    <2>1. d \in ByteText /\ LiesAt(I, d, p) /\ LiesAt(T, d, q)
      BY <1>3
    <2>2. 2 + Len(R) = p /\ p + Len(I) = q /\ p \in Nat \ {0} /\ q \in Nat \ {0}
      BY <1>4
    <2> QED
      BY <2>1, <2>2, <1>5, <1>8, OkRead, SMT DEF R, I, T
  <1> QED
    BY <1>7, <1>9, ZenonT(60) DEF d, H, R, I, T, Z

\* A byte in front of a text.
LEMMA ByteInFront ==
    ASSUME NEW b \in Below(256), NEW t \in ByteText
    PROVE  /\ <<b>> \o t \in ByteText /\ Len(<<b>> \o t) = 1 + Len(t)
           /\ (<<b>> \o t)[1] = b /\ LiesAt(t, <<b>> \o t, 2)
  <1> DEFINE H == <<b>>
  <1>1. H \in ByteText /\ Len(H) = 1 /\ H[1] = b /\ Len(t) \in Nat
    BY BytesAreText, SMT DEF ByteText
  <1> HIDE DEF H
  <1>2. /\ H \o t \in ByteText /\ Len(H \o t) = Len(H) + Len(t)
        /\ LiesAt(H, H \o t, 1) /\ LiesAt(t, H \o t, Len(H) + 1)
    BY <1>1, TwoParts, ZenonT(60)
  <1>3. Len(H \o t) = 1 + Len(t) /\ LiesAt(t, H \o t, 2)
    BY <1>1, <1>2, SMT
  <1>4. (H \o t)[1] = b
    BY <1>1, <1>2, SMT DEF LiesAt
  <1> QED
    BY <1>2, <1>3, <1>4, Zenon DEF H

\* What ErrPacket reads of an error without and with a state.
LEMMA PlainErrorRead ==
    ASSUME NEW d \in ByteText, NEW code \in ShortNumber, NEW text \in ByteText,
           LiesAt(Short(code), d, 2), LiesAt(text, d, 4), Len(d) = 3 + Len(text),
           text = <<>> \/ text[1] # 35
    PROVE  ErrPacket(d) = [type |-> "error", text |-> <<<<>>, text>>, numbers |-> <<code>>]
  <1>1. /\ Short(code) \in Seq(Below(256)) /\ Len(Short(code)) = 2 /\ Little(Short(code)) = code
        /\ d \in Seq(Below(256)) /\ text \in Seq(Below(256)) /\ Len(text) \in Nat
    BY LittleShort, SMT DEF ByteText
  <1>2. SubSeq(d, 2, 2 + Len(Short(code)) - 1) = Short(code)
    <2>1. 2 \in Nat \ {0}
      OBVIOUS
    <2> QED
      BY <1>1, <2>1, SliceOf, ZenonT(60)
  <1>3. SubSeq(d, 2, 3) = Short(code)
    BY <1>1, <1>2, SMT
  <1>4. SubSeq(d, 4, 4 + Len(text) - 1) = text
    <2>1. 4 \in Nat \ {0}
      OBVIOUS
    <2> QED
      BY <1>1, <2>1, SliceOf, ZenonT(60)
  <1>5. SubSeq(d, 4, Len(d)) = text
    BY <1>1, <1>4, SMT
  <1>6. ~(Len(d) > 3 /\ d[4] = 35)
    <2> SUFFICES ASSUME Len(d) > 3, d[4] = 35 PROVE FALSE
      OBVIOUS
    <2>1. Len(text) > 0
      BY <1>1, SMT
    <2>2. text # <<>> /\ d[4] = text[1]
      BY <1>1, <2>1, SMT DEF LiesAt
    <2> QED
      BY <2>2
  <1>7. ~(Len(d) < 3)
    BY <1>1, SMT
  <1>8. Little(SubSeq(d, 2, 3)) = code
    BY <1>1, <1>3, Zenon
  <1> QED
    BY <1>5, <1>6, <1>7, <1>8, Zenon DEF ErrPacket, Hash

LEMMA StateErrorRead ==
    ASSUME NEW d \in ByteText, NEW code \in ShortNumber, NEW state \in ByteText,
           NEW text \in ByteText, LiesAt(Short(code), d, 2), d[4] = 35, Len(state) = 5,
           LiesAt(state, d, 5), LiesAt(text, d, 10), Len(d) = 9 + Len(text)
    PROVE  ErrPacket(d) = [type |-> "error", text |-> <<state, text>>, numbers |-> <<code>>]
  <1>1. /\ Short(code) \in Seq(Below(256)) /\ Len(Short(code)) = 2 /\ Little(Short(code)) = code
        /\ d \in Seq(Below(256)) /\ text \in Seq(Below(256)) /\ Len(text) \in Nat
        /\ state \in Seq(Below(256))
    BY LittleShort, SMT DEF ByteText
  <1>2. 2 \in Nat \ {0} /\ 5 \in Nat \ {0} /\ 10 \in Nat \ {0}
    OBVIOUS
  <1>3. SubSeq(d, 2, 2 + Len(Short(code)) - 1) = Short(code)
    BY <1>1, <1>2, SliceOf, ZenonT(60)
  <1>4. SubSeq(d, 2, 3) = Short(code)
    BY <1>1, <1>3, SMT
  <1>5. SubSeq(d, 5, 5 + Len(state) - 1) = state
    BY <1>1, <1>2, SliceOf, ZenonT(60)
  <1>6. SubSeq(d, 5, 9) = state
    BY <1>5, SMT
  <1>7. SubSeq(d, 10, 10 + Len(text) - 1) = text
    BY <1>1, <1>2, SliceOf, ZenonT(60)
  <1>8. SubSeq(d, 10, Len(d)) = text
    BY <1>1, <1>7, SMT
  <1>9. Len(d) > 3 /\ ~(Len(d) < 9) /\ ~(Len(d) < 3)
    BY <1>1, SMT
  <1>10. Little(SubSeq(d, 2, 3)) = code
    BY <1>1, <1>4, Zenon
  <1> QED
    BY <1>6, <1>8, <1>9, <1>10, Zenon DEF ErrPacket, Hash

LEMMA ErrorShown ==
    ASSUME NEW code \in ShortNumber, NEW state \in ByteText, NEW text \in ByteText,
           Len(state) = 5 \/ (state = <<>> /\ (text = <<>> \/ text[1] # 35))
    PROVE  ParseServerPacket(<<255>> \o Short(code) \o (IF state = <<>> THEN <<>> ELSE <<35>> \o state)
                             \o text) =
              [type |-> "error", text |-> <<state, text>>, numbers |-> <<code>>]
  <1> DEFINE H == <<255>>
             C == Short(code)
             M == IF state = <<>> THEN <<>> ELSE <<35>> \o state
             d == H \o C \o M \o text
  <1>1. /\ H \in ByteText /\ Len(H) = 1 /\ H[1] = 255
        /\ <<>> \in ByteText /\ Len(<<>>) = 0
    BY SMT DEF ByteText, Below
  <1>2. C \in ByteText /\ Len(C) = 2
    BY LittleShort, SMT
  <1>3. Len(text) \in Nat /\ Len(state) \in Nat
    BY SMT DEF ByteText
  <1>4. /\ <<35>> \o state \in ByteText /\ Len(<<35>> \o state) = 1 + Len(state)
        /\ (<<35>> \o state)[1] = 35 /\ LiesAt(state, <<35>> \o state, 2)
    <2>1. 35 \in Below(256)
      BY SMT DEF Below
    <2> QED
      BY <2>1, ByteInFront
  <1>5. M \in ByteText
    BY <1>1, <1>4
  <1> HIDE DEF H, C, M
  <1>6. /\ d \in ByteText /\ Len(d) = Len(H) + Len(C) + Len(M) + Len(text)
        /\ LiesAt(H, d, 1) /\ LiesAt(C, d, Len(H) + 1)
        /\ LiesAt(M, d, Len(H) + Len(C) + 1) /\ LiesAt(text, d, Len(H) + Len(C) + Len(M) + 1)
    <2>1. H \in ByteText /\ C \in ByteText /\ M \in ByteText
      BY <1>1, <1>2, <1>5
    <2> QED
      BY <2>1, FourParts
  <1>7. Len(M) \in Nat
    BY <1>5, SMT DEF ByteText
  <1> HIDE DEF d
  <1>8. /\ Len(d) = 3 + Len(M) + Len(text) /\ LiesAt(C, d, 2)
        /\ LiesAt(M, d, 4) /\ LiesAt(text, d, 4 + Len(M))
    BY <1>1, <1>2, <1>3, <1>6, <1>7, SMT
  <1>9. d # <<>> /\ d[1] = 255
    BY <1>1, <1>3, <1>6, <1>7, <1>8, SMT DEF LiesAt
  <1>10. ParseServerPacket(d) = ErrPacket(d)
    BY <1>9, ServerBranches, SMT
  <1>11. CASE Len(state) = 5
    <2>1. M = <<35>> \o state
      BY <1>1, <1>11, SMT DEF M
    <2>2. Len(M) = 6 /\ M[1] = 35 /\ LiesAt(state, M, 2)
      BY <1>4, <1>11, <2>1, SMT
    <2>3. d[4] = 35
      BY <1>8, <2>2, SMT DEF LiesAt
    <2>4. LiesAt(state, d, 5)
      <3>1. /\ 2 \in Nat \ {0} /\ 4 \in Nat \ {0} /\ M \in Seq(Below(256)) /\ d \in Seq(Below(256))
            /\ state \in Seq(Below(256))
        BY <1>5, <1>6, SMT DEF ByteText
      <3>2. LiesAt(state, d, 4 + 2 - 1)
        BY <1>8, <2>2, <3>1, LiesOn, ZenonT(60)
      <3>3. 4 + 2 - 1 = 5
        OBVIOUS
      <3> QED
        BY <3>2, <3>3
    <2>5. LiesAt(text, d, 10) /\ Len(d) = 9 + Len(text)
      BY <1>3, <1>8, <2>2, SMT
    <2>6. ErrPacket(d) = [type |-> "error", text |-> <<state, text>>, numbers |-> <<code>>]
      BY <1>6, <1>8, <1>11, <2>3, <2>4, <2>5, StateErrorRead, SMT DEF C
    <2> QED
      BY <1>10, <2>6, ZenonT(60) DEF d, H, C, M
  <1>12. CASE state = <<>> /\ (text = <<>> \/ text[1] # 35)
    <2>1. M = <<>> /\ Len(M) = 0
      BY <1>1, <1>12 DEF M
    <2>2. LiesAt(text, d, 4) /\ Len(d) = 3 + Len(text)
      BY <1>3, <1>8, <2>1, SMT
    <2>3. ErrPacket(d) = [type |-> "error", text |-> <<<<>>, text>>, numbers |-> <<code>>]
      BY <1>6, <1>8, <1>12, <2>2, PlainErrorRead, SMT DEF C
    <2> QED
      BY <1>10, <1>12, <2>3, ZenonT(60) DEF d, H, C, M
  <1> QED
    BY <1>11, <1>12, Zenon

-----------------------------------------------------------------------------
\* A packet is of this type and nothing else is said of it.
LEMMA OnlyTyped ==
    /\ \A t : [NoPacket EXCEPT !.type = t].type = t
    /\ \A d : OkPacket(d).type = "ok" /\ Greeting(d).type = "handshake"
  <1>1. \A t : [NoPacket EXCEPT !.type = t].type = t
    BY SMT DEF NoPacket
  <1>2. \A d : OkPacket(d).type = "ok"
    BY Zenon DEF OkPacket
  <1>3. \A d : Greeting(d).type = "handshake"
    BY Zenon DEF Greeting
  <1> QED
    BY <1>1, <1>2, <1>3, Zenon

\* A number of columns is taken for what it is if it is not too large.
LEMMA ColumnsRead ==
    ASSUME NEW d \in ByteText, NEW n \in Number, LiesAt(LenEnc(n), d, 1)
    PROVE  /\ n # 0 /\ n < 10000 =>
                 Columns(d) = [type |-> "resultset", text |-> <<>>, numbers |-> <<n>>]
           /\ n >= 10000 => Columns(d).type = "unknown"
  <1>1. 1 \in Nat \ {0}
    OBVIOUS
  <1>2. ReadLenEncInt(d, 1).val = n
    <2>1. ReadLenEncInt(d, 1) = [val |-> n, next |-> 1 + Len(LenEnc(n))]
      BY <1>1, ReadsLenEnc, Zenon
    <2> QED
      BY <2>1, SMT
  <1>3. n \in Nat
    BY LenEncIs
  <1>4. /\ n # 0 /\ n < 10000 <=> n \in 1 .. MaxColumns - 1
        /\ n >= 10000 => n \notin 1 .. MaxColumns - 1
    BY <1>3, SMT DEF MaxColumns
  <1>5. /\ n \in 1 .. MaxColumns - 1 =>
              Columns(d) = [type |-> "resultset", text |-> <<>>, numbers |-> <<n>>]
        /\ n \notin 1 .. MaxColumns - 1 => Columns(d) = [NoPacket EXCEPT !.type = "unknown"]
    BY <1>2, Zenon DEF Columns
  <1>6. ASSUME n # 0, n < 10000
        PROVE  Columns(d) = [type |-> "resultset", text |-> <<>>, numbers |-> <<n>>]
    BY <1>4, <1>5, <1>6
  <1>7. ASSUME n >= 10000 PROVE Columns(d).type = "unknown"
    <2>1. Columns(d) = [NoPacket EXCEPT !.type = "unknown"]
      BY <1>4, <1>5, <1>7
    <2> QED
      BY <2>1, OnlyTyped, Zenon
  <1> QED
    BY <1>6, <1>7

\* The first byte of a length-encoded integer.
LEMMA FirstOfLenEnc ==
    ASSUME NEW n \in Number
    PROVE  /\ n < 251 => LenEnc(n)[1] = n
           /\ n >= 251 => LenEnc(n)[1] \in {252, 253}
           /\ LenEnc(n) # <<>>
  <1>1. n \in Nat
    BY LenEncIs
  <1>2. CASE n < 251
    BY <1>1, <1>2, LenEncIs, SMT
  <1>3. CASE 251 <= n /\ n < 65536
    BY <1>1, <1>3, LenEncIs, SMT
  <1>4. CASE 65536 <= n
    BY <1>1, <1>4, LenEncIs, SMT
  <1> QED
    BY <1>1, <1>2, <1>3, <1>4, SMT

LEMMA ColumnsShown ==
    ASSUME NEW n \in Number, n # 0
    PROVE  /\ n < 10000 => ParseServerPacket(LenEnc(n)) =
                              [type |-> "resultset", text |-> <<>>, numbers |-> <<n>>]
           /\ n >= 10000 => ParseServerPacket(LenEnc(n)).type = "unknown"
  <1> DEFINE d == LenEnc(n)
  <1>1. n \in Nat /\ d \in ByteText /\ Len(d) \in 1 .. 4
    BY LenEncIs
  <1>2. d # <<>> /\ d[1] \notin {0, 254, 255}
    BY <1>1, FirstOfLenEnc, SMT
  <1>3. LiesAt(d, d, 1)
    BY <1>1, SMT DEF LiesAt
  <1>4. /\ n < 10000 => Columns(d) = [type |-> "resultset", text |-> <<>>, numbers |-> <<n>>]
        /\ n >= 10000 => Columns(d).type = "unknown"
    BY <1>1, <1>3, ColumnsRead
  <1> HIDE DEF d
  <1>5. ~(Len(d) > 4)
    <2>1. \A k \in 1 .. 4 : ~(k > 4)
      OBVIOUS
    <2> QED
      BY <1>1, <2>1, Zenon
  <1>6. ParseServerPacket(d) = Columns(d)
    BY <1>2, <1>5, ServerBranches, SMT
  <1> QED
    BY <1>4, <1>6 DEF d

\* A row is taken for what the length of its first column says.
LEMMA RowShown ==
    ASSUME NEW column \in ByteText, Len(column) \in Number
    PROVE  LET type == ParseServerPacket(LenEnc(Len(column)) \o column \o <<1, 49>>).type IN
           /\ Len(column) = 0 => type = "ok"
           /\ Len(column) = 10 => type = "handshake"
           /\ Len(column) >= 10000 => type = "unknown"
           /\ Len(column) # 0 /\ Len(column) # 10 /\ Len(column) < 10000 => type = "resultset"
  <1> DEFINE n == Len(column)
             L == LenEnc(n)
             Z == <<1, 49>>
             d == L \o column \o Z
  <1>1. n \in Nat /\ L \in ByteText /\ Len(L) \in 1 .. 4
    BY LenEncIs
  <1>2. Z \in ByteText /\ Len(Z) = 2
    BY SMT DEF ByteText, Below
  <1>3. L # <<>> /\ (n < 251 => L[1] = n) /\ (n >= 251 => L[1] \in {252, 253})
    BY FirstOfLenEnc
  <1>4. /\ d \in ByteText /\ Len(d) = Len(L) + Len(column) + Len(Z) /\ LiesAt(L, d, 1)
    BY <1>1, <1>2, ThreeParts
  <1>5. /\ n # 0 /\ n < 10000 => Columns(d).type = "resultset"
        /\ n >= 10000 => Columns(d).type = "unknown"
    <2>1. /\ n # 0 /\ n < 10000 =>
                Columns(d) = [type |-> "resultset", text |-> <<>>, numbers |-> <<n>>]
          /\ n >= 10000 => Columns(d).type = "unknown"
      BY <1>4, ColumnsRead
    <2> HIDE DEF d, L, Z, n
    <2> QED
      BY <2>1, SMT
  <1>6. n \in Nat /\ Len(L) \in 1 .. 4 /\ Len(Z) = 2 /\ Len(d) = Len(L) + n + Len(Z)
    BY <1>1, <1>2, <1>4
  <1> HIDE DEF d, L, Z, n
  <1>7. n <= Len(d) - 3 /\ Len(d) \in Nat
    <2>1. \A k, a, b, c : a \in Nat /\ b \in 1 .. 4 /\ c = 2 /\ k = b + a + c => a <= k - 3 /\ k \in Nat
      OBVIOUS
    <2> QED
      BY <1>6, <2>1, Zenon
  <1>8. d # <<>> /\ d[1] = L[1]
    BY <1>4, <1>6, <1>7, SMT DEF LiesAt
  <1>9. ASSUME n = 0 PROVE ParseServerPacket(d).type = "ok"
    <2>1. d[1] = 0
      BY <1>3, <1>8, <1>9, SMT
    <2>2. ParseServerPacket(d) = OkPacket(d)
      BY <1>8, <2>1, ServerBranches, SMT
    <2> QED
      BY <2>2, OnlyTyped, Zenon
  <1>10. ASSUME n = 10 PROVE ParseServerPacket(d).type = "handshake"
    <2>1. d[1] = 10 /\ Len(d) > 4
      BY <1>3, <1>7, <1>8, <1>10, SMT
    <2>2. ParseServerPacket(d) = Greeting(d)
      BY <1>8, <2>1, ServerBranches, SMT
    <2> QED
      BY <2>2, OnlyTyped, Zenon
  <1>11. ASSUME n # 0, n # 10 PROVE ParseServerPacket(d) = Columns(d)
    <2>1. d[1] \notin {0, 254, 255} /\ d[1] # 10
      BY <1>1, <1>3, <1>8, <1>11, SMT
    <2> QED
      BY <1>8, <2>1, ServerBranches, SMT
  <1>12. /\ n >= 10000 => ParseServerPacket(d).type = "unknown"
         /\ n # 0 /\ n # 10 /\ n < 10000 => ParseServerPacket(d).type = "resultset"
    BY <1>1, <1>5, <1>11, SMT
  <1> QED
    BY <1>9, <1>10, <1>12, SMT DEF d, L, Z, n

\* The packets that are the same whatever they carry.
LEMMA FixedShown ==
    /\ ParseServerPacket(<<251>> \o <<1, 49>>).type = "unknown"
    /\ ParseServerPacket(<<3, 100, 101, 102, 0, 0, 0>>).type = "resultset"
    /\ ParseServerPacket(<<254, 0, 0, 2, 0>>).type = "ok"
  <1>1. ParseServerPacket(<<251>> \o <<1, 49>>).type = "unknown"
    <2> DEFINE d == <<251>> \o <<1, 49>>
    <2>1. 251 \in Below(256) /\ <<1, 49>> \in ByteText /\ Len(<<1, 49>>) = 2
      BY SMT DEF Below, ByteText
    <2>2. d \in ByteText /\ Len(d) = 3 /\ d[1] = 251
      BY <2>1, ByteInFront, SMT
    <2> HIDE DEF d
    <2>3. d # <<>> /\ ParseServerPacket(d) = Columns(d)
      BY <2>2, ServerBranches, SMT
    <2>4. LenEncSize(251) = 0
      BY SMT DEF LenEncSize
    <2>5. ReadLenEncInt(d, 1).val = 0
      BY <2>2, <2>4, SMT DEF ReadLenEncInt
    <2>6. 0 \notin 1 .. MaxColumns - 1
      BY SMT DEF MaxColumns
    <2>7. Columns(d) = [NoPacket EXCEPT !.type = "unknown"]
      BY <2>5, <2>6, Zenon DEF Columns
    <2> QED
      BY <2>3, <2>7, OnlyTyped, ZenonT(60) DEF d
  <1>2. ParseServerPacket(<<3, 100, 101, 102, 0, 0, 0>>).type = "resultset"
    <2> DEFINE d == <<3, 100, 101, 102, 0, 0, 0>>
    <2>1. d \in ByteText /\ Len(d) = 7 /\ d[1] = 3 /\ d # <<>>
      BY SMT DEF Below, ByteText
    <2> HIDE DEF d
    <2>2. ParseServerPacket(d) = Columns(d)
      BY <2>1, ServerBranches, SMT
    <2>3. 3 \in Number /\ LenEnc(3) = <<3>>
      BY SMT DEF Number, Below, TooMany, LenEnc
    <2>4. Len(LenEnc(3)) = 1 /\ LenEnc(3)[1] = 3
      BY <2>3
    <2>5. LiesAt(LenEnc(3), d, 1)
      <3> DEFINE s == LenEnc(3)
      <3>1. Len(s) = 1 /\ s[1] = 3
        BY <2>4
      <3> HIDE DEF s
      <3>2. LiesAt(s, d, 1)
        BY <2>1, <3>1, SMT DEF LiesAt
      <3> QED
        BY <3>2 DEF s
    <2> QED
      BY <2>1, <2>2, <2>3, <2>5, ColumnsRead, SMT DEF d
  <1>3. ParseServerPacket(<<254, 0, 0, 2, 0>>).type = "ok"
    <2> DEFINE d == <<254, 0, 0, 2, 0>>
    <2>1. d[1] = 254 /\ d # <<>>
      OBVIOUS
    <2> HIDE DEF d
    <2>2. ParseServerPacket(d) = OkPacket(d)
      BY <2>1, ServerBranches, SMT
    <2> QED
      BY <2>2, OnlyTyped, ZenonT(60) DEF d
  <1> QED
    BY <1>1, <1>2, <1>3

-----------------------------------------------------------------------------
\* What follows the first byte of a command.
LEMMA RestOfCommand ==
    ASSUME NEW c \in Below(256), NEW text \in ByteText
    PROVE  /\ <<c>> \o text # <<>> /\ (<<c>> \o text)[1] = c /\ Tail(<<c>> \o text) = text
           /\ Len(text) >= 4 => /\ Len(<<c>> \o text) >= 5
                                /\ SubSeq(<<c>> \o text, 2, 5) = SubSeq(text, 1, 4)
  <1> DEFINE d == <<c>> \o text
  <1>1. d \in ByteText /\ Len(d) = 1 + Len(text) /\ d[1] = c /\ LiesAt(text, d, 2)
    BY ByteInFront
  <1>2. /\ text \in Seq(Below(256)) /\ d \in Seq(Below(256)) /\ Len(text) \in Nat
        /\ 1 \in Nat \ {0} /\ 2 \in Nat \ {0}
    BY <1>1, SMT DEF ByteText
  <1> HIDE DEF d
  <1>3. d # <<>>
    BY <1>1, <1>2, SMT
  <1>4. Tail(d) = SubSeq(d, 2, Len(d))
    BY <1>2, <1>3, TailIsSubSeq, Zenon
  <1>5. SubSeq(d, 2, 2 + Len(text) - 1) = text
    BY <1>1, <1>2, SliceOf, ZenonT(60)
  <1>6. 2 + Len(text) - 1 = Len(d)
    BY <1>1, <1>2, SMT
  <1>7. Tail(d) = text
    BY <1>4, <1>5, <1>6, Zenon
  <1>8. ASSUME Len(text) >= 4 PROVE Len(d) >= 5 /\ SubSeq(d, 2, 5) = SubSeq(text, 1, 4)
    <2> DEFINE s == SubSeq(text, 1, 4)
    <2>1. \A i \in 1 .. 4 : text[i] \in Below(256)
      BY <1>2, <1>8, SMT
    <2>2. /\ s \in Seq(Below(256)) /\ Len(s) = IF 1 <= 4 THEN 4 - 1 + 1 ELSE 0
          /\ \A i \in 1 .. 4 - 1 + 1 : s[i] = text[1 + i - 1]
      BY <2>1, SubSeqProperties, SMT
    <2> HIDE DEF s
    <2>3. LiesAt(s, text, 1)
      BY <1>2, <1>8, <2>2, SMT DEF LiesAt
    <2>4. LiesAt(s, d, 2 + 1 - 1)
      BY <1>1, <1>2, <2>2, <2>3, LiesOn, ZenonT(60)
    <2>5. LiesAt(s, d, 2)
      BY <2>4
    <2>6. SubSeq(d, 2, 2 + Len(s) - 1) = s
      BY <1>2, <2>2, <2>5, SliceOf, ZenonT(60)
    <2>7. 2 + Len(s) - 1 = 5
      BY <2>2, SMT
    <2>8. SubSeq(d, 2, 5) = s
      BY <2>6, <2>7, Zenon
    <2>9. Len(d) >= 5
      BY <1>1, <1>2, <1>8, SMT
    <2> QED
      BY <2>8, <2>9, Zenon DEF s
  <1> QED
    BY <1>1, <1>3, <1>7, <1>8, ZenonT(60) DEF d

\* Every command is shown as a command, with its text or number if it is one
\* of those that are looked into.
LEMMA CommandShown ==
    ASSUME NEW c \in Below(256), NEW text \in ByteText
    PROVE  LET shown == ParseClientPacket(<<c>> \o text) IN
           /\ shown.type = "command"
           /\ c \in {3, 22} => shown = [type |-> "command", text |-> Shortened(text), numbers |-> <<c>>]
           /\ c = 2 => shown = [type |-> "command", text |-> text, numbers |-> <<c>>]
           /\ c = 23 /\ Len(text) >= 4 =>
                 shown = [type |-> "command", text |-> <<>>,
                          numbers |-> <<c, Little(SubSeq(text, 1, 4))>>]
           /\ c \notin {2, 3, 22, 23} => shown = [type |-> "command", text |-> <<>>, numbers |-> <<c>>]
  <1> DEFINE d == <<c>> \o text
             shown == ParseClientPacket(d)
  <1>1. /\ d # <<>> /\ d[1] = c /\ Tail(d) = text
        /\ Len(text) >= 4 => Len(d) >= 5 /\ SubSeq(d, 2, 5) = SubSeq(text, 1, 4)
    BY RestOfCommand
  <1> HIDE DEF d
  <1> DEFINE shownText == CASE c \in {3, 22} -> Shortened(text) [] c = 2 -> text [] OTHER -> <<>>
             numbers == IF c = 23 /\ Len(d) >= 5 THEN <<c, Little(SubSeq(d, 2, 5))>> ELSE <<c>>
  <1>2. shown = [type |-> "command", text |-> shownText, numbers |-> numbers]
    BY <1>1, Zenon DEF ParseClientPacket, ComQuery, ComStmtPrepare, ComInitDB, ComStmtExecute
  <1>3. /\ c \in {3, 22} => c # 2 /\ c # 23
        /\ c = 2 => c \notin {3, 22} /\ c # 23
        /\ c = 23 => c # 2 /\ c \notin {3, 22}
        /\ c \notin {2, 3, 22, 23} => c # 2 /\ c # 23 /\ c \notin {3, 22}
    BY SMT DEF Below
  <1>4. /\ c \in {3, 22} => shownText = Shortened(text)
        /\ c = 2 => shownText = text
        /\ c # 2 /\ c \notin {3, 22} => shownText = <<>>
    BY <1>3, Zenon
  <1>5. /\ c # 23 => numbers = <<c>>
        /\ c = 23 /\ Len(text) >= 4 => numbers = <<c, Little(SubSeq(text, 1, 4))>>
    BY <1>1, Zenon
  <1> HIDE DEF shown, shownText, numbers
  <1>6. shown.type = "command"
    BY <1>2, SMT
  <1> QED
    BY <1>2, <1>3, <1>4, <1>5, <1>6, Zenon DEF shown, d

-----------------------------------------------------------------------------
\* What Greeting reads: up to the first zero byte, and behind the last one if
\* that is far enough.
LEMMA GreetingRead ==
    ASSUME NEW d, Len(d) \in Nat, NEW e \in 2 .. Len(d), NEW l \in e + 2 .. Len(d),
           d[e] = 0, d[l] = 0, \A i \in 2 .. e - 1 : d[i] # 0, \A i \in l + 1 .. Len(d) : d[i] # 0
    PROVE  Greeting(d) =
              [type |-> "handshake",
               text |-> <<SubSeq(d, 2, e - 1),
                          IF e + 13 < Len(d) THEN SubSeq(d, l + 1, Len(d)) ELSE <<>>>>,
               numbers |-> <<d[1]>>]
  <1> DEFINE zeros == {i \in 2 .. Len(d) : d[i] = 0}
             end == IF zeros = {} THEN Len(d) + 1
                    ELSE CHOOSE i \in zeros : \A j \in zeros : i <= j
             last == CHOOSE i \in zeros : \A j \in zeros : i >= j
  <1>1. e \in zeros /\ l \in zeros /\ zeros # {}
    BY SMT
  <1>2. \A j \in zeros : e <= j /\ l >= j /\ j \in Int
    BY SMT
  <1>3. e \in Int /\ l \in Int /\ l > e + 1
    BY SMT
  <1> HIDE DEF zeros
  <1>4. end = e
    <2>1. \A j \in zeros : e <= j
      BY <1>2
    <2>2. ASSUME NEW i \in zeros, \A j \in zeros : i <= j PROVE i = e
      BY <1>1, <1>2, <1>3, <2>2, SMT
    <2> QED
      BY <1>1, <2>1, <2>2, Zenon
  <1>5. last = l
    <2>1. \A j \in zeros : l >= j
      BY <1>2
    <2>2. ASSUME NEW i \in zeros, \A j \in zeros : i >= j PROVE i = l
      BY <1>1, <1>2, <1>3, <2>2, SMT
    <2> QED
      BY <1>1, <2>1, <2>2, Zenon
  <1> DEFINE shown(a, b) ==
                [type |-> "handshake",
                 text |-> <<SubSeq(d, 2, a - 1),
                            IF a + 13 < Len(d) /\ b > a + 1 THEN SubSeq(d, b + 1, Len(d)) ELSE <<>>>>,
                 numbers |-> <<d[1]>>]
  <1>6. Greeting(d) = shown(end, last)
    BY Zenon DEF Greeting, zeros
  <1>7. Greeting(d) = shown(e, l)
    <2> HIDE DEF end, last
    <2> QED
      BY <1>4, <1>5, <1>6, Zenon
  <1> QED
    BY <1>3, <1>7, Zenon

LEMMA NameIsText ==
    ASSUME NEW name \in Name
    PROVE  name \in ByteText /\ \A i \in 1 .. Len(name) : name[i] # 0
  <1> DEFINE S == Below(256)
             T == S \ {0}
  <1>1. T \subseteq S /\ name \in Seq(T)
    BY DEF Name
  <1>2. name \in ByteText
    <2> HIDE DEF S, T
    <2>1. name \in Seq(S)
      BY <1>1, SeqMonotonic, Zenon
    <2> QED
      BY <2>1 DEF ByteText, S
  <1>3. \A i \in 1 .. Len(name) : name[i] # 0
    BY ElementOfSeq, SMT DEF Name
  <1> QED
    BY <1>2, <1>3

LEMMA GreetingShown ==
    ASSUME NEW version \in Name, NEW between \in ByteText, NEW plugin \in Name,
           NEW terminated \in BOOLEAN, Len(between) >= 13, between[Len(between)] = 0
    PROVE  ParseServerPacket(<<10>> \o version \o <<0>> \o between \o plugin
                             \o (IF terminated THEN <<0>> ELSE <<>>)) =
              [type |-> "handshake", text |-> <<version, IF terminated THEN <<>> ELSE plugin>>,
               numbers |-> <<10>>]
  <1> DEFINE H == <<10>>
             O == <<0>>
             E == IF terminated THEN <<0>> ELSE <<>>
             d == H \o version \o O \o between \o plugin \o E
             v == Len(version)
             n == Len(plugin)
             e == v + 2
             k == e + Len(between)
  <1>1. /\ H \in ByteText /\ Len(H) = 1 /\ H[1] = 10 /\ O \in ByteText /\ Len(O) = 1 /\ O[1] = 0
        /\ <<>> \in ByteText /\ Len(<<>>) = 0
    BY SMT DEF ByteText, Below
  <1>2. E \in ByteText /\ (terminated => Len(E) = 1 /\ E[1] = 0) /\ (~terminated => Len(E) = 0)
    BY <1>1
  <1>3. /\ version \in ByteText /\ plugin \in ByteText
        /\ \A i \in 1 .. v : version[i] # 0
        /\ \A i \in 1 .. n : plugin[i] # 0
    BY NameIsText
  <1>4. v \in Nat /\ n \in Nat /\ Len(between) \in Nat
    BY <1>3, SMT DEF ByteText
  <1> HIDE DEF H, O, E
  <1>5. /\ d \in ByteText
        /\ Len(d) = Len(H) + Len(version) + Len(O) + Len(between) + Len(plugin) + Len(E)
        /\ LiesAt(H, d, 1)
        /\ LiesAt(version, d, Len(H) + 1)
        /\ LiesAt(O, d, Len(H) + Len(version) + 1)
        /\ LiesAt(between, d, Len(H) + Len(version) + Len(O) + 1)
        /\ LiesAt(plugin, d, Len(H) + Len(version) + Len(O) + Len(between) + 1)
        /\ LiesAt(E, d, Len(H) + Len(version) + Len(O) + Len(between) + Len(plugin) + 1)
    <2>1. /\ H \in ByteText /\ O \in ByteText /\ E \in ByteText
          /\ version \in ByteText /\ plugin \in ByteText
      BY <1>1, <1>2, <1>3
    <2> QED
      BY <2>1, SixParts
  <1> HIDE DEF d
  <1>6. /\ Len(H) + 1 = 2 /\ Len(H) + Len(version) + 1 = e
        /\ Len(H) + Len(version) + Len(O) + 1 = e + 1
        /\ Len(H) + Len(version) + Len(O) + Len(between) + 1 = k + 1
        /\ Len(H) + Len(version) + Len(O) + Len(between) + Len(plugin) + 1 = k + n + 1
        /\ Len(H) + Len(version) + Len(O) + Len(between) + Len(plugin) + Len(E) = k + n + Len(E)
        /\ Len(E) \in Nat
    BY <1>1, <1>2, <1>4, SMT
  <1>7. /\ Len(d) = k + n + Len(E) /\ LiesAt(version, d, 2) /\ LiesAt(O, d, e)
        /\ LiesAt(between, d, e + 1) /\ LiesAt(plugin, d, k + 1) /\ LiesAt(E, d, k + n + 1)
    BY <1>5, <1>6, Zenon
  <1>8. e \in Nat /\ e >= 2 /\ k \in Nat /\ k >= e + 13 /\ Len(d) \in Nat /\ Len(d) >= k + n
    BY <1>4, <1>6, <1>7, SMTT(60)
  <1>9. d[1] = 10 /\ d[e] = 0 /\ d[k] = 0
    <2>1. d[1] = 10
      BY <1>1, <1>5, SMT DEF LiesAt
    <2>2. d[e] = 0
      BY <1>1, <1>7, <1>8, SMT DEF LiesAt
    <2>3. d[e + 1 + Len(between) - 1] = between[Len(between)]
      BY <1>4, <1>7, SMT DEF LiesAt
    <2>4. e + 1 + Len(between) - 1 = k
      BY <1>4, SMT
    <2> QED
      BY <2>1, <2>2, <2>3, <2>4, Zenon
  <1>10. \A i \in 2 .. e - 1 : d[i] # 0
    <2> SUFFICES ASSUME NEW i \in 2 .. e - 1 PROVE d[i] # 0
      OBVIOUS
    <2>1. i - 1 \in 1 .. v /\ 2 + (i - 1) - 1 = i
      BY <1>4, SMT
    <2>2. d[2 + (i - 1) - 1] = version[i - 1]
      BY <1>7, <2>1, Zenon DEF LiesAt
    <2> QED
      BY <1>3, <2>1, <2>2, Zenon
  <1>11. \A i \in k + 1 .. k + n : d[i] # 0
    <2> SUFFICES ASSUME NEW i \in k + 1 .. k + n PROVE d[i] # 0
      OBVIOUS
    <2>1. i - k \in 1 .. n /\ k + 1 + (i - k) - 1 = i
      BY <1>4, <1>8, SMT
    <2>2. d[k + 1 + (i - k) - 1] = plugin[i - k]
      BY <1>7, <2>1, Zenon DEF LiesAt
    <2> QED
      BY <1>3, <2>1, <2>2, Zenon
  <1>12. SubSeq(d, 2, e - 1) = version
    <2>1. version \in Seq(Below(256)) /\ d \in Seq(Below(256)) /\ 2 \in Nat \ {0}
      BY <1>3, <1>5 DEF ByteText
    <2>2. SubSeq(d, 2, 2 + Len(version) - 1) = version
      BY <1>7, <2>1, SliceOf, ZenonT(60)
    <2>3. 2 + Len(version) - 1 = e - 1
      BY <1>4, SMT
    <2> QED
      BY <2>2, <2>3, Zenon
  <1>13. ParseServerPacket(d) = Greeting(d)
    <2>1. Len(d) > 4
      BY <1>4, <1>8, SMT
    <2>2. d # <<>>
      BY <2>1, SMT
    <2> QED
      BY <1>9, <2>1, <2>2, ServerBranches, SMT
  <1>14. CASE terminated
    <2> DEFINE l == k + n + 1
    <2>1. Len(E) = 1 /\ E[1] = 0
      BY <1>2, <1>14, Zenon
    <2>2. Len(d) = l /\ l \in e + 2 .. Len(d) /\ e \in 2 .. Len(d)
      BY <1>4, <1>7, <1>8, <2>1, SMT
    <2>3. d[l] = 0
      BY <1>4, <1>7, <1>8, <2>1, SMT DEF LiesAt
    <2>4. \A i \in l + 1 .. Len(d) : d[i] # 0
      BY <1>8, <2>2, SMT
    <2>5. SubSeq(d, l + 1, Len(d)) = <<>>
      BY <1>8, <2>2, SMT
    <2> HIDE DEF l
    <2>6. Greeting(d) =
              [type |-> "handshake",
               text |-> <<SubSeq(d, 2, e - 1),
                          IF e + 13 < Len(d) THEN SubSeq(d, l + 1, Len(d)) ELSE <<>>>>,
               numbers |-> <<d[1]>>]
      BY <1>8, <1>9, <1>10, <2>2, <2>3, <2>4, GreetingRead, ZenonT(60)
    <2>7. Greeting(d) = [type |-> "handshake", text |-> <<version, <<>>>>, numbers |-> <<10>>]
      BY <1>9, <1>12, <2>5, <2>6, Zenon
    <2> QED
      BY <1>13, <1>14, <2>7, ZenonT(60) DEF d, H, O, E
  <1>15. CASE ~terminated
    <2>1. Len(d) = k + n /\ k \in e + 2 .. Len(d) /\ e \in 2 .. Len(d)
      BY <1>2, <1>4, <1>7, <1>8, <1>15, SMT
    <2>2. \A i \in k + 1 .. Len(d) : d[i] # 0
      BY <1>11, <2>1, Zenon
    <2>3. SubSeq(d, k + 1, Len(d)) = plugin
      <3>1. plugin \in Seq(Below(256)) /\ d \in Seq(Below(256)) /\ k + 1 \in Nat \ {0}
        BY <1>3, <1>5, <1>8, SMTT(60) DEF ByteText
      <3>2. SubSeq(d, k + 1, k + 1 + Len(plugin) - 1) = plugin
        <4>1. LiesAt(plugin, d, k + 1)
          BY <1>7
        <4> HIDE DEF k
        <4> QED
          BY <3>1, <4>1, SliceOf, ZenonT(60)
      <3>3. k + 1 + Len(plugin) - 1 = Len(d)
        BY <1>4, <1>8, <2>1, SMT
      <3> QED
        BY <3>2, <3>3, Zenon
    <2>4. ~(e + 13 < Len(d)) => plugin = <<>>
      <3>1. ~(e + 13 < Len(d)) => Len(plugin) = 0
        BY <1>4, <1>8, <2>1, SMT
      <3> QED
        BY <1>3, <3>1, EmptySeq DEF ByteText
    <2> HIDE DEF k
    <2>5. Greeting(d) =
              [type |-> "handshake",
               text |-> <<SubSeq(d, 2, e - 1),
                          IF e + 13 < Len(d) THEN SubSeq(d, k + 1, Len(d)) ELSE <<>>>>,
               numbers |-> <<d[1]>>]
      BY <1>8, <1>9, <1>10, <2>1, <2>2, GreetingRead, ZenonT(60)
    <2>6. (IF e + 13 < Len(d) THEN SubSeq(d, k + 1, Len(d)) ELSE <<>>) = plugin
      BY <2>3, <2>4, Zenon
    <2>7. Greeting(d) = [type |-> "handshake", text |-> <<version, plugin>>, numbers |-> <<10>>]
      BY <1>9, <1>12, <2>5, <2>6, Zenon
    <2> QED
      BY <1>13, <1>15, <2>7, ZenonT(60) DEF d, H, O, E
  <1> QED
    BY <1>14, <1>15, Zenon

-----------------------------------------------------------------------------
\* What is sent, what is shown and what should be, kind by kind.
LEMMA GreetingIs ==
    ASSUME NEW p, p.kind = "greeting"
    PROVE  /\ ParsePacket(p) = ParseServerPacket(<<10>> \o p.version \o <<0>> \o p.between \o p.plugin
                                                 \o (IF p.terminated THEN <<0>> ELSE <<>>))
           /\ Intended(p) = [type |-> "handshake", text |-> <<p.version, p.plugin>>, numbers |-> <<10>>]
           /\ ShownOtherwise(p) <=> p.terminated /\ p.plugin # <<>>
           /\ MistakenType(p) = "handshake"
  BY Zenon DEF ParsePacket, ClientSent, PayloadOf, Intended, ShownOtherwise, MistakenType

LEMMA OkIs ==
    ASSUME NEW p, p.kind = "ok"
    PROVE  /\ ParsePacket(p) = ParseServerPacket(<<p.header>> \o LenEnc(p.rows) \o LenEnc(p.id)
                                                 \o Short(p.status) \o <<0, 0>>)
           /\ Intended(p) = [type |-> "ok", text |-> <<>>, numbers |-> <<p.rows, p.id, p.status>>]
           /\ ~ShownOtherwise(p)
  BY Zenon DEF ParsePacket, ClientSent, PayloadOf, Intended, ShownOtherwise

LEMMA ErrorIs ==
    ASSUME NEW p, p.kind = "error"
    PROVE  /\ ParsePacket(p) = ParseServerPacket(<<255>> \o Short(p.code)
                                  \o (IF p.state = <<>> THEN <<>> ELSE <<35>> \o p.state) \o p.text)
           /\ Intended(p) = [type |-> "error", text |-> <<p.state, p.text>>, numbers |-> <<p.code>>]
           /\ ~ShownOtherwise(p)
  BY Zenon DEF ParsePacket, ClientSent, PayloadOf, Intended, ShownOtherwise, Hash

LEMMA ColumnsIs ==
    ASSUME NEW p, p.kind = "columns"
    PROVE  /\ ParsePacket(p) = ParseServerPacket(LenEnc(p.count))
           /\ Intended(p) = [type |-> "resultset", text |-> <<>>, numbers |-> <<p.count>>]
           /\ ShownOtherwise(p) <=> p.count >= MaxColumns
           /\ MistakenType(p) = "unknown"
  BY Zenon DEF ParsePacket, ClientSent, PayloadOf, Intended, ShownOtherwise, MistakenType

\* The kinds of packets that are never recognised.
LEMMA NeverRecognised ==
    ASSUME NEW p, p.kind \in {"definition", "eof", "row", "login"}
    PROVE  Intended(p).type = p.kind /\ ShownOtherwise(p)
  <1>1. Intended(p) = [NoPacket EXCEPT !.type = p.kind]
    BY Zenon DEF Intended
  <1>2. Intended(p).type = p.kind
    BY <1>1, OnlyTyped, Zenon
  <1>3. ShownOtherwise(p)
    BY Zenon DEF ShownOtherwise
  <1> QED
    BY <1>2, <1>3

LEMMA RowIs ==
    ASSUME NEW p, p.kind = "row"
    PROVE  /\ ParsePacket(p) = ParseServerPacket((IF p.null THEN <<251>> ELSE LenEnc(Len(p.column)) \o p.column)
                                                 \o <<1, 49>>)
           /\ MistakenType(p) = RowType(p)
  BY Zenon DEF ParsePacket, ClientSent, PayloadOf, MistakenType

LEMMA RowTypeIs ==
    ASSUME NEW p, ~p.null, NEW n \in Nat, Len(p.column) = n, p.column = <<>> <=> n = 0
    PROVE  /\ p.column = <<>> => RowType(p) = "ok"
           /\ n = 10 => RowType(p) = "handshake"
           /\ n >= MaxColumns => RowType(p) = "unknown"
           /\ p.column # <<>> /\ n # 10 /\ ~(n >= MaxColumns) => RowType(p) = "resultset"
  <1>1. /\ n = 10 => n # 0 /\ ~(n >= MaxColumns)
        /\ n >= MaxColumns => n # 0 /\ n # 10
        /\ n = 0 => n # 10 /\ ~(n >= MaxColumns)
    BY SMT DEF MaxColumns
  <1>2. p.column = <<>> => RowType(p) = "ok"
    BY <1>1, Zenon DEF RowType
  <1>3. n = 10 => RowType(p) = "handshake"
    BY <1>1, Zenon DEF RowType
  <1>4. n >= MaxColumns => RowType(p) = "unknown"
    BY <1>1, Zenon DEF RowType
  <1>5. p.column # <<>> /\ n # 10 /\ ~(n >= MaxColumns) => RowType(p) = "resultset"
    BY Zenon DEF RowType
  <1> QED
    BY <1>2, <1>3, <1>4, <1>5, Zenon

LEMMA FixedIs ==
    ASSUME NEW p
    PROVE  /\ p.kind = "definition" =>
                 /\ ParsePacket(p) = ParseServerPacket(<<3, 100, 101, 102, 0, 0, 0>>)
                 /\ MistakenType(p) = "resultset"
           /\ p.kind = "eof" =>
                 ParsePacket(p) = ParseServerPacket(<<254, 0, 0, 2, 0>>) /\ MistakenType(p) = "ok"
           /\ p.kind = "login" =>
                 /\ ParsePacket(p) = ParseClientPacket(<<p.flags, 166, 15, 0, 0, 0, 0, 1, 33>>)
                 /\ MistakenType(p) = "command"
  <1>1. ASSUME p.kind = "definition"
        PROVE  /\ ParsePacket(p) = ParseServerPacket(<<3, 100, 101, 102, 0, 0, 0>>)
               /\ MistakenType(p) = "resultset"
    BY <1>1, Zenon DEF ParsePacket, ClientSent, PayloadOf, MistakenType
  <1>2. ASSUME p.kind = "eof"
        PROVE  ParsePacket(p) = ParseServerPacket(<<254, 0, 0, 2, 0>>) /\ MistakenType(p) = "ok"
    BY <1>2, Zenon DEF ParsePacket, ClientSent, PayloadOf, MistakenType
  <1>3. ASSUME p.kind = "login"
        PROVE  /\ ParsePacket(p) = ParseClientPacket(<<p.flags, 166, 15, 0, 0, 0, 0, 1, 33>>)
               /\ MistakenType(p) = "command"
    BY <1>3, Zenon DEF ParsePacket, ClientSent, PayloadOf, MistakenType
  <1> QED
    BY <1>1, <1>2, <1>3

LEMMA CommandIs ==
    ASSUME NEW p, p.kind = "command", p.command \in Nat
    PROVE  /\ ParsePacket(p) = ParseClientPacket(<<p.command>> \o p.text)
           /\ p.command = 23 =>
                 Intended(p) = [type |-> "command", text |-> <<>>,
                                numbers |-> <<p.command, Little(SubSeq(p.text, 1, 4))>>]
           /\ p.command # 23 =>
                 Intended(p) = [type |-> "command", text |-> p.text, numbers |-> <<p.command>>]
           /\ p.command \in {3, 22} =>
                 (ShownOtherwise(p) <=> p.text # Shortened(p.text))
           /\ p.command \in {2, 23} => ~ShownOtherwise(p)
           /\ p.command \notin {2, 3, 22, 23} => (ShownOtherwise(p) <=> p.text # <<>>)
           /\ MistakenType(p) = "command"
  <1>1. ParsePacket(p) = ParseClientPacket(<<p.command>> \o p.text) /\ MistakenType(p) = "command"
    BY Zenon DEF ParsePacket, ClientSent, PayloadOf, MistakenType
  <1>2. /\ p.command = 23 =>
              Intended(p) = [type |-> "command", text |-> <<>>,
                             numbers |-> <<p.command, Little(SubSeq(p.text, 1, 4))>>]
        /\ p.command # 23 =>
              Intended(p) = [type |-> "command", text |-> p.text, numbers |-> <<p.command>>]
    BY Zenon DEF Intended, ComStmtExecute
  <1> DEFINE otherwise ==
                CASE p.command \in {3, 22} ->
                       /\ Len(p.text) > QueryLimit
                       /\ p.text # SubSeq(p.text, 1, QueryLimit) \o Ellipsis
                  [] p.command \in {2, 23} -> FALSE
                  [] OTHER -> p.text # <<>>
  <1>3. ShownOtherwise(p) = otherwise
    BY Zenon DEF ShownOtherwise, ComQuery, ComStmtPrepare, ComInitDB, ComStmtExecute
  <1>4. p.command \in {3, 22} => p.command \notin {2, 23}
    BY SMT
  <1>5. /\ p.command \in {3, 22} =>
              (otherwise <=> /\ Len(p.text) > QueryLimit
                             /\ p.text # SubSeq(p.text, 1, QueryLimit) \o Ellipsis)
        /\ p.command \in {2, 23} => ~otherwise
        /\ p.command \notin {3, 22} /\ p.command \notin {2, 23} => (otherwise <=> p.text # <<>>)
    BY <1>4, Zenon
  <1>6. p.command \notin {2, 3, 22, 23} => p.command \notin {3, 22} /\ p.command \notin {2, 23}
    BY SMT
  <1>7. p.text # Shortened(p.text) <=>
            /\ Len(p.text) > QueryLimit
            /\ p.text # SubSeq(p.text, 1, QueryLimit) \o Ellipsis
    BY Zenon DEF Shortened
  <1> HIDE DEF otherwise
  <1> QED
    BY <1>1, <1>2, <1>3, <1>5, <1>6, <1>7, Zenon

\* A packet is shown as what it is unless ShownOtherwise says so.
RightlyShown(p) ==
    /\ ParsePacket(p) = Intended(p) <=> ~ShownOtherwise(p)
    /\ ShownOtherwise(p) => ParsePacket(p).type = MistakenType(p)

\* To be shown as of another type is to be shown otherwise.
LEMMA MistakenIsShown ==
    ASSUME NEW p, p.kind \in {"definition", "eof", "row", "login"},
           ParsePacket(p).type = MistakenType(p), MistakenType(p) # p.kind
    PROVE  RightlyShown(p)
  <1>1. Intended(p).type = p.kind /\ ShownOtherwise(p)
    BY NeverRecognised
  <1>2. ParsePacket(p) # Intended(p)
    BY <1>1, Zenon
  <1> QED
    BY <1>1, <1>2, Zenon DEF RightlyShown

LEMMA PacketShown ==
    ASSUME NEW p, IsPacket(p)
    PROVE  RightlyShown(p)
  <1>1. ASSUME p \in [kind : {"greeting"}, version : Name, between : ByteText, plugin : Name,
                      terminated : BOOLEAN],
               Len(p.between) >= 13, p.between[Len(p.between)] = 0
        PROVE  RightlyShown(p)
    <2>1. /\ p.kind = "greeting" /\ p.version \in Name /\ p.between \in ByteText
          /\ p.plugin \in Name /\ p.terminated \in BOOLEAN
      BY <1>1
    <2>2. ParsePacket(p) = [type |-> "handshake",
                            text |-> <<p.version, IF p.terminated THEN <<>> ELSE p.plugin>>,
                            numbers |-> <<10>>]
      <3>1. ParseServerPacket(<<10>> \o p.version \o <<0>> \o p.between \o p.plugin
                              \o (IF p.terminated THEN <<0>> ELSE <<>>)) =
               [type |-> "handshake", text |-> <<p.version, IF p.terminated THEN <<>> ELSE p.plugin>>,
                numbers |-> <<10>>]
        BY <1>1, <2>1, GreetingShown
      <3>2. ParsePacket(p) = ParseServerPacket(<<10>> \o p.version \o <<0>> \o p.between \o p.plugin
                                               \o (IF p.terminated THEN <<0>> ELSE <<>>))
        BY <2>1, GreetingIs
      <3> QED
        BY <3>1, <3>2, Zenon
    <2>3. ParsePacket(p).type = "handshake" /\ MistakenType(p) = "handshake"
      <3>1. MistakenType(p) = "handshake"
        BY <2>1, GreetingIs
      <3> QED
        BY <2>2, <3>1, SMT
    <2>4. CASE p.terminated /\ p.plugin # <<>>
      <3>1. ParsePacket(p).text[2] = <<>> /\ Intended(p).text[2] = p.plugin
        <4>1. Intended(p) = [type |-> "handshake", text |-> <<p.version, p.plugin>>, numbers |-> <<10>>]
          BY <2>1, GreetingIs
        <4>2. Intended(p).text[2] = p.plugin
          BY <4>1, SMT
        <4>3. ParsePacket(p) = [type |-> "handshake", text |-> <<p.version, <<>>>>, numbers |-> <<10>>]
          BY <2>2, <2>4, Zenon
        <4> QED
          BY <4>2, <4>3, SMT
      <3>2. ParsePacket(p) # Intended(p)
        BY <2>4, <3>1, Zenon
      <3> QED
        BY <2>1, <2>3, <2>4, <3>2, GreetingIs, Zenon DEF RightlyShown
    <2>5. CASE ~(p.terminated /\ p.plugin # <<>>)
      <3>1. (IF p.terminated THEN <<>> ELSE p.plugin) = p.plugin
        BY <2>5, Zenon
      <3>2. ParsePacket(p) = Intended(p)
        BY <2>1, <2>2, <3>1, GreetingIs, Zenon
      <3> QED
        BY <2>1, <2>5, <3>2, GreetingIs, Zenon DEF RightlyShown
    <2> QED
      BY <2>4, <2>5
  <1>2. ASSUME p \in [kind : {"ok"}, header : {ResponseOK, ResponseEOF}, rows : Number,
                      id : Number, status : ShortNumber]
        PROVE  RightlyShown(p)
    <2>1. /\ p.kind = "ok" /\ p.header \in {0, 254} /\ p.rows \in Number
          /\ p.id \in Number /\ p.status \in ShortNumber
      BY <1>2 DEF ResponseOK, ResponseEOF
    <2>2. ParsePacket(p) = Intended(p) /\ ~ShownOtherwise(p)
      <3>1. ParseServerPacket(<<p.header>> \o LenEnc(p.rows) \o LenEnc(p.id) \o Short(p.status) \o <<0, 0>>) =
               [type |-> "ok", text |-> <<>>, numbers |-> <<p.rows, p.id, p.status>>]
        BY <2>1, OkShown
      <3>2. /\ ParsePacket(p) = ParseServerPacket(<<p.header>> \o LenEnc(p.rows) \o LenEnc(p.id)
                                                  \o Short(p.status) \o <<0, 0>>)
            /\ Intended(p) = [type |-> "ok", text |-> <<>>, numbers |-> <<p.rows, p.id, p.status>>]
            /\ ~ShownOtherwise(p)
        BY <2>1, OkIs
      <3> QED
        BY <3>1, <3>2, Zenon
    <2> QED
      BY <2>2 DEF RightlyShown
  <1>3. ASSUME p \in [kind : {"error"}, code : ShortNumber, state : ByteText, text : ByteText],
               Len(p.state) = 5 \/ (p.state = <<>> /\ (p.text = <<>> \/ p.text[1] # Hash))
        PROVE  RightlyShown(p)
    <2>1. p.kind = "error" /\ p.code \in ShortNumber /\ p.state \in ByteText /\ p.text \in ByteText
      BY <1>3
    <2>2. Len(p.state) = 5 \/ (p.state = <<>> /\ (p.text = <<>> \/ p.text[1] # 35))
      BY <1>3, Zenon DEF Hash
    <2>3. ParsePacket(p) = Intended(p) /\ ~ShownOtherwise(p)
      <3> DEFINE d == <<255>> \o Short(p.code) \o (IF p.state = <<>> THEN <<>> ELSE <<35>> \o p.state) \o p.text
      <3>1. ParseServerPacket(d) =
               [type |-> "error", text |-> <<p.state, p.text>>, numbers |-> <<p.code>>]
        BY <2>1, <2>2, ErrorShown
      <3>2. /\ ParsePacket(p) = ParseServerPacket(d)
            /\ Intended(p) = [type |-> "error", text |-> <<p.state, p.text>>, numbers |-> <<p.code>>]
            /\ ~ShownOtherwise(p)
        BY <2>1, ErrorIs
      <3> QED
        BY <3>1, <3>2, Zenon
    <2> QED
      BY <2>3 DEF RightlyShown
  <1>4. ASSUME p \in [kind : {"columns"}, count : Number \ {0}] PROVE RightlyShown(p)
    <2> DEFINE n == p.count
    <2>1. p.kind = "columns" /\ n \in Number /\ n # 0
      BY <1>4
    <2>2. n \in Nat
      BY <2>1, LenEncIs
    <2>3. /\ n < 10000 => ParsePacket(p) = Intended(p)
          /\ n >= 10000 => ParsePacket(p).type = "unknown" /\ Intended(p).type = "resultset"
      <3>1. n < 10000 => ParsePacket(p) = Intended(p)
        BY <2>1, ColumnsIs, ColumnsShown, SMT
      <3>2. n >= 10000 => ParsePacket(p).type = "unknown"
        BY <2>1, ColumnsIs, ColumnsShown, SMT
      <3>3. Intended(p).type = "resultset"
        BY <2>1, ColumnsIs, SMT
      <3> QED
        BY <3>1, <3>2, <3>3
    <2>4. (ShownOtherwise(p) <=> n >= 10000) /\ MistakenType(p) = "unknown"
      BY <2>1, ColumnsIs, SMT DEF MaxColumns
    <2>5. n < 10000 <=> ~(n >= 10000)
      BY <2>2, SMT
    <2>6. n >= 10000 => ParsePacket(p) # Intended(p)
      BY <2>3, SMT
    <2> QED
      BY <2>3, <2>4, <2>5, <2>6, SMT DEF RightlyShown
  <1>5. ASSUME p \in [kind : {"definition", "eof"}] PROVE RightlyShown(p)
    <2>1. p.kind = "definition" \/ p.kind = "eof"
      BY <1>5
    <2>2. ParsePacket(p).type = MistakenType(p) /\ MistakenType(p) # p.kind
      BY <2>1, FixedIs, FixedShown, ZenonT(60)
    <2> QED
      BY <2>1, <2>2, MistakenIsShown, SMT
  <1>6. ASSUME p \in [kind : {"row"}, null : BOOLEAN, column : ByteText],
               Len(p.column) < TooMany
        PROVE  RightlyShown(p)
    <2>1. p.kind = "row" /\ p.null \in BOOLEAN /\ p.column \in ByteText
      BY <1>6
    <2>2. Len(p.column) \in Number /\ Len(p.column) \in Nat
      BY <1>6, <2>1, SMT DEF Number, Below, ByteText
    <2>3. CASE p.null
      <3>1. ParsePacket(p).type = "unknown"
        BY <2>1, <2>3, RowIs, FixedShown, Zenon
      <3>2. RowType(p) = "unknown"
        BY <2>3, Zenon DEF RowType
      <3>3. ParsePacket(p).type = MistakenType(p) /\ MistakenType(p) # p.kind
        BY <2>1, <3>1, <3>2, RowIs, Zenon
      <3> QED
        BY <2>1, <3>3, MistakenIsShown, SMT
    <2>4. CASE ~p.null
      <3> DEFINE n == Len(p.column)
                 type == ParsePacket(p).type
      <3>1. ParsePacket(p) = ParseServerPacket(LenEnc(Len(p.column)) \o p.column \o <<1, 49>>)
        BY <2>1, <2>4, RowIs, Zenon
      <3>2. /\ n = 0 => type = "ok"
            /\ n = 10 => type = "handshake"
            /\ n >= 10000 => type = "unknown"
            /\ n # 0 /\ n # 10 /\ n < 10000 => type = "resultset"
        BY <2>1, <2>2, <3>1, RowShown, SMT
      <3>3. p.column = <<>> <=> n = 0
        BY <2>1, SMT DEF ByteText
      <3> HIDE DEF type
      <3>4. /\ p.column = <<>> => RowType(p) = "ok"
            /\ n = 10 => RowType(p) = "handshake"
            /\ n >= MaxColumns => RowType(p) = "unknown"
            /\ p.column # <<>> /\ n # 10 /\ ~(n >= MaxColumns) => RowType(p) = "resultset"
        BY <2>2, <2>4, <3>3, RowTypeIs
      <3>5. type = RowType(p) /\ RowType(p) \in {"ok", "handshake", "unknown", "resultset"}
        BY <2>2, <3>2, <3>3, <3>4, SMT DEF MaxColumns
      <3>6. ParsePacket(p).type = MistakenType(p) /\ MistakenType(p) # p.kind
        BY <2>1, <3>5, RowIs, Zenon DEF type
      <3> QED
        BY <2>1, <3>6, MistakenIsShown, SMT
    <2> QED
      BY <2>3, <2>4
  <1>7. ASSUME p \in [kind : {"command"}, command : Below(256), text : ByteText],
               p.command = ComStmtExecute => Len(p.text) >= 4
        PROVE  RightlyShown(p)
    <2> DEFINE c == p.command
    <2>1. /\ p.kind = "command" /\ c \in Below(256) /\ p.text \in ByteText
          /\ c = 23 => Len(p.text) >= 4
      BY <1>7 DEF ComStmtExecute
    <2>2. c \in Nat
      BY <2>1 DEF Below
    <2>3. ParsePacket(p) = ParseClientPacket(<<c>> \o p.text) /\ MistakenType(p) = "command"
      BY <2>1, <2>2, CommandIs, Zenon
    <2>4. ParsePacket(p).type = "command"
      BY <2>1, <2>3, CommandShown, Zenon
    <2>5. CASE c \in {3, 22}
      <3>1. ParsePacket(p) = [type |-> "command", text |-> Shortened(p.text), numbers |-> <<c>>]
        BY <2>1, <2>3, <2>5, CommandShown, Zenon
      <3>2. c # 23
        BY <2>5
      <3>3. /\ Intended(p) = [type |-> "command", text |-> p.text, numbers |-> <<c>>]
            /\ ShownOtherwise(p) <=> p.text # Shortened(p.text)
        BY <2>1, <2>2, <2>5, <3>2, CommandIs, Zenon
      <3>4. ParsePacket(p).text = Shortened(p.text) /\ Intended(p).text = p.text
        BY <3>1, <3>3, SMT
      <3>5. ParsePacket(p) = Intended(p) <=> p.text = Shortened(p.text)
        BY <3>1, <3>3, <3>4, Zenon
      <3> QED
        BY <2>3, <2>4, <3>3, <3>5, Zenon DEF RightlyShown
    <2>6. CASE c = 2
      <3>1. c \in {2, 23} /\ c # 23
        BY <2>6
      <3>2. ParsePacket(p) = Intended(p) /\ ~ShownOtherwise(p)
        BY <2>1, <2>2, <2>3, <2>6, <3>1, CommandIs, CommandShown, Zenon
      <3> QED
        BY <3>2, Zenon DEF RightlyShown
    <2>7. CASE c = 23
      <3>1. ParsePacket(p) = Intended(p) /\ ~ShownOtherwise(p)
        BY <2>1, <2>2, <2>3, <2>7, CommandIs, CommandShown, Zenon
      <3> QED
        BY <3>1, Zenon DEF RightlyShown
    <2>8. CASE c \notin {2, 3, 22, 23}
      <3>1. ParsePacket(p) = [type |-> "command", text |-> <<>>, numbers |-> <<c>>]
        BY <2>1, <2>3, <2>8, CommandShown, Zenon
      <3>2. c # 23
        BY <2>8
      <3>3. /\ Intended(p) = [type |-> "command", text |-> p.text, numbers |-> <<c>>]
            /\ ShownOtherwise(p) <=> p.text # <<>>
        BY <2>1, <2>2, <2>8, <3>2, CommandIs, Zenon
      <3>4. ParsePacket(p).text = <<>> /\ Intended(p).text = p.text
        BY <3>1, <3>3, SMT
      <3>5. ParsePacket(p) = Intended(p) <=> p.text = <<>>
        BY <3>1, <3>3, <3>4, Zenon
      <3> QED
        BY <2>3, <2>4, <3>3, <3>5, Zenon DEF RightlyShown
    <2> QED
      BY <2>5, <2>6, <2>7, <2>8
  <1>8. ASSUME p \in [kind : {"login"}, flags : Below(256)] PROVE RightlyShown(p)
    <2> DEFINE d == <<p.flags, 166, 15, 0, 0, 0, 0, 1, 33>>
    <2>1. p.kind = "login"
      BY <1>8
    <2>2. d # <<>>
      OBVIOUS
    <2>3. ParsePacket(p) = ParseClientPacket(d) /\ MistakenType(p) = "command"
      BY <2>1, FixedIs, Zenon
    <2> HIDE DEF d
    <2>4. ParseClientPacket(d).type = "command"
      BY <2>2, Zenon DEF ParseClientPacket
    <2>5. ParsePacket(p).type = MistakenType(p) /\ MistakenType(p) # p.kind
      BY <2>1, <2>3, <2>4, Zenon
    <2> QED
      BY <2>1, <2>5, MistakenIsShown, SMT
  <1> QED
    BY <1>1, <1>2, <1>3, <1>4, <1>5, <1>6, <1>7, <1>8, Zenon DEF IsPacket

\* Of every MySQL packet the program shows what it is, but for the kinds and
\* lengths that ShownOtherwise lists, and of those the type that MistakenType
\* says: the length-encoded integers, the slices and the branches for the first
\* byte find the parts of the payload wherever their lengths put them.
THEOREM MySQLIsShown == MatchingSpec => []MySQLShown
  <1>1. Returned => MySQLShown
    <2> SUFFICES ASSUME Returned, Called("mysql")
                 PROVE  /\ output = Intended(input) <=> ~ShownOtherwise(input)
                        /\ ShownOtherwise(input) => output.type = MistakenType(input)
      BY DEF MySQLShown
    <2>1. input \in Packets /\ output = ParsePacket(input)
      BY DEF Returned, Called
    <2>2. RightlyShown(input)
      BY <2>1, PacketsAssumption, PacketShown
    <2> QED
      BY <2>1, <2>2, Zenon DEF RightlyShown
  <1> QED
    BY <1>1, ReturnedInvariant, PTL

=============================================================================
