---------------------------- MODULE FramingProofs ----------------------------
(***************************************************************************)
(* The readers, for every size of a body, every number of messages and     *)
(* every way to cut the stream into segments: a reader stands at the start *)
(* of a message whenever it begins to read one, and returns whole messages *)
(* only.                                                                   *)
(***************************************************************************)
EXTENDS Framing, RecursionFacts, SequenceTheorems

-----------------------------------------------------------------------------
(***************************************************************************)
(* Sums.                                                                   *)
(***************************************************************************)

\* The recursive function of Sum: the sums of the first elements.
SumOf(s) ==
    CHOOSE sum : sum = [i \in 0 .. Len(s) |-> IF i = 0 THEN 0 ELSE sum[i - 1] + s[i]]

\* The recursion is well founded.
LEMMA SumFacts ==
    ASSUME NEW s \in Seq(Nat)
    PROVE  /\ SumOf(s)[0] = 0
           /\ \A i \in 1 .. Len(s) : SumOf(s)[i] = SumOf(s)[i - 1] + s[i]
           /\ \A i \in 0 .. Len(s) : SumOf(s)[i] \in Nat
           /\ Sum(s) = SumOf(s)[Len(s)]
           /\ Sum(s) \in Nat
  <1> DEFINE n == Len(s)
             step == [i \in 1 .. n |-> [v \in Nat |-> v + s[i]]]
             g == SumOf(s)
  <1>1. n = Len(s) /\ n \in Nat /\ \A i \in 1 .. n : s[i] \in Nat
    BY LenProperties, ElementOfSeq
  <1> HIDE DEF n
  <1>2. /\ step \in [1 .. n -> [Nat -> Nat]]
        /\ \A i \in 1 .. n, v \in Nat : step[i][v] = v + s[i]
    BY <1>1
  <1>3. 0 \in Nat
    OBVIOUS
  <1> HIDE DEF step
  <1>4. PICK f \in [0 .. n -> Nat] : Follows(f, n, 0, step)
    BY <1>1, <1>2, <1>3, RecursiveFunction, Zenon
  <1>5. ASSUME NEW i \in 0 .. n PROVE f[i] = IF i = 0 THEN 0 ELSE f[i - 1] + s[i]
    <2>1. CASE i = 0
      BY <1>4, <2>1 DEF Follows
    <2>2. CASE i # 0
      <3>1. i \in 1 .. n /\ i - 1 \in 0 .. n
        BY <1>1, <2>2
      <3> QED
        BY <1>2, <1>4, <2>2, <3>1 DEF Follows
    <2> QED
      BY <2>1, <2>2
  <1>6. f = [i \in 0 .. n |-> IF i = 0 THEN 0 ELSE f[i - 1] + s[i]]
    BY <1>5
  <1>7. g = [i \in 0 .. n |-> IF i = 0 THEN 0 ELSE g[i - 1] + s[i]]
    BY <1>1, <1>6 DEF SumOf
  <1> HIDE DEF g
  <1>8. g[0] = 0 /\ \A i \in 1 .. n : g[i] = g[i - 1] + s[i]
    <2>1. \A i \in 0 .. n : g[i] = IF i = 0 THEN 0 ELSE g[i - 1] + s[i]
      BY <1>7, Zenon
    <2>2. 0 \in 0 .. n /\ \A i \in 1 .. n : i \in 0 .. n /\ i # 0
      BY <1>1
    <2> QED
      BY <2>1, <2>2, Zenon
  <1>9. FollowsIn(Nat, g, n, 0, step)
    BY <1>2, <1>8 DEF FollowsIn
  <1>10. \A i \in 0 .. n : g[i] \in Nat
    BY <1>1, <1>2, <1>3, <1>9, RecursionType, Zenon
  <1>11. Sum(s) = SumOf(s)[Len(s)]
    BY DEF Sum, SumOf
  <1>12. n \in 0 .. n
    BY <1>1
  <1> QED
    BY <1>1, <1>8, <1>10, <1>11, <1>12 DEF g

\* The sum of the first elements depends on them alone.
LEMMA SumPrefix ==
    ASSUME NEW s \in Seq(Nat), NEW t \in Seq(Nat), NEW n \in Nat,
           n <= Len(s), n <= Len(t), \A i \in 1 .. n : s[i] = t[i]
    PROVE  SumOf(s)[n] = SumOf(t)[n]
  <1> DEFINE f == SumOf(s)
             g == SumOf(t)
  <1>1. \A i \in 1 .. n : i \in 1 .. Len(s) /\ i \in 1 .. Len(t)
    BY LenProperties
  <1>2. f[0] = 0 /\ g[0] = 0
    BY SumFacts
  <1>3. \A i \in 1 .. n : f[i] = f[i - 1] + s[i] /\ g[i] = g[i - 1] + t[i]
    BY <1>1, SumFacts
  <1> HIDE DEF f, g
  <1>4. SameSteps(f, g, n)
    BY <1>2, <1>3 DEF SameSteps
  <1>5. n \in 0 .. n
    OBVIOUS
  <1>6. f[n] = g[n]
    BY <1>4, <1>5, RecursionUnique, ZenonT(60)
  <1> QED
    BY <1>6 DEF f, g

\* The elements of a concatenation.
LEMMA ConcatElements ==
    ASSUME NEW s \in Seq(Nat), NEW t \in Seq(Nat)
    PROVE  /\ \A i \in 1 .. Len(s) : (s \o t)[i] = s[i]
           /\ \A i \in 1 .. Len(t) : (s \o t)[Len(s) + i] = t[i]
  <1>1. Len(s) \in Nat /\ Len(t) \in Nat
    BY LenProperties
  <1> QED
    BY <1>1

\* The sum of a concatenation.
LEMMA SumConcat ==
    ASSUME NEW s \in Seq(Nat), NEW t \in Seq(Nat)
    PROVE  s \o t \in Seq(Nat) /\ Sum(s \o t) = Sum(s) + Sum(t)
  <1> DEFINE u == s \o t
             n == Len(s)
             k == Len(t)
  <1>1. u \in Seq(Nat) /\ Len(u) = n + k /\ n \in Nat /\ k \in Nat
    BY ConcatProperties, LenProperties
  <1>2. /\ \A i \in 1 .. n : u[i] = s[i]
        /\ \A i \in 1 .. k : u[n + i] = t[i]
    BY <1>1
  <1> HIDE DEF u
  <1>3. SumOf(u)[n] = SumOf(s)[n]
    <2>1. n <= Len(u) /\ n <= Len(s)
      BY <1>1
    <2> QED
      BY <1>1, <1>2, <2>1, SumPrefix
  <1> DEFINE f == [i \in 0 .. k |-> SumOf(u)[n + i]]
             g == [i \in 0 .. k |-> SumOf(s)[n] + SumOf(t)[i]]
  <1>4. /\ SumOf(t)[0] = 0 /\ SumOf(s)[n] \in Nat
        /\ \A i \in 1 .. k : SumOf(t)[i] = SumOf(t)[i - 1] + t[i]
        /\ \A i \in 0 .. k : SumOf(t)[i] \in Nat
        /\ \A i \in 1 .. k : t[i] \in Nat
    <2>1. n \in 0 .. Len(s)
      BY <1>1
    <2> QED
      BY <2>1, SumFacts, ElementOfSeq
  <1>5. \A i \in 1 .. n + k : SumOf(u)[i] = SumOf(u)[i - 1] + u[i]
    BY <1>1, SumFacts
  <1>6. f[0] = g[0]
    BY <1>1, <1>3, <1>4
  <1>7. ASSUME NEW i \in 1 .. k, f[i - 1] = g[i - 1] PROVE f[i] = g[i]
    <2>1. i \in 0 .. k /\ i - 1 \in 0 .. k /\ n + i \in 1 .. n + k /\ (n + i) - 1 = n + (i - 1)
      BY <1>1
    <2>2. f[i] = SumOf(u)[n + i] /\ f[i - 1] = SumOf(u)[(n + i) - 1]
      BY <2>1
    <2>3. f[i] = f[i - 1] + t[i]
      BY <1>2, <1>5, <2>1, <2>2
    <2>4. g[i] = SumOf(s)[n] + SumOf(t)[i] /\ g[i - 1] = SumOf(s)[n] + SumOf(t)[i - 1]
      BY <2>1
    <2>5. g[i] = g[i - 1] + t[i]
      <3>1. /\ SumOf(t)[i] = SumOf(t)[i - 1] + t[i] /\ SumOf(t)[i - 1] \in Nat
            /\ t[i] \in Nat /\ SumOf(s)[n] \in Nat
        BY <1>4, <2>1
      <3> HIDE DEF g
      <3> QED
        BY <2>4, <3>1
    <2> QED
      BY <1>7, <2>3, <2>5
  <1>8. SameSteps(f, g, k)
    BY <1>6, <1>7 DEF SameSteps
  <1>9. k \in 0 .. k
    BY <1>1
  <1> HIDE DEF f, g, k
  <1>10. f[k] = g[k]
    BY <1>1, <1>8, <1>9, RecursionUnique, ZenonT(60)
  <1>11. SumOf(u)[n + k] = SumOf(s)[n] + SumOf(t)[k]
    BY <1>9, <1>10 DEF f, g
  <1>12. Sum(u) = SumOf(u)[n + k] /\ Sum(s) = SumOf(s)[n] /\ Sum(t) = SumOf(t)[k]
    BY <1>1, SumFacts DEF k
  <1> QED
    BY <1>1, <1>11, <1>12 DEF u

\* Short sequences.
LEMMA SumShort ==
    ASSUME NEW a \in Nat, NEW b \in Nat
    PROVE  /\ <<>> \in Seq(Nat) /\ Sum(<<>>) = 0
           /\ <<a>> \in Seq(Nat) /\ Len(<<a>>) = 1 /\ Sum(<<a>>) = a
           /\ <<a, b>> \in Seq(Nat) /\ Len(<<a, b>>) = 2 /\ Sum(<<a, b>>) = a + b
  <1>1. <<>> \in Seq(Nat) /\ Len(<<>>) = 0
    OBVIOUS
  <1>2. Sum(<<>>) = 0
    BY <1>1, SumFacts
  <1>3. <<a>> \in Seq(Nat) /\ Len(<<a>>) = 1 /\ <<a>>[1] = a
    OBVIOUS
  <1>4. Sum(<<a>>) = a
    <2> DEFINE s == <<a>>
    <2>1. s \in Seq(Nat) /\ Len(s) = 1 /\ s[1] = a
      BY <1>3
    <2> HIDE DEF s
    <2>2. /\ SumOf(s)[0] = 0 /\ Sum(s) = SumOf(s)[1]
          /\ \A i \in 1 .. 1 : SumOf(s)[i] = SumOf(s)[i - 1] + s[i]
      BY <2>1, SumFacts
    <2>3. Sum(s) = a
      BY <2>1, <2>2
    <2> QED
      BY <2>3 DEF s
  <1>5. <<a, b>> \in Seq(Nat) /\ Len(<<a, b>>) = 2 /\ <<a, b>>[1] = a /\ <<a, b>>[2] = b
    OBVIOUS
  <1>6. Sum(<<a, b>>) = a + b
    <2> DEFINE s == <<a, b>>
    <2>1. s \in Seq(Nat) /\ Len(s) = 2 /\ s[1] = a /\ s[2] = b
      BY <1>5
    <2> HIDE DEF s
    <2>2. /\ SumOf(s)[0] = 0 /\ Sum(s) = SumOf(s)[2]
          /\ \A i \in 1 .. 2 : SumOf(s)[i] = SumOf(s)[i - 1] + s[i]
      BY <2>1, SumFacts
    <2>3. Sum(s) = a + b
      BY <2>1, <2>2
    <2> QED
      BY <2>3 DEF s
  <1> QED
    BY <1>1, <1>2, <1>3, <1>4, <1>5, <1>6

-----------------------------------------------------------------------------
(***************************************************************************)
(* Reads put together element by element.                                  *)
(***************************************************************************)

\* f[i] is what the first i parts add to c.
Joins(f, n, c, part) ==
    f[0] = c /\ \A i \in 1 .. n : f[i] = f[i - 1] \o part[i]

\* The recursive functions of the RESP readers are well founded.
LEMMA JoinExists ==
    ASSUME NEW n \in Nat, NEW c \in Seq(Nat), NEW part \in [1 .. n -> Seq(Nat)]
    PROVE  \E f \in [0 .. n -> Seq(Nat)] :
              f = [i \in 0 .. n |-> IF i = 0 THEN c ELSE f[i - 1] \o part[i]]
  <1> DEFINE S == Seq(Nat)
             step == [i \in 1 .. n |-> [v \in S |-> v \o part[i]]]
  <1>1. \A i \in 1 .. n, v \in S : v \o part[i] \in S
    BY ConcatProperties
  <1> HIDE DEF S
  <1>2. /\ step \in [1 .. n -> [S -> S]]
        /\ \A i \in 1 .. n, v \in S : step[i][v] = v \o part[i]
    BY <1>1
  <1>3. c \in S
    BY DEF S
  <1> HIDE DEF step
  <1>4. PICK f \in [0 .. n -> S] : Follows(f, n, c, step)
    BY <1>2, <1>3, RecursiveFunction, Zenon
  <1>5. ASSUME NEW i \in 0 .. n PROVE f[i] = IF i = 0 THEN c ELSE f[i - 1] \o part[i]
    <2>1. CASE i = 0
      BY <1>4, <2>1 DEF Follows
    <2>2. CASE i # 0
      <3>1. i \in 1 .. n /\ i - 1 \in 0 .. n
        BY <2>2
      <3> QED
        BY <1>2, <1>4, <2>2, <3>1 DEF Follows
    <2> QED
      BY <2>1, <2>2
  <1>6. f = [i \in 0 .. n |-> IF i = 0 THEN c ELSE f[i - 1] \o part[i]]
    BY <1>5
  <1> QED
    BY <1>6 DEF S

\* Their values are sequences of reads, and the bytes read add up.
LEMMA JoinFacts ==
    ASSUME NEW n \in Nat, NEW c \in Seq(Nat), NEW part \in [1 .. n -> Seq(Nat)],
           NEW f, Joins(f, n, c, part)
    PROVE  /\ \A i \in 0 .. n : f[i] \in Seq(Nat)
           /\ [i \in 1 .. n |-> Sum(part[i])] \in Seq(Nat)
           /\ Sum(f[n]) = Sum(c) + Sum([i \in 1 .. n |-> Sum(part[i])])
  <1> DEFINE S == Seq(Nat)
             step == [i \in 1 .. n |-> [v \in S |-> v \o part[i]]]
             sums == [i \in 1 .. n |-> Sum(part[i])]
             p == [i \in 0 .. n |-> Sum(f[i])]
             q == [i \in 0 .. n |-> Sum(c) + SumOf(sums)[i]]
  <1>1. \A i \in 1 .. n, v \in S : v \o part[i] \in S
    BY ConcatProperties
  <1>2. c \in S /\ \A i \in 1 .. n : part[i] \in S
    OBVIOUS
  <1> HIDE DEF S
  <1>3. /\ step \in [1 .. n -> [S -> S]]
        /\ \A i \in 1 .. n, v \in S : step[i][v] = v \o part[i]
    BY <1>1
  <1> HIDE DEF step
  <1>4. FollowsIn(S, f, n, c, step)
    BY <1>3 DEF FollowsIn, Joins
  <1>5. \A i \in 0 .. n : f[i] \in S
    BY <1>2, <1>3, <1>4, RecursionType, Zenon
  <1>6. /\ sums \in Seq(Nat) /\ Len(sums) = n
        /\ \A i \in 1 .. n : sums[i] = Sum(part[i]) /\ Sum(part[i]) \in Nat
    <2>1. \A i \in 1 .. n : Sum(part[i]) \in Nat
      BY SumFacts
    <2> QED
      BY <2>1
  <1> HIDE DEF sums
  <1>7. /\ SumOf(sums)[0] = 0 /\ Sum(sums) = SumOf(sums)[n]
        /\ \A i \in 1 .. n : SumOf(sums)[i] = SumOf(sums)[i - 1] + sums[i]
        /\ \A i \in 0 .. n : SumOf(sums)[i] \in Nat
    BY <1>6, SumFacts
  <1>8. Sum(c) \in Nat
    BY SumFacts
  <1>9. p[0] = q[0]
    BY <1>7, <1>8 DEF Joins
  <1>10. ASSUME NEW i \in 1 .. n, p[i - 1] = q[i - 1] PROVE p[i] = q[i]
    <2>1. i \in 0 .. n /\ i - 1 \in 0 .. n
      OBVIOUS
    <2>2. f[i - 1] \in Seq(Nat) /\ part[i] \in Seq(Nat) /\ f[i] = f[i - 1] \o part[i]
      BY <1>5, <2>1 DEF Joins, S
    <2>3. Sum(f[i]) = Sum(f[i - 1]) + Sum(part[i])
      BY <2>2, SumConcat
    <2>4. Sum(f[i - 1]) = Sum(c) + SumOf(sums)[i - 1]
      BY <1>10, <2>1
    <2>5. SumOf(sums)[i] = SumOf(sums)[i - 1] + Sum(part[i])
      BY <1>6, <1>7
    <2>6. Sum(f[i]) = Sum(c) + SumOf(sums)[i]
      <3>1. SumOf(sums)[i - 1] \in Nat /\ Sum(part[i]) \in Nat
        BY <1>6, <1>7, <2>1
      <3> QED
        BY <1>8, <2>3, <2>4, <2>5, <3>1
    <2> QED
      BY <2>1, <2>6
  <1>11. SameSteps(p, q, n)
    BY <1>9, <1>10 DEF SameSteps
  <1> HIDE DEF p, q
  <1>12. n \in 0 .. n
    OBVIOUS
  <1>13. p[n] = q[n]
    BY <1>11, <1>12, RecursionUnique, ZenonT(60)
  <1>14. Sum(f[n]) = Sum(c) + Sum(sums)
    BY <1>7, <1>12, <1>13 DEF p, q
  <1> QED
    BY <1>5, <1>6, <1>14 DEF S, sums

\* What has been joined is not lost.
LEMMA JoinGrows ==
    ASSUME NEW n \in Nat, NEW c \in Seq(Nat), NEW part \in [1 .. n -> Seq(Nat)],
           NEW f, Joins(f, n, c, part), NEW j \in 0 .. n, Len(f[j]) > 0
    PROVE  Len(f[n]) > 0
  <1>1. \A i \in 0 .. n : f[i] \in Seq(Nat)
    BY JoinFacts
  <1> DEFINE T == {k \in Nat : j + k <= n => Len(f[j + k]) > 0}
  <1>2. 0 \in T
    <2>1. j + 0 = j
      OBVIOUS
    <2> QED
      BY <2>1, Zenon
  <1>3. ASSUME NEW k \in Nat, k \in T PROVE k + 1 \in T
    <2> DEFINE h == j + k
    <2>1. CASE j + (k + 1) <= n
      <3>1. h \in 0 .. n /\ h + 1 \in 1 .. n /\ (h + 1) - 1 = h /\ j + (k + 1) = h + 1
        BY <2>1
      <3>2. Len(f[h]) > 0
        BY <1>3, <3>1
      <3> HIDE DEF h
      <3>3. f[h + 1] = f[h] \o part[h + 1] /\ f[h] \in Seq(Nat) /\ part[h + 1] \in Seq(Nat)
        BY <1>1, <3>1 DEF Joins
      <3>4. /\ Len(f[h + 1]) = Len(f[h]) + Len(part[h + 1])
            /\ Len(part[h + 1]) \in Nat /\ Len(f[h]) \in Nat
        BY <3>3, ConcatProperties, LenProperties
      <3> DEFINE a == Len(f[h])
                 b == Len(part[h + 1])
                 d == Len(f[h + 1])
      <3> HIDE DEF a, b, d
      <3>5. a \in Nat /\ b \in Nat /\ d = a + b /\ a > 0
        BY <3>2, <3>4 DEF a, b, d
      <3>6. d > 0
        BY <3>5
      <3>7. Len(f[j + (k + 1)]) > 0
        BY <3>1, <3>6 DEF d
      <3> QED
        BY <3>7
    <2>2. CASE ~(j + (k + 1) <= n)
      BY <2>2
    <2> QED
      BY <2>1, <2>2
  <1> HIDE DEF T
  <1>4. \A k \in Nat : k \in T
    BY <1>2, <1>3, SetInduction
  <1>5. n - j \in Nat /\ j + (n - j) = n /\ n <= n
    OBVIOUS
  <1>6. j + (n - j) <= n => Len(f[j + (n - j)]) > 0
    BY <1>4, <1>5, Zenon DEF T
  <1>7. Len(f[j + (n - j)]) > 0
    BY <1>5, <1>6
  <1> QED
    BY <1>5, <1>7, Zenon

-----------------------------------------------------------------------------
(***************************************************************************)
(* RESP messages.                                                          *)
(***************************************************************************)

RESPElements == [type : {"simple", "nil", "bulk", "array", "map"}, n : Nat]

SizesOf(es) == [i \in 1 .. Len(es) |-> ElementSize(es[i])]

\* The reads for an element take its bytes.
LEMMA ElementFacts ==
    ASSUME NEW e \in RESPElements
    PROVE  /\ ElementReads(e) \in Seq(Nat) /\ Len(ElementReads(e)) > 0
           /\ ElementSize(e) \in Nat
           /\ Sum(ElementReads(e)) = ElementSize(e)
           /\ e.type # "bulk" => ElementSize(e) = LineLen
  <1>1. e.n + 2 \in Nat /\ LineLen \in Nat
    BY DEF RESPElements, LineLen
  <1> DEFINE a == LineLen
             b == e.n + 2
  <1> HIDE DEF a, b
  <1>2. a \in Nat /\ b \in Nat
    BY <1>1 DEF a, b
  <1>3. /\ <<a>> \in Seq(Nat) /\ Len(<<a>>) = 1 /\ Sum(<<a>>) = a
        /\ <<a, b>> \in Seq(Nat) /\ Len(<<a, b>>) = 2 /\ Sum(<<a, b>>) = a + b
    BY <1>2, SumShort
  <1>4. CASE e.type = "bulk"
    <2>1. ElementReads(e) = <<a, b>> /\ ElementSize(e) = a + b
      BY <1>4 DEF ElementReads, ElementSize, a, b
    <2> QED
      BY <1>2, <1>3, <1>4, <2>1
  <1>5. CASE e.type # "bulk"
    <2>1. ElementReads(e) = <<a>> /\ ElementSize(e) = a /\ a = LineLen
      BY <1>1, <1>5 DEF ElementReads, ElementSize, a
    <2> QED
      BY <1>2, <1>3, <1>5, <2>1
  <1> QED
    BY <1>4, <1>5

\* The sizes of the elements.
LEMMA SizesFacts ==
    ASSUME NEW es \in Seq(RESPElements)
    PROVE  /\ Len(es) \in Nat /\ \A i \in 1 .. Len(es) : es[i] \in RESPElements
           /\ SizesOf(es) \in Seq(Nat) /\ Len(SizesOf(es)) = Len(es)
           /\ \A i \in 1 .. Len(es) : SizesOf(es)[i] = ElementSize(es[i])
           /\ Sum(SizesOf(es)) \in Nat
  <1>1. Len(es) \in Nat /\ \A i \in 1 .. Len(es) : es[i] \in RESPElements
    BY LenProperties, ElementOfSeq
  <1>2. \A i \in 1 .. Len(es) : ElementSize(es[i]) \in Nat
    BY <1>1, ElementFacts
  <1>3. /\ SizesOf(es) \in Seq(Nat) /\ Len(SizesOf(es)) = Len(es)
        /\ \A i \in 1 .. Len(es) : SizesOf(es)[i] = ElementSize(es[i])
    BY <1>1, <1>2 DEF SizesOf
  <1> QED
    BY <1>1, <1>3, SumFacts

\* The recursive functions of RESPCommandReads and RESPResponseReads.
CommandOf(es) ==
    CHOOSE upto : upto = [i \in 0 .. es[1].n |->
        IF i = 0 THEN <<LineLen>> ELSE upto[i - 1] \o ElementReads(es[i + 1])]

AwaitedOf(es) ==
    CHOOSE awaited : awaited = [i \in 0 .. Len(es) |->
        IF i = 0 THEN 1
        ELSE IF awaited[i - 1] = 0 THEN 0
        ELSE awaited[i - 1] - 1 + (IF es[i].type = "array" THEN es[i].n ELSE 0)]

ResponseOf(es) ==
    CHOOSE upto : upto = [i \in 0 .. Len(es) |->
        IF i = 0 THEN <<>>
        ELSE upto[i - 1] \o (IF AwaitedOf(es)[i - 1] > 0 THEN ElementReads(es[i]) ELSE <<>>)]

\* A command that has the elements it announces is read whole.
LEMMA CommandFacts ==
    ASSUME NEW es \in Seq(RESPElements), Len(es) > 0,
           Len(es) = es[1].n + 1, es[1].type # "bulk"
    PROVE  LET reads1 == CommandOf(es)[es[1].n] IN
           reads1 \in Seq(Nat) /\ Len(reads1) > 0 /\ Sum(reads1) = Sum(SizesOf(es))
  <1> DEFINE n == es[1].n
             c == <<LineLen>>
             part == [i \in 1 .. n |-> ElementReads(es[i + 1])]
             g == CommandOf(es)
             sizes == SizesOf(es)
             rest == [i \in 1 .. n |-> Sum(part[i])]
  <1>1. /\ Len(es) \in Nat /\ \A i \in 1 .. Len(es) : es[i] \in RESPElements
        /\ sizes \in Seq(Nat) /\ Len(sizes) = Len(es)
        /\ \A i \in 1 .. Len(es) : sizes[i] = ElementSize(es[i])
    BY SizesFacts
  <1>2. n \in Nat /\ Len(es) = n + 1 /\ es[1] \in RESPElements
    <2>1. es[1] \in RESPElements
      BY <1>1
    <2> QED
      BY <2>1 DEF RESPElements
  <1>3. c \in Seq(Nat) /\ Len(c) = 1 /\ Sum(c) = LineLen /\ LineLen \in Nat
    <2>1. LineLen \in Nat
      BY DEF LineLen
    <2> QED
      BY <2>1, SumShort
  <1> HIDE DEF n, c, sizes
  <1>4. \A i \in 1 .. n : i + 1 \in 1 .. Len(es)
    BY <1>1, <1>2
  <1>5. /\ part \in [1 .. n -> Seq(Nat)]
        /\ \A i \in 1 .. n : Sum(part[i]) = sizes[i + 1] /\ part[i] = ElementReads(es[i + 1])
    BY <1>1, <1>4, ElementFacts
  <1> HIDE DEF part
  <1>6. PICK f \in [0 .. n -> Seq(Nat)] :
            f = [i \in 0 .. n |-> IF i = 0 THEN c ELSE f[i - 1] \o part[i]]
    BY <1>2, <1>3, <1>5, JoinExists
  <1>7. f = [i \in 0 .. n |-> IF i = 0 THEN <<LineLen>> ELSE f[i - 1] \o ElementReads(es[i + 1])]
    <2>1. \A i \in 0 .. n : i = 0 \/ i \in 1 .. n
      BY <1>2
    <2>2. \A i \in 0 .. n : f[i] = IF i = 0 THEN <<LineLen>> ELSE f[i - 1] \o ElementReads(es[i + 1])
      BY <1>5, <1>6, <2>1, ZenonT(60) DEF c
    <2> QED
      BY <2>2
  <1>8. g = [i \in 0 .. n |-> IF i = 0 THEN <<LineLen>> ELSE g[i - 1] \o ElementReads(es[i + 1])]
    BY <1>7 DEF CommandOf, n
  <1> HIDE DEF g
  <1>9. Joins(g, n, c, part)
    <2>1. \A i \in 0 .. n : g[i] = IF i = 0 THEN <<LineLen>> ELSE g[i - 1] \o ElementReads(es[i + 1])
      BY <1>8, Zenon
    <2>2. 0 \in 0 .. n /\ \A i \in 1 .. n : i \in 0 .. n /\ i # 0
      BY <1>2
    <2>3. g[0] = c /\ \A i \in 1 .. n : g[i] = g[i - 1] \o ElementReads(es[i + 1])
      BY <2>1, <2>2, Zenon DEF c
    <2> QED
      BY <1>5, <2>3 DEF Joins
  <1>10. /\ \A i \in 0 .. n : g[i] \in Seq(Nat)
         /\ rest \in Seq(Nat)
         /\ Sum(g[n]) = Sum(c) + Sum(rest)
    BY <1>2, <1>3, <1>5, <1>9, JoinFacts
  <1>11. sizes = c \o rest
    <2>1. Len(rest) = n /\ \A i \in 1 .. n : rest[i] = sizes[i + 1]
      BY <1>2, <1>5, <1>10, SMTT(60)
    <2> HIDE DEF rest
    <2>2. c \o rest \in Seq(Nat) /\ Len(c \o rest) = n + 1
      <3>1. c \o rest \in Seq(Nat) /\ Len(c \o rest) = Len(c) + Len(rest)
        BY <1>3, <1>10, ConcatProperties
      <3> QED
        BY <1>2, <1>3, <2>1, <3>1
    <2>3. sizes[1] = LineLen
      <3>1. 1 \in 1 .. Len(es)
        BY <1>2
      <3> QED
        BY <1>1, <1>2, <3>1, ElementFacts
    <2>4. (c \o rest)[1] = LineLen /\ \A i \in 1 .. n : (c \o rest)[i + 1] = rest[i]
      <3>1. c[1] = LineLen
        BY DEF c
      <3>2. /\ \A i \in 1 .. Len(c) : (c \o rest)[i] = c[i]
            /\ \A i \in 1 .. Len(rest) : (c \o rest)[Len(c) + i] = rest[i]
        BY <1>3, <1>10, ConcatElements
      <3>3. (c \o rest)[1] = LineLen
        <4>1. 1 \in 1 .. Len(c)
          BY <1>3
        <4> QED
          BY <3>1, <3>2, <4>1, Zenon
      <3>4. ASSUME NEW i \in 1 .. n PROVE (c \o rest)[i + 1] = rest[i]
        <4>1. i \in 1 .. Len(rest) /\ 1 + i = i + 1
          BY <1>2, <2>1
        <4>2. (c \o rest)[Len(c) + i] = rest[i]
          BY <3>2, <4>1, Zenon
        <4> QED
          BY <1>3, <4>1, <4>2, Zenon
      <3> QED
        BY <3>3, <3>4
    <2>5. \A i \in 1 .. n + 1 : sizes[i] = (c \o rest)[i]
      <3> SUFFICES ASSUME NEW i \in 1 .. n + 1 PROVE sizes[i] = (c \o rest)[i]
        OBVIOUS
      <3>1. CASE i = 1
        BY <2>3, <2>4, <3>1
      <3>2. CASE i # 1
        <4>1. i - 1 \in 1 .. n /\ (i - 1) + 1 = i
          BY <1>2, <3>2
        <4> QED
          BY <2>1, <2>4, <4>1, ZenonT(60)
      <3> QED
        BY <3>1, <3>2
    <2> QED
      BY <1>1, <1>2, <2>2, <2>5, SeqEqual
  <1>12. Sum(sizes) = Sum(c) + Sum(rest)
    BY <1>3, <1>10, <1>11, SumConcat
  <1>13. Len(g[n]) > 0
    <2>1. 0 \in 0 .. n
      BY <1>2
    <2>2. g[0] = c
      BY <1>9 DEF Joins
    <2>3. Len(g[0]) = 1
      BY <1>3, <2>2
    <2>4. Len(g[0]) > 0
      BY <2>3
    <2> QED
      BY <1>2, <1>3, <1>5, <1>9, <2>1, <2>4, JoinGrows
  <1>14. n \in 0 .. n
    BY <1>2
  <1> QED
    BY <1>10, <1>12, <1>13, <1>14 DEF g, n, sizes

\* How many elements the reader of a response waits for.
LEMMA AwaitedFacts ==
    ASSUME NEW es \in Seq(RESPElements)
    PROVE  /\ AwaitedOf(es)[0] = 1
           /\ \A i \in 1 .. Len(es) :
                AwaitedOf(es)[i] =
                    IF AwaitedOf(es)[i - 1] = 0 THEN 0
                    ELSE AwaitedOf(es)[i - 1] - 1
                            + (IF es[i].type = "array" THEN es[i].n ELSE 0)
           /\ \A i \in 0 .. Len(es) : AwaitedOf(es)[i] \in Nat
  <1> DEFINE n == Len(es)
             more == [i \in 1 .. n |-> IF es[i].type = "array" THEN es[i].n ELSE 0]
             step == [i \in 1 .. n |-> [v \in Nat |-> IF v = 0 THEN 0 ELSE v - 1 + more[i]]]
             g == AwaitedOf(es)
  <1>1. n = Len(es) /\ n \in Nat /\ \A i \in 1 .. n : es[i] \in RESPElements
    BY SizesFacts
  <1> HIDE DEF n
  <1>2. \A i \in 1 .. n : more[i] \in Nat /\ more[i] = IF es[i].type = "array" THEN es[i].n ELSE 0
    BY <1>1 DEF RESPElements
  <1> HIDE DEF more
  <1>3. /\ step \in [1 .. n -> [Nat -> Nat]]
        /\ \A i \in 1 .. n, v \in Nat : step[i][v] = IF v = 0 THEN 0 ELSE v - 1 + more[i]
    BY <1>2
  <1>4. 1 \in Nat
    OBVIOUS
  <1> HIDE DEF step
  <1>5. PICK f \in [0 .. n -> Nat] : Follows(f, n, 1, step)
    BY <1>1, <1>3, <1>4, RecursiveFunction, Zenon
  <1> DEFINE Body(h, i) ==
        IF i = 0 THEN 1
        ELSE IF h[i - 1] = 0 THEN 0
        ELSE h[i - 1] - 1 + (IF es[i].type = "array" THEN es[i].n ELSE 0)
  <1>6. ASSUME NEW i \in 0 .. n PROVE f[i] = Body(f, i)
    <2>1. CASE i = 0
      BY <1>5, <2>1 DEF Follows
    <2>2. CASE i # 0
      <3>1. i \in 1 .. n /\ i - 1 \in 0 .. n
        BY <1>1, <2>2
      <3>2. f[i] = IF f[i - 1] = 0 THEN 0 ELSE f[i - 1] - 1 + more[i]
        BY <1>3, <1>5, <3>1 DEF Follows
      <3> QED
        BY <1>2, <2>2, <3>1, <3>2
    <2> QED
      BY <2>1, <2>2
  <1>7. f = [i \in 0 .. n |-> Body(f, i)]
    BY <1>6
  <1>8. g = [i \in 0 .. n |-> Body(g, i)]
    BY <1>1, <1>7 DEF AwaitedOf
  <1> HIDE DEF g
  <1>9. g[0] = 1 /\ \A i \in 1 .. n : g[i] = IF g[i - 1] = 0 THEN 0 ELSE g[i - 1] - 1 + more[i]
    <2>1. \A i \in 0 .. n : g[i] = Body(g, i)
      <3> HIDE DEF Body
      <3> QED
        BY <1>8, Zenon
    <2>2. 0 \in 0 .. n /\ \A i \in 1 .. n : i \in 0 .. n /\ i # 0
      BY <1>1
    <2> QED
      BY <1>2, <2>1, <2>2
  <1>10. FollowsIn(Nat, g, n, 1, step)
    BY <1>3, <1>9 DEF FollowsIn
  <1>11. \A i \in 0 .. n : g[i] \in Nat
    BY <1>1, <1>3, <1>4, <1>10, RecursionType, Zenon
  <1> QED
    BY <1>1, <1>2, <1>9, <1>11 DEF g

\* A response that is awaited to its last element is read whole.
LEMMA ResponseFacts ==
    ASSUME NEW es \in Seq(RESPElements), Len(es) > 0
    PROVE  LET all == ResponseOf(es)[Len(es)] IN
           /\ all \in Seq(Nat) /\ Len(all) > 0
           /\ (\A i \in 0 .. Len(es) - 1 : AwaitedOf(es)[i] > 0)
                => Sum(all) = Sum(SizesOf(es))
  <1> DEFINE n == Len(es)
             w == AwaitedOf(es)
             Part(i) == IF w[i - 1] > 0 THEN ElementReads(es[i]) ELSE <<>>
             part == [i \in 1 .. n |-> Part(i)]
             g == ResponseOf(es)
             sizes == SizesOf(es)
             sums == [i \in 1 .. n |-> Sum(part[i])]
             c == <<>>
  <1>1. /\ n = Len(es) /\ n \in Nat /\ \A i \in 1 .. n : es[i] \in RESPElements
        /\ sizes \in Seq(Nat) /\ Len(sizes) = n
        /\ \A i \in 1 .. n : sizes[i] = ElementSize(es[i])
    BY SizesFacts
  <1>2. w[0] = 1
    BY AwaitedFacts
  <1>3. n \in Nat \ {0}
    BY <1>1
  <1>4. c \in Seq(Nat) /\ Sum(c) = 0
    BY SumShort
  <1> HIDE DEF n, w, sizes, c
  <1>5. \A i \in 1 .. n : /\ ElementReads(es[i]) \in Seq(Nat) /\ Len(ElementReads(es[i])) > 0
                          /\ Sum(ElementReads(es[i])) = sizes[i]
    BY <1>1, ElementFacts
  <1>6. \A i \in 1 .. n : Part(i) \in Seq(Nat) /\ (w[i - 1] > 0 => Part(i) = ElementReads(es[i]))
    BY <1>4, <1>5 DEF c
  <1>7. /\ \A i \in 0 .. n : i = 0 \/ i \in 1 .. n
        /\ 0 \in 0 .. n /\ \A i \in 1 .. n : i \in 0 .. n /\ i # 0
    BY <1>1
  <1> DEFINE Body(h, i) == IF i = 0 THEN <<>> ELSE h[i - 1] \o Part(i)
  <1>8. g = CHOOSE h : h = [i \in 0 .. n |-> Body(h, i)]
    BY DEF ResponseOf, n, w
  <1> HIDE DEF Part, g
  <1>9. part \in [1 .. n -> Seq(Nat)] /\ \A i \in 1 .. n : part[i] = Part(i)
    BY <1>6
  <1> HIDE DEF part
  <1>10. PICK f \in [0 .. n -> Seq(Nat)] :
            f = [i \in 0 .. n |-> IF i = 0 THEN c ELSE f[i - 1] \o part[i]]
    <2>1. n \in Nat /\ c \in Seq(Nat) /\ part \in [1 .. n -> Seq(Nat)]
      BY <1>1, <1>4, <1>9
    <2> QED
      BY <2>1, JoinExists
  <1>11. f = [i \in 0 .. n |-> Body(f, i)]
    <2>1. \A i \in 0 .. n : f[i] = Body(f, i)
      BY <1>7, <1>9, <1>10 DEF c
    <2> QED
      BY <2>1
  <1>12. g = [i \in 0 .. n |-> Body(g, i)]
    <2> HIDE DEF Body
    <2> QED
      BY <1>8, <1>11
  <1>13. Joins(g, n, c, part)
    <2>1. \A i \in 0 .. n : g[i] = Body(g, i)
      <3> HIDE DEF Body
      <3> QED
        BY <1>12, Zenon
    <2>2. g[0] = c /\ \A i \in 1 .. n : g[i] = g[i - 1] \o Part(i)
      BY <1>7, <2>1, Zenon DEF c
    <2> QED
      BY <1>9, <2>2 DEF Joins
  <1>14. /\ \A i \in 0 .. n : g[i] \in Seq(Nat)
         /\ sums \in Seq(Nat)
         /\ Sum(g[n]) = Sum(c) + Sum(sums)
    BY <1>1, <1>4, <1>9, <1>13, JoinFacts, ZenonT(60)
  <1>15. Len(g[n]) > 0
    <2>1. 1 \in 1 .. n /\ 1 \in 0 .. n /\ 0 \in 0 .. n /\ 1 - 1 = 0 /\ w[1 - 1] > 0
      BY <1>2, <1>3
    <2>2. part[1] = ElementReads(es[1]) /\ part[1] \in Seq(Nat) /\ Len(part[1]) > 0
      BY <1>5, <1>6, <1>9, <2>1, Zenon
    <2>3. g[1] = <<>> \o part[1]
      <3>1. g[1] = g[1 - 1] \o part[1] /\ g[0] = c
        BY <1>13, <2>1, Zenon DEF Joins
      <3> QED
        BY <2>1, <3>1 DEF c
    <2>4. g[1] = part[1]
      BY <2>2, <2>3, ConcatEmptySeq
    <2>5. Len(g[1]) > 0
      BY <2>2, <2>4, Zenon
    <2> QED
      BY <1>1, <1>4, <1>9, <1>13, <2>1, <2>5, JoinGrows
  <1>16. ASSUME \A i \in 0 .. n - 1 : w[i] > 0
         PROVE  Sum(g[n]) = Sum(sizes)
    <2>1. Len(sums) = n /\ \A i \in 1 .. n : sums[i] = Sum(part[i])
      BY <1>1, <1>14
    <2> HIDE DEF sums
    <2>2. \A i \in 1 .. n : i - 1 \in 0 .. n - 1
      BY <1>1
    <2>3. \A i \in 1 .. n : sums[i] = sizes[i]
      BY <1>5, <1>6, <1>9, <1>16, <2>1, <2>2, Zenon
    <2>4. sums = sizes
      BY <1>1, <1>14, <2>1, <2>3, SeqEqual
    <2>5. Sum(sums) \in Nat
      BY <1>14, SumFacts
    <2> QED
      BY <1>4, <1>14, <2>4, <2>5
  <1>17. n \in 0 .. n
    BY <1>1
  <1> QED
    BY <1>14, <1>15, <1>16, <1>17 DEF g, n, w, sizes

RESPKinds == {"line", "nil", "bulk", "array", "nested", "map"}

\* The elements of every kind of message: a command announces how many
\* follow, and a response is awaited to its last element unless it is a map.
LEMMA ElementsFacts ==
    ASSUME NEW m, m.kind \in RESPKinds, m.body \in Nat
    PROVE  LET es == Elements(m) IN
           /\ es \in Seq(RESPElements) /\ Len(es) > 0
           /\ m.kind \in {"line", "array"} => Len(es) = es[1].n + 1 /\ es[1].type # "bulk"
           /\ m.kind # "map" => \A i \in 0 .. Len(es) - 1 : AwaitedOf(es)[i] > 0
           /\ es[1].type = "array" => m.kind \in {"array", "nested"}
  <1> DEFINE es == Elements(m)
             w == AwaitedOf(es)
             More(i) == IF es[i].type = "array" THEN es[i].n ELSE 0
  <1>1. /\ Simple \in RESPElements /\ NilBulk \in RESPElements
        /\ \A n \in Nat : Bulk(n) \in RESPElements /\ Array(n) \in RESPElements /\ Map(n) \in RESPElements
    BY DEF RESPElements, Simple, NilBulk, Bulk, Array, Map
  <1>2. ASSUME es \in Seq(RESPElements)
        PROVE  /\ w[0] = 1
               /\ \A i \in 1 .. Len(es) : w[i] = IF w[i - 1] = 0 THEN 0 ELSE w[i - 1] - 1 + More(i)
    BY <1>2, AwaitedFacts
  <1>3. CASE m.kind \in {"line", "nil", "bulk"}
    <2>1. PICK e \in RESPElements : es = <<e>> /\ e.type # "array"
                                    /\ (m.kind = "line" => e.n = 0 /\ e.type # "bulk")
      BY <1>1, <1>3 DEF Elements, Simple, NilBulk, Bulk
    <2>2. es \in Seq(RESPElements) /\ Len(es) = 1 /\ es[1] = e
      BY <2>1
    <2> HIDE DEF es
    <2>3. w[0] > 0
      BY <1>2, <2>2
    <2> QED
      BY <1>3, <2>1, <2>2, <2>3 DEF es
  <1>4. CASE m.kind = "array"
    <2>1. es = <<Array(3), Bulk(m.body), NilBulk, Bulk(0)>>
      BY <1>4 DEF Elements
    <2>2. /\ es \in Seq(RESPElements) /\ Len(es) = 4
          /\ es[1] = Array(3) /\ es[2] = Bulk(m.body) /\ es[3] = NilBulk /\ es[4] = Bulk(0)
      BY <1>1, <2>1
    <2> HIDE DEF es
    <2>3. More(1) = 3 /\ More(2) = 0 /\ More(3) = 0 /\ es[1].n = 3 /\ es[1].type = "array"
      BY <2>2 DEF Array, Bulk, NilBulk
    <2> HIDE DEF w, More
    <2>4. w[0] = 1 /\ w[1] = 3 /\ w[2] = 2 /\ w[3] = 1
      BY <1>2, <2>2, <2>3
    <2>5. \A i \in 0 .. 3 : w[i] > 0
      BY <2>4
    <2> QED
      BY <1>4, <2>2, <2>3, <2>5 DEF w, es
  <1>5. CASE m.kind = "nested"
    <2>1. es = <<Array(2), Array(1), Bulk(m.body), Simple>>
      BY <1>5 DEF Elements
    <2>2. /\ es \in Seq(RESPElements) /\ Len(es) = 4
          /\ es[1] = Array(2) /\ es[2] = Array(1) /\ es[3] = Bulk(m.body) /\ es[4] = Simple
      BY <1>1, <2>1
    <2> HIDE DEF es
    <2>3. More(1) = 2 /\ More(2) = 1 /\ More(3) = 0
      BY <2>2 DEF Array, Bulk
    <2> HIDE DEF w, More
    <2>4. w[0] = 1 /\ w[1] = 2 /\ w[2] = 2 /\ w[3] = 1
      BY <1>2, <2>2, <2>3
    <2>5. \A i \in 0 .. 3 : w[i] > 0
      BY <2>4
    <2> QED
      BY <1>5, <2>2, <2>5 DEF w, es
  <1>6. CASE m.kind = "map"
    <2>1. es = <<Map(1), Simple, Bulk(m.body)>>
      BY <1>6 DEF Elements
    <2>2. es \in Seq(RESPElements) /\ Len(es) = 3 /\ es[1] = Map(1)
      BY <1>1, <2>1
    <2> HIDE DEF es
    <2>3. es[1].type = "map"
      BY <2>2 DEF Map
    <2> QED
      BY <1>6, <2>2, <2>3 DEF es
  <1> QED
    BY <1>3, <1>4, <1>5, <1>6 DEF RESPKinds

\* The readers of RESP read every message whole, the maps excepted.
LEMMA RESPFacts ==
    ASSUME NEW m, m.kind \in RESPKinds, m.body \in Nat
    PROVE  LET size == Sum([i \in 1 .. Len(Elements(m)) |-> ElementSize(Elements(m)[i])]) IN
           /\ size \in Nat
           /\ m.kind \in {"line", "array"} =>
                /\ RESPCommandReads(m) \in Seq(Nat) /\ Len(RESPCommandReads(m)) > 0
                /\ Sum(RESPCommandReads(m)) = size
           /\ RESPResponseReads(m) \in Seq(Nat) /\ Len(RESPResponseReads(m)) > 0
           /\ m.kind # "map" => Sum(RESPResponseReads(m)) = size
  <1> DEFINE es == Elements(m)
  <1>1. /\ es \in Seq(RESPElements) /\ Len(es) > 0
        /\ m.kind \in {"line", "array"} => Len(es) = es[1].n + 1 /\ es[1].type # "bulk"
        /\ m.kind # "map" => \A i \in 0 .. Len(es) - 1 : AwaitedOf(es)[i] > 0
    BY ElementsFacts
  <1>2. RESPCommandReads(m) = CommandOf(es)[es[1].n]
    BY DEF RESPCommandReads, CommandOf
  <1>3. RESPResponseReads(m) = ResponseOf(es)[Len(es)]
    BY DEF RESPResponseReads, ResponseOf, AwaitedOf
  <1>4. Sum([i \in 1 .. Len(Elements(m)) |-> ElementSize(Elements(m)[i])]) = Sum(SizesOf(es))
    BY DEF SizesOf
  <1> HIDE DEF es
  <1>5. Sum(SizesOf(es)) \in Nat
    BY <1>1, SizesFacts
  <1>6. m.kind \in {"line", "array"} =>
            /\ CommandOf(es)[es[1].n] \in Seq(Nat) /\ Len(CommandOf(es)[es[1].n]) > 0
            /\ Sum(CommandOf(es)[es[1].n]) = Sum(SizesOf(es))
    BY <1>1, CommandFacts
  <1>7. /\ ResponseOf(es)[Len(es)] \in Seq(Nat) /\ Len(ResponseOf(es)[Len(es)]) > 0
        /\ m.kind # "map" => Sum(ResponseOf(es)[Len(es)]) = Sum(SizesOf(es))
    BY <1>1, ResponseFacts
  <1> QED
    BY <1>2, <1>3, <1>4, <1>5, <1>6, <1>7, Zenon

-----------------------------------------------------------------------------
(***************************************************************************)
(* Messages: the reads of every format.                                    *)
(***************************************************************************)

\* A body has a size, and the kinds are those of the format.
LEMMA MessageFacts ==
    ASSUME format \in Formats, NEW m \in Messages
    PROVE  /\ m.body \in Nat
           /\ format \in DOMAIN KindsOf
           /\ format = "redisCommand" => m.kind \in {"line", "array"}
           /\ format = "redisResponse" => m.kind \in RESPKinds
           /\ format = "http" => m.kind # "preface"
  <1>1. m.body \in Nat /\ m.kind \in KindsOf[format] /\ format \in DOMAIN KindsOf
    BY FramingAssumption DEF Messages
  <1>2. /\ KindsOf["redisCommand"] = {"line", "array"} /\ KindsOf["redisResponse"] = RESPKinds
        /\ "preface" \notin KindsOf["http"]
    BY DEF KindsOf, RESPKinds
  <1> QED
    BY <1>1, <1>2

\* Two reads.
LEMMA TwoReads ==
    ASSUME NEW a \in Nat, NEW b \in Nat, NEW s, s = <<a, b>>
    PROVE  s \in Seq(Nat) /\ Len(s) > 0 /\ Sum(s) = a + b
  <1>1. s \in Seq(Nat) /\ Len(s) = 2 /\ Sum(s) = a + b
    BY SumShort
  <1> QED
    BY <1>1

\* The list of headers.
LEMMA HeaderFacts ==
    ASSUME NEW m, NEW b \in Nat
    PROVE  LET lines == <<LineLen>> \o HeaderLines(m) IN
           /\ Sum(HeaderLines(m)) \in Nat
           /\ lines \in Seq(Nat) /\ Len(lines) > 0
           /\ Sum(lines) = LineLen + Sum(HeaderLines(m))
           /\ lines \o <<b>> \in Seq(Nat) /\ Len(lines \o <<b>>) > 0
           /\ Sum(lines \o <<b>>) = LineLen + Sum(HeaderLines(m)) + b
  <1> DEFINE c == <<LineLen>>
             h == HeaderLines(m)
             lines == c \o h
             d == <<b>>
  <1>1. LineLen \in Nat /\ BlankLen \in Nat
    BY DEF LineLen, BlankLen
  <1>2. h \in Seq(Nat)
    BY <1>1 DEF HeaderLines
  <1>3. c \in Seq(Nat) /\ Len(c) = 1 /\ Sum(c) = LineLen
    BY <1>1, SumShort
  <1>4. d \in Seq(Nat) /\ Len(d) = 1 /\ Sum(d) = b
    BY SumShort
  <1>5. Sum(h) \in Nat /\ Len(h) \in Nat
    BY <1>2, SumFacts, LenProperties
  <1> HIDE DEF c, h, d
  <1>6. lines \in Seq(Nat) /\ Sum(lines) = LineLen + Sum(h) /\ Len(lines) = 1 + Len(h)
    <2>1. c \o h \in Seq(Nat) /\ Sum(c \o h) = Sum(c) + Sum(h)
      BY <1>2, <1>3, SumConcat
    <2>2. Len(c \o h) = Len(c) + Len(h)
      BY <1>2, <1>3, ConcatProperties
    <2> QED
      BY <1>3, <2>1, <2>2, Zenon
  <1> HIDE DEF lines
  <1>7. lines \o d \in Seq(Nat) /\ Sum(lines \o d) = LineLen + Sum(h) + b
        /\ Len(lines \o d) = Len(lines) + 1
    <2>1. lines \o d \in Seq(Nat) /\ Sum(lines \o d) = Sum(lines) + Sum(d)
      BY <1>4, <1>6, SumConcat
    <2>2. Len(lines \o d) = Len(lines) + Len(d)
      BY <1>4, <1>6, ConcatProperties
    <2> QED
      BY <1>4, <1>6, <2>1, <2>2, Zenon
  <1>8. Len(lines) > 0
    BY <1>5, <1>6
  <1>9. Len(lines \o d) > 0
    <2> DEFINE k == Len(lines \o d)
               j == Len(lines)
               i == Len(h)
    <2> HIDE DEF k, j, i
    <2>1. k = j + 1 /\ j = 1 + i /\ i \in Nat
      BY <1>5, <1>6, <1>7 DEF k, j, i
    <2>2. k > 0
      BY <2>1
    <2> QED
      BY <2>2 DEF k
  <1> QED
    BY <1>5, <1>6, <1>7, <1>8, <1>9 DEF lines, c, h, d

\* Every reader reads a message whole, but for the messages that derail it.
LEMMA ReadsFacts ==
    ASSUME format \in Formats, NEW m \in Messages
    PROVE  /\ Reads(m) \in Seq(Nat) /\ Len(Reads(m)) > 0
           /\ Size(m) \in Nat
           /\ ~Derails(m) => Sum(Reads(m)) = Size(m)
  <1>1. /\ m.body \in Nat /\ format \in DOMAIN KindsOf
        /\ format = "redisCommand" => m.kind \in {"line", "array"}
        /\ format = "redisResponse" => m.kind \in RESPKinds
        /\ format = "http" => m.kind # "preface"
    BY MessageFacts
  <1>2. CASE format = "dubbo"
    <2>1. 16 \in Nat /\ LengthField(m) \in Nat
      BY <1>1, <1>2 DEF LengthField
    <2>2. Reads(m) = <<16, LengthField(m)>> /\ Size(m) = 16 + LengthField(m)
      BY <1>2 DEF Reads, DubboReads, Size, LengthField
    <2> QED
      BY <2>1, <2>2, TwoReads
  <1>3. CASE format = "mongo"
    <2>1. 16 \in Nat /\ LengthField(m) - 16 \in Nat
      BY <1>1, <1>3 DEF LengthField
    <2>2. Reads(m) = <<16, LengthField(m) - 16>> /\ Size(m) = 16 + (LengthField(m) - 16)
      BY <1>1, <1>3 DEF Reads, MongoReads, Size, LengthField
    <2> QED
      BY <2>1, <2>2, TwoReads
  <1>4. CASE format = "rocketmq"
    <2>1. 4 \in Nat /\ LengthField(m) - 4 \in Nat
      BY <1>1, <1>4 DEF LengthField
    <2>2. Reads(m) = <<4, LengthField(m) - 4>> /\ Size(m) = 4 + (LengthField(m) - 4)
      BY <1>1, <1>4 DEF Reads, RocketMQReads, Size, LengthField
    <2> QED
      BY <2>1, <2>2, TwoReads
  <1>5. CASE format = "zookeeper"
    <2>1. 12 \in Nat /\ LengthField(m) - 12 \in Nat
      BY <1>1, <1>5 DEF LengthField
    <2>2. Reads(m) = <<12, LengthField(m) - 12>> /\ Size(m) = 12 + (LengthField(m) - 12)
      BY <1>1, <1>5 DEF Reads, ZooKeeperReads, Size, LengthField
    <2> QED
      BY <2>1, <2>2, TwoReads
  <1>6. CASE format = "mysql"
    <2> DEFINE b == IF m.body < MySQLPayload THEN m.body ELSE MySQLPayload
    <2>1. 4 \in Nat /\ b \in Nat
      BY <1>1, FramingAssumption
    <2>2. Reads(m) = <<4, b>> /\ Size(m) = 4 * MySQLPackets(m) + m.body
      BY <1>6 DEF Reads, MySQLReads, Size
    <2>3. /\ MySQLPackets(m) \in Nat
          /\ ~Derails(m) => m.body < MySQLPayload /\ MySQLPackets(m) = 1
      <3>1. m.body \div MySQLPayload \in Nat
            /\ (m.body < MySQLPayload => m.body \div MySQLPayload = 0)
        BY <1>1, FramingAssumption
      <3> QED
        BY <1>1, <1>6, <3>1, FramingAssumption DEF MySQLPackets, Derails
    <2>4. Size(m) \in Nat /\ (~Derails(m) => Size(m) = 4 + b)
      BY <1>1, <2>2, <2>3
    <2> HIDE DEF b
    <2>5. Reads(m) \in Seq(Nat) /\ Len(Reads(m)) > 0 /\ Sum(Reads(m)) = 4 + b
      BY <2>1, <2>2, TwoReads
    <2> QED
      BY <2>4, <2>5
  <1>7. CASE format = "websocket"
    <2> DEFINE x == ExtLen(m)
               k == IF m.kind = "masked" THEN 4 ELSE 0
               b == LengthField(m)
    <2>1. x \in Nat /\ k \in Nat /\ b \in Nat /\ 2 \in Nat
      BY <1>1, <1>7 DEF ExtLen, LengthField
    <2>2. Reads(m) = <<2, x, k, b>> /\ Size(m) = 2 + x + k + b
      BY <1>7 DEF Reads, WebSocketReads, Size, LengthField
    <2> HIDE DEF x, k, b
    <2>3. Reads(m) = <<2, x>> \o <<k, b>>
      BY <2>1, <2>2
    <2>4. /\ <<2, x>> \in Seq(Nat) /\ Sum(<<2, x>>) = 2 + x
          /\ <<k, b>> \in Seq(Nat) /\ Sum(<<k, b>>) = k + b
      BY <2>1, SumShort
    <2>5. Reads(m) \in Seq(Nat) /\ Len(Reads(m)) = 4
      BY <2>1, <2>2
    <2>6. Sum(Reads(m)) = (2 + x) + (k + b)
      BY <2>3, <2>4, SumConcat
    <2>7. Size(m) \in Nat /\ Sum(Reads(m)) = Size(m)
      BY <2>1, <2>2, <2>6
    <2>8. Len(Reads(m)) > 0
      BY <2>5
    <2> QED
      BY <2>5, <2>7, <2>8
  <1>8. CASE format = "http"
    <2>1. Reads(m) = <<LineLen>> \o HeaderLines(m)
      BY <1>8 DEF Reads, HTTPReads
    <2>2. Size(m) = LineLen + Sum(HeaderLines(m)) + m.body
      BY <1>1, <1>8 DEF Size
    <2>3. /\ Reads(m) \in Seq(Nat) /\ Len(Reads(m)) > 0
          /\ Sum(Reads(m)) = LineLen + Sum(HeaderLines(m)) /\ Sum(HeaderLines(m)) \in Nat
      BY <1>1, <2>1, HeaderFacts
    <2>4. ~Derails(m) => m.body = 0
      BY <1>1, <1>8 DEF Derails
    <2>5. LineLen \in Nat
      BY DEF LineLen
    <2>6. Size(m) \in Nat /\ (m.body = 0 => Size(m) = LineLen + Sum(HeaderLines(m)))
      BY <1>1, <2>2, <2>3, <2>5
    <2> QED
      BY <2>3, <2>4, <2>6
  <1>9. CASE format = "nacos" /\ m.kind # "preface"
    <2>1. Reads(m) = <<LineLen>> \o HeaderLines(m) \o <<m.body>>
      BY <1>9 DEF Reads, NacosReads
    <2>2. Size(m) = LineLen + Sum(HeaderLines(m)) + m.body
      BY <1>9 DEF Size
    <2>3. /\ Reads(m) \in Seq(Nat) /\ Len(Reads(m)) > 0
          /\ Sum(Reads(m)) = LineLen + Sum(HeaderLines(m)) + m.body
          /\ Sum(HeaderLines(m)) \in Nat
      BY <1>1, <2>1, HeaderFacts
    <2>4. LineLen \in Nat
      BY DEF LineLen
    <2>5. Size(m) \in Nat
      BY <1>1, <2>2, <2>3, <2>4
    <2> QED
      BY <2>2, <2>3, <2>5
  <1>13. CASE format = "nacos" /\ m.kind = "preface"
    <2>1. Reads(m) = <<PeekLen>> /\ Size(m) = PeekLen + m.body
      BY <1>13 DEF Reads, NacosReads, Size
    <2>2. Reads(m) \in Seq(Nat) /\ Len(Reads(m)) = 1
      BY <2>1, FramingAssumption
    <2>3. Size(m) \in Nat /\ Derails(m)
      BY <1>1, <1>13, <2>1, FramingAssumption DEF Derails
    <2>4. Len(Reads(m)) > 0
      BY <2>2
    <2> QED
      BY <2>2, <2>3, <2>4
  <1> DEFINE size == Sum([i \in 1 .. Len(Elements(m)) |-> ElementSize(Elements(m)[i])])
  <1>10. CASE format = "redisCommand"
    <2>1. Reads(m) = RESPCommandReads(m) /\ Size(m) = size
      BY <1>10 DEF Reads, Size
    <2>2. m.kind \in RESPKinds /\ m.kind \in {"line", "array"}
      BY <1>1, <1>10 DEF RESPKinds
    <2> QED
      BY <1>1, <2>1, <2>2, RESPFacts
  <1>11. CASE format = "redisResponse"
    <2>1. Reads(m) = RESPResponseReads(m) /\ Size(m) = size
      BY <1>11 DEF Reads, Size
    <2>2. m.kind \in RESPKinds /\ (~Derails(m) => m.kind # "map")
      BY <1>1, <1>11 DEF Derails
    <2> QED
      BY <1>1, <2>1, <2>2, RESPFacts
  <1>12. format \in {"dubbo", "mongo", "mysql", "rocketmq", "zookeeper", "websocket",
                     "http", "nacos", "redisCommand", "redisResponse"}
    BY <1>1 DEF KindsOf
  <1> QED
    BY <1>2, <1>3, <1>4, <1>5, <1>6, <1>7, <1>8, <1>9, <1>10, <1>11, <1>12, <1>13,
       Zenon

-----------------------------------------------------------------------------
(***************************************************************************)
(* Where messages end.                                                     *)
(***************************************************************************)

\* A message begins where the one before it ends.
LEMMA EndFacts ==
    ASSUME format \in Formats, sent \in Seq(Messages)
    PROVE  /\ Len(sent) \in Nat
           /\ End(0) = 0
           /\ \A n \in 0 .. Len(sent) : End(n) \in Nat
           /\ \A n \in 1 .. Len(sent) :
                 /\ sent[n] \in Messages /\ Size(sent[n]) \in Nat
                 /\ End(n) = End(n - 1) + Size(sent[n])
  <1> DEFINE L == Len(sent)
             F(n) == [i \in 1 .. n |-> Size(sent[i])]
  <1>1. L = Len(sent) /\ L \in Nat /\ \A n \in 1 .. L : sent[n] \in Messages
    BY LenProperties, ElementOfSeq
  <1> HIDE DEF L
  <1>2. \A n \in 1 .. L : Size(sent[n]) \in Nat
    BY <1>1, ReadsFacts
  <1>3. \A n \in 0 .. L : \A i \in 1 .. n : i \in 1 .. L
    BY <1>1
  <1>4. \A n \in 0 .. L : F(n) \in Seq(Nat) /\ Len(F(n)) = n /\ \A i \in 1 .. n : F(n)[i] = Size(sent[i])
    <2> SUFFICES ASSUME NEW n \in 0 .. L
                 PROVE  F(n) \in Seq(Nat) /\ Len(F(n)) = n /\ \A i \in 1 .. n : F(n)[i] = Size(sent[i])
      OBVIOUS
    <2>1. n \in Nat /\ \A i \in 1 .. n : Size(sent[i]) \in Nat
      BY <1>1, <1>2, <1>3
    <2> QED
      BY <2>1
  <1>5. \A n : End(n) = Sum(F(n))
    BY DEF End
  <1> HIDE DEF F
  <1>6. \A n \in 0 .. L : End(n) = SumOf(F(n))[n] /\ End(n) \in Nat
    BY <1>4, <1>5, SumFacts
  <1>7. End(0) = 0
    <2>1. 0 \in 0 .. L
      BY <1>1
    <2> QED
      BY <1>4, <1>6, <2>1, SumFacts
  <1>8. ASSUME NEW n \in 1 .. L PROVE End(n) = End(n - 1) + Size(sent[n])
    <2> DEFINE s == F(n)
               t == F(n - 1)
    <2>1. n \in 0 .. L /\ n - 1 \in 0 .. L /\ n \in 1 .. n /\ n - 1 \in Nat /\ n - 1 <= n
          /\ \A i \in 1 .. n - 1 : i \in 1 .. n
      BY <1>1
    <2>2. s \in Seq(Nat) /\ Len(s) = n /\ \A i \in 1 .. n : s[i] = Size(sent[i])
      BY <1>4, <2>1
    <2>3. t \in Seq(Nat) /\ Len(t) = n - 1 /\ \A i \in 1 .. n - 1 : t[i] = Size(sent[i])
      BY <1>4, <2>1
    <2>4. End(n) = SumOf(s)[n] /\ End(n - 1) = SumOf(t)[n - 1]
      BY <1>6, <2>1
    <2> HIDE DEF s, t
    <2>5. SumOf(s)[n] = SumOf(s)[n - 1] + s[n]
      BY <2>1, <2>2, SumFacts
    <2>6. SumOf(s)[n - 1] = SumOf(t)[n - 1]
      <3>1. n - 1 <= Len(s) /\ n - 1 <= Len(t) /\ \A i \in 1 .. n - 1 : s[i] = t[i]
        BY <2>1, <2>2, <2>3
      <3> QED
        BY <2>1, <2>2, <2>3, <3>1, SumPrefix
    <2> QED
      BY <2>1, <2>2, <2>4, <2>5, <2>6
  <1> QED
    BY <1>1, <1>2, <1>6, <1>7, <1>8

\* The same after a step.
LEMMA EndState ==
    format \in Formats /\ sent \in Seq(Messages) =>
        /\ \A n \in 0 .. Len(sent) : End(n) \in Nat
        /\ \A n \in 1 .. Len(sent) :
              Size(sent[n]) \in Nat /\ End(n) = End(n - 1) + Size(sent[n])
  BY EndFacts

LEMMA EndNext ==
    (format \in Formats /\ sent \in Seq(Messages) =>
        /\ \A n \in 0 .. Len(sent) : End(n) \in Nat
        /\ \A n \in 1 .. Len(sent) :
              Size(sent[n]) \in Nat /\ End(n) = End(n - 1) + Size(sent[n]))'
  BY EndState, PTL

\* What has been sent stays as it is.
LEMMA Stable ==
    ASSUME UNCHANGED format, sent \in Seq(Messages), NEW m \in Messages,
           sent' = sent \/ sent' = Append(sent, m), NEW n \in Nat, n <= Len(sent)
    PROVE  /\ End(n)' = End(n)
           /\ n > 0 => /\ sent[n]' = sent[n]
                       /\ Reads(sent[n])' = Reads(sent[n])
                       /\ Derails(sent[n])' = Derails(sent[n])
  <1>1. \A i \in 1 .. n : sent'[i] = sent[i]
    <2>1. CASE sent' = sent
      BY <2>1
    <2>2. CASE sent' = Append(sent, m)
      <3>1. \A i \in 1 .. n : i \in 1 .. Len(sent)
        BY LenProperties
      <3> QED
        BY <2>2, <3>1, AppendProperties
    <2> QED
      BY <2>1, <2>2
  <1>2. \A i \in 1 .. n : Size(sent[i])' = Size(sent[i])
    BY <1>1 DEF Size
  <1>3. End(n)' = End(n)
    BY <1>2 DEF End
  <1>4. ASSUME n > 0
        PROVE  /\ sent[n]' = sent[n]
               /\ Reads(sent[n])' = Reads(sent[n])
               /\ Derails(sent[n])' = Derails(sent[n])
    <2>1. sent'[n] = sent[n]
      BY <1>1, <1>4
    <2>2. Reads(sent[n])' = Reads(sent[n])
      BY <2>1, Zenon DEF Reads, DubboReads, MongoReads, RocketMQReads, ZooKeeperReads,
                  WebSocketReads, LengthField
    <2>3. Derails(sent[n])' = Derails(sent[n])
      BY <2>1 DEF Derails
    <2> QED
      BY <2>1, <2>2, <2>3
  <1> QED
    BY <1>3, <1>4

-----------------------------------------------------------------------------
(***************************************************************************)
(* The inductive invariant.                                                *)
(***************************************************************************)

\* In the middle of a message the reader has consumed exactly the reads done
\* for it: InStep alone, which speaks of the starts of messages, would not
\* survive the last read of one.
Progress ==
    pc = "reading" =>
        /\ returned = Len(sent) => reads = 0 /\ pos = End(returned)
        /\ returned < Len(sent) =>
              /\ reads < Len(Reads(Current))
              /\ pos = End(returned) + SumOf(Reads(Current))[reads]

Inv == TypeOK /\ Progress /\ InStep /\ NothingTruncated

\* The message in progress.
LEMMA CurrentFacts ==
    ASSUME TypeOK, returned < Len(sent)
    PROVE  /\ Current \in Messages
           /\ Reads(Current) \in Seq(Nat) /\ Len(Reads(Current)) \in Nat
           /\ Len(Reads(Current)) > 0
           /\ SumOf(Reads(Current))[0] = 0
           /\ \A k \in Nat : k < Len(Reads(Current)) =>
                /\ Reads(Current)[k + 1] \in Nat /\ SumOf(Reads(Current))[k] \in Nat
                /\ SumOf(Reads(Current))[k + 1] = SumOf(Reads(Current))[k] + Reads(Current)[k + 1]
           /\ Sum(Reads(Current)) = SumOf(Reads(Current))[Len(Reads(Current))]
           /\ End(returned) \in Nat
           /\ End(returned + 1) = End(returned) + Size(Current)
           /\ ~Derails(Current) => Sum(Reads(Current)) = Size(Current)
  <1> DEFINE r == Reads(Current)
  <1>1. returned \in Nat /\ returned + 1 \in 1 .. Len(sent) /\ returned \in 0 .. Len(sent)
        /\ (returned + 1) - 1 = returned
    BY EndFacts DEF TypeOK
  <1>2. Current \in Messages
    BY <1>1, EndFacts DEF TypeOK, Current
  <1>3. /\ End(returned) \in Nat
        /\ End(returned + 1) = End(returned) + Size(Current)
    BY <1>1, EndFacts DEF TypeOK, Current
  <1>4. r \in Seq(Nat) /\ Len(r) > 0 /\ (~Derails(Current) => Sum(r) = Size(Current))
    BY <1>2, ReadsFacts DEF TypeOK
  <1> HIDE DEF r
  <1>5. /\ Len(r) \in Nat
        /\ SumOf(r)[0] = 0
        /\ \A i \in 1 .. Len(r) : SumOf(r)[i] = SumOf(r)[i - 1] + r[i] /\ r[i] \in Nat
        /\ \A i \in 0 .. Len(r) : SumOf(r)[i] \in Nat
        /\ Sum(r) = SumOf(r)[Len(r)]
    BY <1>4, SumFacts, LenProperties, ElementOfSeq
  <1>6. ASSUME NEW k \in Nat, k < Len(r)
        PROVE  /\ r[k + 1] \in Nat /\ SumOf(r)[k] \in Nat
               /\ SumOf(r)[k + 1] = SumOf(r)[k] + r[k + 1]
    <2>1. k + 1 \in 1 .. Len(r) /\ k \in 0 .. Len(r) /\ (k + 1) - 1 = k
      BY <1>5, <1>6
    <2> QED
      BY <1>5, <2>1
  <1> QED
    BY <1>2, <1>3, <1>4, <1>5, <1>6 DEF r

\* The part of it that a new message begins with, after a step.
LEMMA CurrentState ==
    TypeOK /\ returned < Len(sent) =>
        /\ Len(Reads(Current)) > 0 /\ SumOf(Reads(Current))[0] = 0
        /\ End(returned) \in Nat
  BY CurrentFacts

LEMMA CurrentNext ==
    (TypeOK /\ returned < Len(sent) =>
        /\ Len(Reads(Current)) > 0 /\ SumOf(Reads(Current))[0] = 0
        /\ End(returned) \in Nat)'
  BY CurrentState, PTL

\* After a step the terms of the invariant depend on the reader's place alone.
LEMMA AtNext ==
    ASSUME NEW r, returned' = r
    PROVE  /\ End(returned)' = End(r)'
           /\ Reads(Current)' = Reads(sent[r + 1])'
           /\ Derails(sent[returned])' = Derails(sent[r])'
  <1>1. End(returned)' = End(r)'
    BY DEF End
  <1>2. Reads(Current)' = Reads(sent[r + 1])'
    BY Zenon DEF Current, Reads, DubboReads, MongoReads, RocketMQReads, ZooKeeperReads,
                 WebSocketReads, LengthField
  <1>3. Derails(sent[returned])' = Derails(sent[r])'
    BY DEF Derails
  <1> QED
    BY <1>1, <1>2, <1>3

\* It holds initially.
LEMMA InitInv == Init => Inv
  <1> SUFFICES ASSUME Init PROVE Inv
    OBVIOUS
  <1> USE DEF Init
  <1>1. Len(sent) = 0 /\ sent \in Seq(Messages)
    OBVIOUS
  <1>2. End(0) = 0
    BY <1>1, EndFacts
  <1>3. TypeOK
    <2>1. End(Len(sent)) = 0
      BY <1>1, <1>2
    <2>2. 0 \in 0 .. 0 /\ 0 <= MaxMessages
      BY FramingAssumption
    <2> QED
      BY <1>1, <2>1, <2>2 DEF TypeOK
  <1>4. Progress /\ InStep /\ NothingTruncated
    BY <1>1, <1>2 DEF Progress, InStep, NothingTruncated
  <1> QED
    BY <1>3, <1>4 DEF Inv

\* What the reader has done is untouched when the peer sends a message.
LEMMA SendInv ==
    ASSUME Inv, NEW m \in Messages, Send(m)
    PROVE  Inv'
  <1>1. /\ sent' = Append(sent, m) /\ ~closed /\ Len(sent) < MaxMessages
        /\ format' = format /\ delivered' = delivered /\ closed' = closed /\ pos' = pos
        /\ reads' = reads /\ returned' = returned /\ pc' = pc
    BY DEF Send
  <1>2. TypeOK /\ sent \in Seq(Messages) /\ format \in Formats
    BY DEF Inv, TypeOK
  <1>3. PICK l \in Nat : l = Len(sent)
    BY <1>2, LenProperties
  <1>4. PICK r \in 0 .. l : r = returned
    BY <1>2, <1>3 DEF TypeOK
  <1>5. sent' \in Seq(Messages) /\ Len(sent') = l + 1 /\ sent'[l + 1] = m
    BY <1>1, <1>2, <1>3, AppendProperties
  <1>6. Messages' = Messages
    BY <1>1 DEF Messages
  <1>7. \A n \in 0 .. l : End(n)' = End(n)
    <2> SUFFICES ASSUME NEW n \in 0 .. l PROVE End(n)' = End(n)
      OBVIOUS
    <2>1. n \in Nat /\ n <= Len(sent)
      BY <1>3
    <2> QED
      BY <1>1, <1>2, <2>1, Stable
  <1>8. End(l + 1)' = End(l) + Size(m)' /\ Size(m)' \in Nat /\ End(l) \in Nat
    <2>1. /\ l + 1 \in 1 .. l + 1 /\ l + 1 \in 0 .. l + 1 /\ (l + 1) - 1 = l
          /\ l \in 0 .. l
      OBVIOUS
    <2>2. Size(sent[l + 1])' \in Nat /\ End(l + 1)' = End((l + 1) - 1)' + Size(sent[l + 1])'
      BY <1>1, <1>2, <1>5, <1>6, <2>1, EndNext
    <2>3. Size(sent[l + 1])' = Size(m)'
      BY <1>5 DEF Size
    <2>4. End(l) \in Nat
      BY <1>2, <1>3, <2>1, EndFacts
    <2> QED
      BY <1>7, <2>1, <2>2, <2>3, <2>4
  <1>9. TypeOK'
    <2>1. End(Len(sent))' = End(l + 1)'
      BY <1>5 DEF End
    <2>2. /\ delivered \in Nat /\ delivered <= End(l) /\ closed \in BOOLEAN
          /\ pos \in 0 .. delivered /\ reads \in Nat /\ r \in 0 .. l + 1
          /\ pc \in {"reading", "lost", "failed"}
      BY <1>2, <1>3, <1>4, <1>8 DEF TypeOK
    <2>3. delivered \in 0 .. End(l + 1)'
      BY <1>8, <2>2
    <2>4. Len(sent') <= MaxMessages
      BY <1>1, <1>3, <1>5, FramingAssumption
    <2> QED
      BY <1>1, <1>2, <1>4, <1>5, <1>6, <2>1, <2>2, <2>3, <2>4 DEF TypeOK
  <1>10. Progress'
    <2> SUFFICES ASSUME pc = "reading"
                 PROVE  /\ returned' < Len(sent)'
                        /\ reads' < Len(Reads(Current)')
                        /\ pos' = End(returned)' + SumOf(Reads(Current)')[reads']
      BY <1>1 DEF Progress
    <2>1. End(returned)' = End(r) /\ returned' = r /\ returned' < Len(sent)'
      BY <1>1, <1>4, <1>5, <1>7, AtNext
    <2>2. CASE r = l
      <3>1. reads = 0 /\ pos = End(r)
        BY <1>3, <1>4, <2>2 DEF Inv, Progress
      <3>2. Len(Reads(Current)') > 0 /\ SumOf(Reads(Current)')[0] = 0
        BY <1>9, <2>1, CurrentNext
      <3> QED
        BY <1>1, <1>8, <2>1, <2>2, <3>1, <3>2
    <2>3. CASE r < l
      <3>1. /\ reads < Len(Reads(Current))
            /\ pos = End(r) + SumOf(Reads(Current))[reads]
        BY <1>3, <1>4, <2>3 DEF Inv, Progress
      <3>2. Reads(Current)' = Reads(Current)
        <4>1. r + 1 \in Nat /\ r + 1 <= Len(sent) /\ r + 1 > 0
          BY <1>3, <2>3
        <4>2. Reads(sent[r + 1])' = Reads(sent[r + 1])
          BY <1>1, <1>2, <4>1, Stable
        <4> QED
          BY <1>1, <1>4, <4>2, AtNext DEF Current
      <3> QED
        BY <1>1, <2>1, <3>1, <3>2
    <2> QED
      BY <2>2, <2>3
  <1>11. InStep'
    <2>1. End(returned)' = End(r) /\ r = returned
      BY <1>1, <1>4, <1>7, AtNext
    <2>2. returned > 0 => Derails(sent[returned])' = Derails(sent[returned])
      <3> SUFFICES ASSUME r > 0 PROVE Derails(sent[r])' = Derails(sent[r])
        BY <1>1, <1>4, AtNext
      <3>1. r \in Nat /\ r <= Len(sent)
        BY <1>3
      <3> QED
        BY <1>1, <1>2, <3>1, Stable
    <2> QED
      BY <1>1, <2>1, <2>2 DEF Inv, InStep
  <1>12. NothingTruncated'
    <2> SUFFICES ASSUME NEW n \in 1 .. returned
                 PROVE  End(n - 1)' + Sum(Reads(sent[n])') <= delivered
      BY <1>1 DEF NothingTruncated
    <2>1. End(n - 1) + Sum(Reads(sent[n])) <= delivered
      BY <1>1 DEF Inv, NothingTruncated
    <2>2. n \in Nat /\ n <= Len(sent) /\ n > 0 /\ n - 1 \in 0 .. l
      BY <1>3, <1>4
    <2>3. Reads(sent[n])' = Reads(sent[n])
      BY <1>1, <1>2, <2>2, Stable
    <2> QED
      BY <1>7, <2>1, <2>2, <2>3
  <1> QED
    BY <1>9, <1>10, <1>11, <1>12 DEF Inv

\* While nothing is sent the messages stay as they are.
LEMMA SameStream ==
    ASSUME UNCHANGED <<format, sent>>, NEW n
    PROVE  /\ End(n)' = End(n) /\ Messages' = Messages
           /\ Reads(sent[n])' = Reads(sent[n])
           /\ Derails(sent[n])' = Derails(sent[n])
  <1>1. End(n)' = End(n)
    BY Zenon DEF End, Size
  <1>2. Messages' = Messages /\ Derails(sent[n])' = Derails(sent[n])
    BY DEF Messages, Derails
  <1>3. Reads(sent[n])' = Reads(sent[n])
    BY Zenon DEF Reads, DubboReads, MongoReads, RocketMQReads, ZooKeeperReads,
                 WebSocketReads, LengthField
  <1> QED
    BY <1>1, <1>2, <1>3

\* Where the stream ends, after a step that sends nothing.
LEMMA SameEnd ==
    ASSUME UNCHANGED <<format, sent>>
    PROVE  End(Len(sent))' = End(Len(sent))
  BY Zenon DEF End, Size

\* The steps of the assembler: bytes are released, or the stream ends.
LEMMA AssemblerInv ==
    ASSUME Inv, UNCHANGED <<format, sent, pos, reads, returned, pc>>,
           delivered' \in Nat, delivered <= delivered', delivered' <= End(Len(sent)),
           closed' \in BOOLEAN, closed => closed'
    PROVE  Inv'
  <1>1. TypeOK
    BY DEF Inv
  <1>2. PICK r \in Nat : r = returned /\ r <= Len(sent)
    BY <1>1, EndFacts DEF TypeOK
  <1>3. End(Len(sent)) \in Nat /\ Len(sent) \in Nat
    <2>1. Len(sent) \in Nat /\ Len(sent) \in 0 .. Len(sent)
      BY <1>1, EndFacts DEF TypeOK
    <2> QED
      BY <1>1, <2>1, EndFacts DEF TypeOK
  <1>4. TypeOK'
    <2>1. Messages' = Messages
      BY SameStream
    <2>2. delivered' \in 0 .. End(Len(sent))'
      BY <1>3, SameEnd
    <2>3. pos \in 0 .. delivered'
      BY <1>1, <1>3 DEF TypeOK
    <2> QED
      BY <1>1, <2>1, <2>2, <2>3 DEF TypeOK
  <1>5. /\ End(returned)' = End(returned)
        /\ Reads(Current)' = Reads(Current)
        /\ Derails(sent[returned])' = Derails(sent[returned])
    BY <1>2, AtNext, SameStream DEF Current
  <1>6. Progress'
    BY <1>5 DEF Inv, Progress
  <1>7. InStep'
    BY <1>5 DEF Inv, InStep
  <1>8. NothingTruncated'
    <2> SUFFICES ASSUME NEW n \in 1 .. returned
                 PROVE  \/ End(n - 1)' + Sum(Reads(sent[n])') <= delivered'
                        \/ /\ closed' /\ pc' = "failed" /\ n = returned'
                           /\ \/ format' \in {"http", "nacos"}
                              \/ format' = "redisResponse" /\ sent'[n].kind \in {"array", "nested"}
      BY DEF NothingTruncated
    <2>1. \/ End(n - 1) + Sum(Reads(sent[n])) <= delivered
          \/ /\ closed /\ pc = "failed" /\ n = returned
             /\ \/ format \in {"http", "nacos"}
                \/ format = "redisResponse" /\ sent[n].kind \in {"array", "nested"}
      BY DEF Inv, NothingTruncated
    <2>2. End(n - 1)' = End(n - 1) /\ Reads(sent[n])' = Reads(sent[n])
      BY SameStream
    <2>3. CASE End(n - 1) + Sum(Reads(sent[n])) <= delivered
      <3>1. n \in 1 .. Len(sent) /\ n - 1 \in 0 .. Len(sent)
        BY <1>2, <1>3
      <3>2. sent[n] \in Messages /\ End(n - 1) \in Nat
        BY <1>1, <3>1, EndFacts DEF TypeOK
      <3>3. Reads(sent[n]) \in Seq(Nat)
        BY <1>1, <3>2, ReadsFacts DEF TypeOK
      <3>4. Sum(Reads(sent[n])) \in Nat /\ delivered \in Nat
        BY <1>1, <1>3, <3>3, SumFacts DEF TypeOK
      <3> QED
        BY <2>2, <2>3, <3>2, <3>4
    <2> QED
      BY <2>1, <2>2, <2>3
  <1> QED
    BY <1>4, <1>6, <1>7, <1>8 DEF Inv

\* A read in the middle of a message, its last read, and the one that finds
\* a length out of bounds.
LEMMA ReadInv ==
    ASSUME Inv, Read
    PROVE  Inv'
  <1> DEFINE s == Reads(Current)
             k == reads
  <1>1. /\ pc = "reading" /\ returned < Len(sent) /\ Ready
        /\ pos' = pos + s[k + 1]
        /\ UNCHANGED <<format, sent, delivered, closed>>
    BY DEF Read
  <1>2. TypeOK /\ Progress /\ NothingTruncated
    BY DEF Inv
  <1>3. /\ delivered \in Nat /\ delivered <= End(Len(sent)) /\ pos \in 0 .. delivered
        /\ k \in Nat /\ returned \in Nat /\ Len(sent) \in Nat
    <2>1. Len(sent) \in Nat /\ Len(sent) \in 0 .. Len(sent)
      BY <1>2, EndFacts DEF TypeOK
    <2>2. End(Len(sent)) \in Nat
      BY <1>2, <2>1, EndFacts DEF TypeOK
    <2> QED
      BY <1>2, <2>1, <2>2 DEF TypeOK
  <1>4. PICK r \in Nat : r = returned
    BY <1>3
  <1>5. k < Len(s) /\ pos = End(r) + SumOf(s)[k]
    BY <1>1, <1>2, <1>4 DEF Progress
  <1>6. /\ Current \in Messages /\ s \in Seq(Nat) /\ Len(s) \in Nat
        /\ s[k + 1] \in Nat /\ SumOf(s)[k] \in Nat
        /\ SumOf(s)[k + 1] = SumOf(s)[k] + s[k + 1]
        /\ Sum(s) = SumOf(s)[Len(s)]
        /\ End(r) \in Nat
        /\ End(r + 1) = End(r) + Size(Current)
        /\ ~Derails(Current) => Sum(s) = Size(Current)
    <2>1. \A j \in Nat : j < Len(s) =>
                /\ s[j + 1] \in Nat /\ SumOf(s)[j] \in Nat
                /\ SumOf(s)[j + 1] = SumOf(s)[j] + s[j + 1]
      BY <1>1, <1>2, CurrentFacts
    <2>2. /\ s[k + 1] \in Nat /\ SumOf(s)[k] \in Nat
          /\ SumOf(s)[k + 1] = SumOf(s)[k] + s[k + 1]
      BY <1>3, <1>5, <2>1
    <2>3. /\ Current \in Messages /\ s \in Seq(Nat) /\ Len(s) \in Nat
          /\ Sum(s) = SumOf(s)[Len(s)]
          /\ End(returned) \in Nat
          /\ End(returned + 1) = End(returned) + Size(Current)
          /\ ~Derails(Current) => Sum(s) = Size(Current)
      BY <1>1, <1>2, CurrentFacts
    <2> QED
      BY <1>4, <2>2, <2>3
  <1>7. pos' = End(r) + SumOf(s)[k + 1] /\ pos' \in 0 .. delivered
    <2>1. delivered - pos >= s[k + 1]
      <3>1. delivered - pos >= Demand /\ Demand \in Nat /\ Demand >= s[k + 1]
        <4>1. Demand = s[k + 1] \/ (Demand = PeekLen /\ s[k + 1] < PeekLen)
          BY DEF Demand
        <4> QED
          BY <1>1, <1>6, <4>1, FramingAssumption DEF Ready
      <3> QED
        BY <1>3, <1>6, <3>1
    <2> DEFINE a == s[k + 1]
               b == SumOf(s)[k]
               c == SumOf(s)[k + 1]
               e == End(r)
    <2>2. /\ a \in Nat /\ b \in Nat /\ e \in Nat /\ c = b + a
          /\ pos = e + b /\ pos' = pos + a /\ delivered - pos >= a
      BY <1>1, <1>5, <1>6, <2>1
    <2> HIDE DEF a, b, c, e
    <2>3. pos' = e + c /\ pos' \in 0 .. delivered
      BY <1>3, <2>2
    <2> QED
      BY <2>3 DEF c, e
  <1>8. ASSUME reads' \in Nat, returned' \in 0 .. Len(sent), pc' \in {"reading", "lost", "failed"}
        PROVE  TypeOK'
    <2>1. Messages' = Messages /\ End(Len(sent))' = End(Len(sent))
      BY <1>1, SameStream, SameEnd
    <2>2. delivered' \in 0 .. End(Len(sent))'
      BY <1>1, <1>2, <2>1 DEF TypeOK
    <2>3. pos' \in 0 .. delivered'
      BY <1>1, <1>7
    <2> QED
      BY <1>1, <1>2, <1>8, <2>1, <2>2, <2>3 DEF TypeOK
  <1>9. ASSUME NEW n \in 1 .. r
        PROVE  End(n - 1)' + Sum(Reads(sent[n])') <= delivered'
    <2>1. End(n - 1) + Sum(Reads(sent[n])) <= delivered
      BY <1>1, <1>2, <1>4 DEF NothingTruncated
    <2>2. End(n - 1)' = End(n - 1) /\ Reads(sent[n])' = Reads(sent[n])
      BY <1>1, SameStream
    <2> QED
      BY <1>1, <2>1, <2>2
  <1>10. ASSUME returned' = r PROVE NothingTruncated'
    BY <1>9, <1>10 DEF NothingTruncated
  <1>11. CASE pc' = "failed" /\ UNCHANGED <<reads, returned>>
    <2>1. TypeOK'
      BY <1>1, <1>3, <1>8, <1>11
    <2>2. Progress' /\ InStep'
      BY <1>11 DEF Progress, InStep
    <2> QED
      BY <1>4, <1>10, <1>11, <2>1, <2>2 DEF Inv
  <1>12. CASE /\ k + 1 < Len(s) /\ reads' = k + 1 /\ UNCHANGED <<returned, pc>>
    <2>1. TypeOK'
      BY <1>1, <1>3, <1>8, <1>12
    <2>2. End(returned)' = End(r) /\ Reads(Current)' = s
      <3>1. End(returned)' = End(r)' /\ Reads(Current)' = Reads(sent[r + 1])'
        BY <1>4, <1>12, AtNext
      <3>2. End(r)' = End(r) /\ Reads(sent[r + 1])' = Reads(sent[r + 1])
        BY <1>1, SameStream
      <3> QED
        BY <1>4, <3>1, <3>2 DEF Current
    <2>3. Progress'
      <3>1. returned' < Len(sent)' /\ returned' # Len(sent)'
        BY <1>1, <1>3, <1>12
      <3> HIDE DEF s, k
      <3> QED
        BY <1>7, <1>12, <2>2, <3>1 DEF Progress
    <2>4. InStep'
      <3>1. pc' = "reading" /\ reads' # 0
        BY <1>1, <1>3, <1>12
      <3> QED
        BY <3>1 DEF InStep
    <2> QED
      BY <1>4, <1>10, <1>12, <2>1, <2>3, <2>4 DEF Inv
  <1>13. CASE /\ k + 1 = Len(s) /\ reads' = 0 /\ returned' = r + 1
              /\ pc' = IF pos' = End(r + 1) THEN "reading" ELSE "lost"
    <2>1. TypeOK'
      <3>1. reads' \in Nat /\ returned' \in 0 .. Len(sent) /\ pc' \in {"reading", "lost", "failed"}
        BY <1>1, <1>3, <1>4, <1>13
      <3> QED
        BY <1>8, <3>1
    <2>2. pos' = End(r) + Sum(s)
      BY <1>6, <1>7, <1>13
    <2>3. /\ End(returned)' = End(r + 1)
          /\ Derails(sent[returned])' = Derails(Current)
      <3>1. /\ End(returned)' = End(r + 1)'
            /\ Derails(sent[returned])' = Derails(sent[r + 1])'
        BY <1>13, AtNext
      <3>2. End(r + 1)' = End(r + 1) /\ Derails(sent[r + 1])' = Derails(sent[r + 1])
        BY <1>1, SameStream
      <3> QED
        BY <1>4, <3>1, <3>2 DEF Current
    <2>4. Progress'
      <3> SUFFICES ASSUME pc' = "reading"
                   PROVE  /\ returned' = Len(sent)' => reads' = 0 /\ pos' = End(returned)'
                          /\ returned' < Len(sent)' =>
                                /\ reads' < Len(Reads(Current)')
                                /\ pos' = End(returned)' + SumOf(Reads(Current)')[reads']
        BY DEF Progress
      <3>1. reads' = 0 /\ pos' = End(returned)'
        BY <1>13, <2>3
      <3>2. ASSUME returned' < Len(sent)'
            PROVE  /\ Len(Reads(Current)') > 0 /\ SumOf(Reads(Current)')[0] = 0
                   /\ End(returned)' \in Nat
        BY <2>1, <3>2, CurrentNext
      <3> QED
        BY <3>1, <3>2
    <2>5. InStep'
      <3>1. pc' = "reading" => pos' = End(returned)'
        BY <1>13, <2>3
      <3>2. pc' = "lost" => Derails(Current)
        <4>1. ~Derails(Current) => pos' = End(r + 1)
          BY <1>6, <2>2
        <4> QED
          BY <1>13, <4>1
      <3>3. returned' > 0
        BY <1>13
      <3> QED
        BY <2>3, <3>1, <3>2, <3>3 DEF InStep
    <2>6. NothingTruncated'
      <3> SUFFICES ASSUME NEW n \in 1 .. r + 1
                   PROVE  End(n - 1)' + Sum(Reads(sent[n])') <= delivered'
        BY <1>13 DEF NothingTruncated
      <3>1. CASE n = r + 1
        <4>1. End(r)' = End(r) /\ Reads(sent[r + 1])' = s
          <5>1. End(r)' = End(r) /\ Reads(sent[r + 1])' = Reads(sent[r + 1])
            BY <1>1, SameStream
          <5> QED
            BY <1>4, <5>1 DEF Current
        <4>2. n - 1 = r
          BY <3>1
        <4>3. End(n - 1)' = End(r)' /\ Reads(sent[n])' = Reads(sent[r + 1])'
          BY <3>1, <4>2
        <4>4. End(r) + Sum(s) <= delivered
          BY <1>3, <1>7, <2>2
        <4> QED
          BY <1>1, <4>1, <4>3, <4>4
      <3>2. CASE n # r + 1
        <4>1. n \in 1 .. r
          BY <3>2
        <4> QED
          BY <1>9, <4>1
      <3> QED
        BY <3>1, <3>2
    <2> QED
      BY <2>1, <2>4, <2>5, <2>6 DEF Inv
  <1> QED
    BY <1>4, <1>11, <1>12, <1>13 DEF Read

\* The stream ends in the middle of a message.
LEMMA ReadCutInv ==
    ASSUME Inv, ReadCut
    PROVE  Inv'
  <1>1. /\ pc = "reading" /\ closed /\ pos' = delivered /\ reads' = 0 /\ pc' = "failed"
        /\ UNCHANGED <<format, sent, delivered, closed>>
        /\ returned' = IF returned < Len(sent) /\ ReturnsCut(Current, reads)
                       THEN returned + 1 ELSE returned
    BY DEF ReadCut
  <1>2. TypeOK /\ NothingTruncated
    BY DEF Inv
  <1>3. PICK r \in Nat : r = returned /\ r <= Len(sent)
    BY <1>2, EndFacts DEF TypeOK
  <1>4. Len(sent) \in Nat
    BY <1>2, EndFacts DEF TypeOK
  <1>5. TypeOK'
    <2>1. Messages' = Messages /\ End(Len(sent))' = End(Len(sent))
      BY <1>1, SameStream, SameEnd
    <2>2. delivered' \in 0 .. End(Len(sent))'
      BY <1>1, <1>2, <2>1 DEF TypeOK
    <2>3. pos' \in 0 .. delivered'
      <3>1. Len(sent) \in 0 .. Len(sent)
        BY <1>4
      <3>2. End(Len(sent)) \in Nat
        BY <1>2, <3>1, EndFacts DEF TypeOK
      <3> QED
        BY <1>1, <1>2, <3>2 DEF TypeOK
    <2>4. returned' \in 0 .. Len(sent) /\ reads' \in Nat
      BY <1>1, <1>3, <1>4
    <2> QED
      BY <1>1, <1>2, <2>1, <2>2, <2>3, <2>4 DEF TypeOK
  <1>6. Progress' /\ InStep'
    BY <1>1 DEF Progress, InStep
  <1>7. ASSUME NEW n \in 1 .. r
        PROVE  End(n - 1)' + Sum(Reads(sent[n])') <= delivered'
    <2>1. End(n - 1) + Sum(Reads(sent[n])) <= delivered
      BY <1>1, <1>2, <1>3 DEF NothingTruncated
    <2>2. End(n - 1)' = End(n - 1) /\ Reads(sent[n])' = Reads(sent[n])
      BY <1>1, SameStream
    <2> QED
      BY <1>1, <2>1, <2>2
  <1>8. NothingTruncated'
    <2>1. CASE returned' = r
      BY <1>7, <2>1 DEF NothingTruncated
    <2>2. CASE r < Len(sent) /\ ReturnsCut(Current, reads) /\ returned' = r + 1
      <3>1. \/ format \in {"http", "nacos"}
            \/ format = "redisResponse" /\ sent[r + 1].kind \in {"array", "nested"}
        <4>1. CASE format = "redisResponse" /\ Elements(Current)[1].type = "array"
          <5>1. Current \in Messages
            BY <1>2, <1>3, <2>2, CurrentFacts
          <5>2. Current.kind \in RESPKinds /\ Current.body \in Nat
            BY <1>2, <4>1, <5>1, MessageFacts DEF TypeOK
          <5>3. Current.kind \in {"array", "nested"}
            BY <4>1, <5>2, ElementsFacts
          <5> QED
            BY <1>3, <4>1, <5>3 DEF Current
        <4> QED
          BY <2>2, <4>1 DEF ReturnsCut
      <3> SUFFICES ASSUME NEW n \in 1 .. r + 1
                   PROVE  \/ End(n - 1)' + Sum(Reads(sent[n])') <= delivered'
                          \/ n = r + 1
        BY <1>1, <2>2, <3>1 DEF NothingTruncated
      <3>2. n = r + 1 \/ n \in 1 .. r
        OBVIOUS
      <3> QED
        BY <1>7, <3>2
    <2> QED
      BY <1>1, <1>3, <2>1, <2>2
  <1> QED
    BY <1>5, <1>6, <1>8 DEF Inv

\* Every step keeps the invariant.
LEMMA StepInv == Inv /\ [Next]_vars => Inv'
  <1> SUFFICES ASSUME Inv, [Next]_vars PROVE Inv'
    OBVIOUS
  <1>1. ASSUME NEW m \in Messages, Send(m) PROVE Inv'
    BY <1>1, SendInv
  <1>2. delivered \in Nat /\ End(Len(sent)) \in Nat /\ delivered <= End(Len(sent)) /\ closed \in BOOLEAN
    <2>1. Len(sent) \in Nat /\ Len(sent) \in 0 .. Len(sent)
      BY EndFacts DEF Inv, TypeOK
    <2>2. End(Len(sent)) \in Nat
      BY <2>1, EndFacts DEF Inv, TypeOK
    <2> QED
      BY <2>2 DEF Inv, TypeOK
  <1>3. ASSUME NEW n \in 1 .. End(Len(sent)) - delivered, Deliver(n) PROVE Inv'
    <2>1. delivered' \in Nat /\ delivered <= delivered' /\ delivered' <= End(Len(sent))
      BY <1>2, <1>3 DEF Deliver
    <2> QED
      BY <1>2, <1>3, <2>1, AssemblerInv DEF Deliver
  <1>4. CASE Close
    <2>1. delivered' \in Nat /\ delivered <= delivered' /\ delivered' <= End(Len(sent))
      BY <1>2, <1>4 DEF Close
    <2> QED
      BY <1>4, <2>1, AssemblerInv DEF Close
  <1>5. CASE Read
    BY <1>5, ReadInv
  <1>6. CASE ReadCut
    BY <1>6, ReadCutInv
  <1>7. CASE UNCHANGED vars
    <2>1. delivered' \in Nat /\ delivered <= delivered' /\ delivered' <= End(Len(sent))
      BY <1>2, <1>7 DEF vars
    <2> QED
      BY <1>2, <1>7, <2>1, AssemblerInv DEF vars
  <1> QED
    BY <1>1, <1>3, <1>4, <1>5, <1>6, <1>7 DEF Next

\* However the stream is cut the reader keeps its place.
LEMMA FramingInvariant == Spec => []Inv
  BY InitInv, StepInv, PTL DEF Spec

\* No reader consumes a byte that has not been released to it, for every
\* size of a body and number of messages (io.ReadFull and ReadString of the
\* Read...Message functions).
THEOREM FramingTypeCorrect == Spec => []TypeOK
  <1>1. Inv => TypeOK
    BY DEF Inv
  <1> QED
    BY <1>1, FramingInvariant, PTL

\* Every reader of the ten formats begins a message at its first byte, unless
\* the message before is one of those that derail it.
THEOREM FramingInStep == Spec => []InStep
  <1>1. Inv => InStep
    BY DEF Inv
  <1> QED
    BY <1>1, FramingInvariant, PTL

\* A message is returned with all the bytes its reader reads of it, except
\* where a stream that ended cut the headers, the body or the array short.
THEOREM FramingNothingTruncated == Spec => []NothingTruncated
  <1>1. Inv => NothingTruncated
    BY DEF Inv
  <1> QED
    BY <1>1, FramingInvariant, PTL

=============================================================================
