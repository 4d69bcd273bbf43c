--------------------------- MODULE RecursionFacts ---------------------------
(***************************************************************************)
(* What the proofs need to know of induction and of recursive functions.   *)
(* The theorems of the library take the induction hypothesis as an         *)
(* operator; here it is a set, and the step of a recursion is a function,  *)
(* so that the lemmas can be instantiated.                                 *)
(***************************************************************************)
EXTENDS Integers, Sequences, WellFoundedInduction, TLAPS

-----------------------------------------------------------------------------
\* A set of natural numbers that is not empty has a least element.
LEMMA LeastNumber ==
    ASSUME NEW T, T \subseteq Nat, T # {}
    PROVE  \E n \in T : \A m \in T : n <= m
  <1>1. PICK n \in T : \A m \in T : ~(<<m, n>> \in OpToRel(<, Nat))
    BY NatLessThanWellFounded, WFMin
  <1>2. \A m \in T : ~(m < n)
    BY <1>1 DEF OpToRel
  <1> QED
    BY <1>2

\* Induction: a set that holds 0 and every successor holds every number.
LEMMA SetInduction ==
    ASSUME NEW S, 0 \in S, \A n \in Nat : n \in S => n + 1 \in S
    PROVE  \A n \in Nat : n \in S
  <1> SUFFICES ASSUME NEW k \in Nat, k \notin S PROVE FALSE
    OBVIOUS
  <1>1. PICK n \in Nat \ S : \A m \in Nat \ S : n <= m
    BY LeastNumber
  <1>2. n - 1 \in Nat /\ n - 1 \in S
    BY <1>1
  <1> QED
    BY <1>1, <1>2

-----------------------------------------------------------------------------
\* f begins with c and computes each value up to n from the one before.
Follows(f, n, c, step) ==
    f[0] = c /\ \A i \in 1 .. n : f[i] = step[i][f[i - 1]]

\* Such a function exists.
LEMMA RecursiveFunction ==
    ASSUME NEW n \in Nat, NEW S, NEW c \in S, NEW step \in [1 .. n -> [S -> S]]
    PROVE  \E f \in [0 .. n -> S] : Follows(f, n, c, step)
  <1> DEFINE Upto(k) == \E f \in [0 .. k -> S] :
              f[0] = c /\ \A i \in 1 .. k : f[i] = step[i][f[i - 1]]
             G == {k \in Nat : k <= n => Upto(k)}
  <1>1. 0 \in G
    <2> DEFINE f == [i \in 0 .. 0 |-> c]
    <2>1. f \in [0 .. 0 -> S] /\ f[0] = c
      OBVIOUS
    <2>2. \A i \in 1 .. 0 : f[i] = step[i][f[i - 1]]
      OBVIOUS
    <2> HIDE DEF f
    <2>3. Upto(0)
      BY <2>1, <2>2
    <2> QED
      BY <2>3
  <1>2. ASSUME NEW k \in Nat, k \in G PROVE k + 1 \in G
    <2> SUFFICES ASSUME k + 1 <= n PROVE Upto(k + 1)
      OBVIOUS
    <2>1. PICK f \in [0 .. k -> S] :
              f[0] = c /\ \A i \in 1 .. k : f[i] = step[i][f[i - 1]]
      BY <1>2
    <2> DEFINE g == [i \in 0 .. k + 1 |-> IF i = k + 1 THEN step[k + 1][f[k]] ELSE f[i]]
    <2>2. step[k + 1][f[k]] \in S
      OBVIOUS
    <2>3. g \in [0 .. k + 1 -> S]
      BY <2>2
    <2>4. g[0] = c
      BY <2>1
    <2>5. ASSUME NEW i \in 1 .. k + 1 PROVE g[i] = step[i][g[i - 1]]
      <3>1. CASE i = k + 1
        <4>1. i - 1 = k /\ i - 1 # k + 1 /\ k \in 0 .. k + 1
          BY <3>1
        <4>2. g[i] = step[k + 1][f[k]]
          BY <3>1
        <4>3. g[i - 1] = f[k]
          BY <4>1
        <4> QED
          BY <3>1, <4>2, <4>3
      <3>2. CASE i # k + 1
        BY <3>2, <2>1
      <3> QED
        BY <3>1, <3>2
    <2> QED
      BY <2>3, <2>4, <2>5
  <1> HIDE DEF G
  <1>3. n \in G
    BY <1>1, <1>2, SetInduction
  <1> QED
    BY <1>3 DEF G, Follows

\* The same of an f that takes the step where the step is defined.
FollowsIn(S, f, n, c, step) ==
    f[0] = c /\ \A i \in 1 .. n : f[i - 1] \in S => f[i] = step[i][f[i - 1]]

\* Its values have the type of the steps.
LEMMA RecursionType ==
    ASSUME NEW n \in Nat, NEW S, NEW c \in S, NEW step \in [1 .. n -> [S -> S]],
           NEW f, FollowsIn(S, f, n, c, step)
    PROVE  \A i \in 0 .. n : f[i] \in S
  <1> DEFINE G == {k \in Nat : k <= n => f[k] \in S}
  <1> USE DEF FollowsIn
  <1>1. 0 \in G
    OBVIOUS
  <1>2. ASSUME NEW k \in Nat, k \in G PROVE k + 1 \in G
    <2> SUFFICES ASSUME k + 1 <= n PROVE f[k + 1] \in S
      OBVIOUS
    <2>1. k + 1 \in 1 .. n /\ (k + 1) - 1 = k /\ k <= n
      OBVIOUS
    <2>2. f[k] \in S
      BY <1>2, <2>1
    <2>3. f[k + 1] = step[k + 1][f[k]]
      BY <2>1, <2>2
    <2> QED
      BY <2>1, <2>2, <2>3
  <1> HIDE DEF G
  <1>3. \A i \in Nat : i \in G
    BY <1>1, <1>2, SetInduction
  <1> QED
    BY <1>3 DEF G

\* Wherever f and g agree they take the same step.
SameSteps(f, g, n) ==
    f[0] = g[0] /\ \A i \in 1 .. n : f[i - 1] = g[i - 1] => f[i] = g[i]

\* There is only one: two that take the same steps up to n agree up to n.
LEMMA RecursionUnique ==
    ASSUME NEW n \in Nat, NEW f, NEW g, SameSteps(f, g, n)
    PROVE  \A i \in 0 .. n : f[i] = g[i]
  <1> DEFINE G == {k \in Nat : k <= n => f[k] = g[k]}
  <1> USE DEF SameSteps
  <1>1. 0 \in G
    OBVIOUS
  <1>2. ASSUME NEW k \in Nat, k \in G PROVE k + 1 \in G
    <2> SUFFICES ASSUME k + 1 <= n PROVE f[k + 1] = g[k + 1]
      OBVIOUS
    <2>1. k + 1 \in 1 .. n /\ (k + 1) - 1 = k /\ k <= n
      OBVIOUS
    <2>2. f[k] = g[k]
      BY <1>2, <2>1
    <2> QED
      BY <2>1, <2>2
  <1> HIDE DEF G
  <1>3. \A i \in Nat : i \in G
    BY <1>1, <1>2, SetInduction
  <1> QED
    BY <1>3 DEF G

=============================================================================
