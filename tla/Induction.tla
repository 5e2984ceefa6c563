------------------------------ MODULE Induction ------------------------------
(***************************************************************************)
(* Induction over the natural numbers in the form the other proofs cite    *)
(* it, about sets and functions: a list is walked or built one element at  *)
(* a time, and what a function defined by recursion over its length        *)
(* computes follows from what one step of it does.                         *)
(***************************************************************************)
EXTENDS Integers, TLAPS, WellFoundedInduction

(***************************************************************************)
(* A set of natural numbers has a least element, and so does one of      *)
(* integers that has a lower bound.                                        *)
(***************************************************************************)
LEMMA LeastNatural ==
    ASSUME NEW S \in SUBSET Nat, S # {}
    PROVE  \E k \in S : \A j \in S : k <= j
<1> DEFINE R == {ss \in Nat \X Nat : ss[1] < ss[2]}
<1>1. IsWellFoundedOn(R, Nat)
  BY NatLessThanWellFounded, Zenon DEF OpToRel
<1>2. PICK k \in S : \A j \in S : ~(<<j, k>> \in R)
  BY <1>1, WFMin, Zenon
<1>3. \A j \in S : ~(j < k)
  BY <1>2
<1> QED
  BY <1>3

LEMMA LeastInteger ==
    ASSUME NEW S \in SUBSET Int, S # {}, NEW b \in Int, \A j \in S : b <= j
    PROVE  \E k \in S : \A j \in S : k <= j
<1> DEFINE D == {j - b : j \in S}
<1>1. D \in SUBSET Nat /\ D # {}
  <2>1. \A j \in S : j - b \in Nat
    OBVIOUS
  <2>2. D \subseteq Nat
    BY <2>1
  <2>3. PICK j \in S : TRUE
    OBVIOUS
  <2>4. j - b \in D
    OBVIOUS
  <2> HIDE DEF D
  <2> QED
    BY <2>2, <2>4
<1>2. PICK d \in D : \A c \in D : d <= c
  BY <1>1, LeastNatural
<1>3. PICK k \in S : d = k - b
  BY <1>2
<1>4. \A j \in S : k - b <= j - b
  BY <1>2, <1>3
<1> QED
  BY <1>4

(***************************************************************************)
(* Induction over a range of numbers.                                      *)
(***************************************************************************)
LEMMA RangeInduction ==
    ASSUME NEW n \in Nat, NEW S, 0 \in S, \A i \in 0 .. n - 1 : i \in S => i + 1 \in S
    PROVE  0 .. n \subseteq S
<1> DEFINE D == {i \in 0 .. n : i \notin S}
<1> SUFFICES ASSUME D # {}
             PROVE  FALSE
  OBVIOUS
<1>1. D \in SUBSET Nat
  OBVIOUS
<1>2. PICK k \in D : \A j \in D : k <= j
  BY <1>1, LeastNatural
<1>3. k # 0 /\ k \in 0 .. n /\ k \notin S
  BY <1>2
<1>4. k - 1 \in 0 .. n - 1 /\ ~(k <= k - 1)
  BY <1>3
<1>5. k - 1 \in S
  BY <1>2, <1>4
<1>6. (k - 1) + 1 \in S
  BY <1>4, <1>5
<1> QED
  BY <1>3, <1>6

(***************************************************************************)
(* A function that is defined by recursion over 0 .. n, from its value at  *)
(* 0 and one step after another, exists.                                   *)
(***************************************************************************)
IsRun(g, m, S, init, step) ==
    /\ g \in [0 .. m -> S]
    /\ g[0] = init
    /\ \A i \in 1 .. m : g[i] = step[<<i, g[i - 1]>>]

LEMMA RecursionExists ==
    ASSUME NEW n \in Nat, NEW S, NEW init \in S, NEW step \in [(1 .. n) \X S -> S]
    PROVE  \E g : IsRun(g, n, S, init, step)
<1> DEFINE T == {m \in 0 .. n : \E g : IsRun(g, m, S, init, step)}
<1>1. 0 \in T
  <2> DEFINE g == [i \in 0 .. 0 |-> init]
  <2>1. IsRun(g, 0, S, init, step) /\ 0 \in 0 .. n
    BY DEF IsRun
  <2> HIDE DEF g
  <2> QED
    BY <2>1
<1>2. ASSUME NEW m \in 0 .. n - 1, m \in T
      PROVE  m + 1 \in T
  <2>0. PICK g : IsRun(g, m, S, init, step)
    BY <1>2
  <2>1. /\ g \in [0 .. m -> S]
        /\ g[0] = init
        /\ \A i \in 1 .. m : g[i] = step[<<i, g[i - 1]>>]
    BY <2>0 DEF IsRun
  <2>2. m + 1 \in 1 .. n /\ m + 1 \in 0 .. n /\ m \in 0 .. m /\ m \in Nat
    OBVIOUS
  <2> DEFINE v == step[<<m + 1, g[m]>>]
             h == [i \in 0 .. m + 1 |-> IF i <= m THEN g[i] ELSE v]
  <2>3. v \in S
    BY <2>1, <2>2
  <2> HIDE DEF v
  <2>4. h \in [0 .. m + 1 -> S]
    <3>1. \A i \in 0 .. m + 1 : i <= m => i \in 0 .. m
      BY <2>2
    <3> QED
      BY <2>1, <2>3, <3>1
  <2>5. h[0] = init
    BY <2>1, <2>2
  <2>6. ASSUME NEW i \in 1 .. m + 1
        PROVE  h[i] = step[<<i, h[i - 1]>>]
    <3>1. i \in 0 .. m + 1 /\ i - 1 \in 0 .. m + 1 /\ i - 1 <= m
      BY <2>2
    <3>2. h[i - 1] = g[i - 1] /\ h[i] = IF i <= m THEN g[i] ELSE v
      BY <3>1
    <3> HIDE DEF h
    <3>3. CASE i <= m
      <4>1. i \in 1 .. m
        BY <2>2, <3>3
      <4> QED
        BY <2>1, <3>2, <3>3, <4>1
    <3>4. CASE ~(i <= m)
      <4>1. i = m + 1 /\ i - 1 = m
        BY <2>2, <3>4
      <4> QED
        BY <3>2, <3>4, <4>1 DEF v
    <3> QED
      BY <3>3, <3>4
  <2> HIDE DEF h
  <2>7. IsRun(h, m + 1, S, init, step)
    BY <2>4, <2>5, <2>6 DEF IsRun
  <2> QED
    BY <2>2, <2>7
<1>3. 0 .. n \subseteq T
  <2> HIDE DEF T
  <2> QED
    BY <1>1, <1>2, RangeInduction
<1>4. n \in T
  BY <1>3
<1> QED
  BY <1>4

(***************************************************************************)
(* The same for all natural numbers: runs of different lengths agree, so   *)
(* their last values make a function.                                      *)
(***************************************************************************)
IsIteration(g, m, S, init, next) ==
    /\ g \in [0 .. m -> S]
    /\ g[0] = init
    /\ \A i \in 1 .. m : g[i] = next[g[i - 1]]

LEMMA IterationExists ==
    ASSUME NEW n \in Nat, NEW S, NEW init \in S, NEW next \in [S -> S]
    PROVE  \E g : IsIteration(g, n, S, init, next)
<1> DEFINE step == [p \in (1 .. n) \X S |-> next[p[2]]]
<1>1. step \in [(1 .. n) \X S -> S]
  OBVIOUS
<1> HIDE DEF step
<1>2. PICK g : IsRun(g, n, S, init, step)
  BY <1>1, RecursionExists
<1>3. \A i \in 1 .. n : g[i - 1] \in S
  BY <1>2 DEF IsRun
<1>4. \A i \in 1 .. n : g[i] = next[g[i - 1]]
  BY <1>2, <1>3 DEF IsRun, step
<1>5. IsIteration(g, n, S, init, next)
  BY <1>2, <1>4 DEF IsRun, IsIteration
<1> QED
  BY <1>5

LEMMA IterationsAgree ==
    ASSUME NEW S, NEW init, NEW next, NEW m \in Nat, NEW n \in Nat, m <= n,
           NEW g, IsIteration(g, m, S, init, next), NEW h, IsIteration(h, n, S, init, next)
    PROVE  g[m] = h[m]
<1> DEFINE T == {i \in 0 .. m : g[i] = h[i]}
<1>1. 0 \in T
  BY DEF IsIteration
<1>2. ASSUME NEW i \in 0 .. m - 1, i \in T
      PROVE  i + 1 \in T
  <2>1. i + 1 \in 1 .. m /\ i + 1 \in 1 .. n /\ i + 1 \in 0 .. m /\ (i + 1) - 1 = i
    OBVIOUS
  <2>2. g[i + 1] = next[g[i]] /\ h[i + 1] = next[h[i]]
    BY <2>1 DEF IsIteration
  <2> QED
    BY <1>2, <2>1, <2>2
<1>3. 0 .. m \subseteq T
  <2> HIDE DEF T
  <2> QED
    BY <1>1, <1>2, RangeInduction
<1> QED
  BY <1>3

IsOrbit(f, S, init, next) ==
    /\ f \in [Nat -> S]
    /\ f[0] = init
    /\ \A n \in Nat : f[n + 1] = next[f[n]]

LEMMA NatRecursionExists ==
    ASSUME NEW S, NEW init \in S, NEW next \in [S -> S]
    PROVE  \E f : IsOrbit(f, S, init, next)
<1> DEFINE run(n) == CHOOSE g : IsIteration(g, n, S, init, next)
           f == [n \in Nat |-> run(n)[n]]
<1>1. \A n \in Nat : IsIteration(run(n), n, S, init, next)
  BY IterationExists
<1> HIDE DEF run
<1>2. f \in [Nat -> S]
  <2>1. \A n \in Nat : run(n)[n] \in S
    BY <1>1 DEF IsIteration
  <2> QED
    BY <2>1
<1>3. f[0] = init
  BY <1>1 DEF IsIteration
<1>4. ASSUME NEW n \in Nat
      PROVE  f[n + 1] = next[f[n]]
  <2>1. n + 1 \in Nat /\ n + 1 \in 1 .. n + 1 /\ (n + 1) - 1 = n /\ n <= n + 1
    OBVIOUS
  <2>2. run(n + 1)[n + 1] = next[run(n + 1)[n]]
    BY <1>1, <2>1 DEF IsIteration
  <2>3. run(n)[n] = run(n + 1)[n]
    BY <1>1, <2>1, IterationsAgree
  <2> QED
    BY <2>1, <2>2, <2>3
<1> HIDE DEF f
<1>5. IsOrbit(f, S, init, next)
  BY <1>2, <1>3, <1>4 DEF IsOrbit
<1> QED
  BY <1>5
=============================================================================
