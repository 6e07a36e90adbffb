------------------------------ MODULE Induction ------------------------------
(***************************************************************************)
(* Induction over the natural numbers and definition by recursion, stated  *)
(* about sets and functions: the theorems of NaturalsInduction take a      *)
(* predicate as a parameter, which the provers cannot instantiate.         *)
(***************************************************************************)
EXTENDS Naturals, FiniteSetsExt, FiniteSetTheorems, TLAPS

\* Every nonempty set of naturals has a least element: the intervals below its
\* elements are finite sets, which strict inclusion orders well.
LEMMA LeastNat ==
  ASSUME NEW T \in SUBSET Nat, T # {}
  PROVE  \E x \in T : \A y \in T : x <= y
<1> DEFINE I == {0 .. n : n \in T}
           R == StrictSubsetOrdering(Nat)
<1>1. \A n \in T : 0 .. n \in FiniteSubsetsOf(Nat)
  <2> SUFFICES ASSUME NEW n \in T PROVE 0 .. n \in FiniteSubsetsOf(Nat)
    OBVIOUS
  <2>1. n \in Nat /\ 0 \in Int /\ n \in Int
    OBVIOUS
  <2>2. IsFiniteSet(0 .. n)
    BY <2>1, FS_Interval
  <2> QED
    BY <2>1, <2>2 DEF FiniteSubsetsOf
<1>2. I \subseteq FiniteSubsetsOf(Nat) /\ I # {}
  BY <1>1
<1>3. \E x \in I : \A y \in I : ~(<<y, x>> \in R)
  <2> HIDE DEF I, R
  <2>1. IsWellFoundedOn(R, FiniteSubsetsOf(Nat))
    BY FS_StrictSubsetOrderingWellFounded DEF R
  <2> QED
    BY <1>2, <2>1, WFMin
<1>4. PICK n \in T : \A m \in T : ~(<<0 .. m, 0 .. n>> \in R)
  BY <1>3
<1>5. ASSUME NEW m \in T, m < n PROVE FALSE
  <2>1. 0 .. m \subseteq Nat /\ 0 .. n \subseteq Nat /\ 0 .. m \subseteq 0 .. n /\ 0 .. m # 0 .. n
    BY <1>5
  <2>2. <<0 .. m, 0 .. n>> \in R
    BY <2>1 DEF StrictSubsetOrdering
  <2> QED
    BY <2>2, <1>4
<1>6. \A m \in T : n <= m
  <2> HIDE DEF I, R
  <2> QED BY <1>5
<1> QED
  BY <1>6

\* A set of positions has a first one and a last one.
LEMMA FirstAndLast ==
  ASSUME NEW n \in Nat, NEW S \in SUBSET (1 .. n), S # {}
  PROVE  /\ Min(S) \in S /\ Max(S) \in S /\ IsFiniteSet(S)
         /\ \A i \in S : Min(S) <= i /\ i <= Max(S)
<1>1. \E x \in S : \A y \in S : x <= y
  BY LeastNat
<1>2. Min(S) \in S /\ \A i \in S : Min(S) <= i
  BY <1>1 DEF Min
<1> DEFINE D == {n - x : x \in S}
<1>3. D \in SUBSET Nat /\ D # {}
  <2>1. \A x \in S : n - x \in Nat
    OBVIOUS
  <2>2. D # {}
    OBVIOUS
  <2> QED
    BY <2>1, <2>2
<1>4. PICK d \in D : \A e \in D : d <= e
  <2> HIDE DEF D
  <2> QED
    BY <1>3, LeastNat
<1>5. PICK x \in S : d = n - x
  OBVIOUS
<1>6. \A y \in S : x >= y
  <2> SUFFICES ASSUME NEW y \in S PROVE x >= y
    OBVIOUS
  <2>1. n - x <= n - y
    BY <1>4, <1>5
  <2> QED
    BY <2>1
<1>7. Max(S) \in S /\ \A y \in S : y <= Max(S)
  BY <1>6 DEF Max
<1>8. IsFiniteSet(S)
  <2>1. 1 \in Int /\ n \in Int
    OBVIOUS
  <2>2. IsFiniteSet(1 .. n)
    BY <2>1, FS_Interval
  <2> QED
    BY <2>2, FS_Subset
<1> QED
  BY <1>2, <1>7, <1>8

\* A set with 0 and the successor of each of its members is Nat.
LEMMA UpTo ==
  ASSUME NEW P \in SUBSET Nat, 0 \in P, \A n \in P : n + 1 \in P
  PROVE  \A n \in Nat : n \in P
<1> DEFINE T == Nat \ P
<1> SUFFICES ASSUME T # {} PROVE FALSE
  OBVIOUS
<1>1. PICK x \in T : \A y \in T : x <= y
  <2> HIDE DEF T
  <2>1. T \in SUBSET Nat
    BY DEF T
  <2> QED
    BY <2>1, LeastNat
<1>2. x # 0 /\ x - 1 \in Nat /\ x - 1 \notin T /\ (x - 1) + 1 = x
  BY <1>1
<1> QED
  BY <1>1, <1>2

\* f starts with a first value and goes on by a step.
IsRecursion(f, first, step, N) ==
  /\ f[0] = first
  /\ \A n \in 1 .. N : f[n] = step[n - 1][f[n - 1]]

\* A first value and a step define a function on an interval.
LEMMA Recursion ==
  ASSUME NEW S, NEW first \in S, NEW step \in [Nat -> [S -> S]], NEW N \in Nat
  PROVE  \E f \in [0 .. N -> S] : IsRecursion(f, first, step, N)
<1> DEFINE Is(f, n) == /\ f[0] = first
                       /\ \A m \in 1 .. n : f[m] = step[m - 1][f[m - 1]]
           P == {n \in Nat : \E f \in [0 .. n -> S] : Is(f, n)}
<1>1. 0 \in P
  <2>1. [m \in 0 .. 0 |-> first] \in [0 .. 0 -> S]
    OBVIOUS
  <2>2. Is([m \in 0 .. 0 |-> first], 0)
    OBVIOUS
  <2> QED
    BY <2>1, <2>2
<1>2. ASSUME NEW n \in P PROVE n + 1 \in P
  <2>1. n \in Nat
    OBVIOUS
  <2>2. PICK f \in [0 .. n -> S] : Is(f, n)
    OBVIOUS
  <2> DEFINE g == [m \in 0 .. n + 1 |-> IF m <= n THEN f[m] ELSE step[n][f[n]]]
  <2>3. step[n][f[n]] \in S
    BY <2>1, <2>2
  <2>4. g \in [0 .. n + 1 -> S]
    BY <2>1, <2>2, <2>3
  <2>5. g[0] = first
    BY <2>1, <2>2
  <2>6. ASSUME NEW m \in 1 .. n + 1 PROVE g[m] = step[m - 1][g[m - 1]]
    <3>1. CASE m <= n
      <4>1. m \in 1 .. n /\ m \in 0 .. n + 1 /\ m - 1 \in 0 .. n + 1 /\ m - 1 <= n
        BY <2>1, <3>1
      <4>2. g[m] = f[m] /\ g[m - 1] = f[m - 1]
        BY <4>1, <3>1
      <4> QED
        BY <4>1, <4>2, <2>2
    <3>2. CASE m = n + 1
      <4>1. m \in 0 .. n + 1 /\ ~(m <= n) /\ m - 1 = n /\ n \in 0 .. n + 1 /\ n <= n
        BY <2>1, <3>2
      <4> QED
        BY <4>1
    <3> QED
      BY <3>1, <3>2, <2>1
  <2>7. Is(g, n + 1)
    BY <2>5, <2>6
  <2>8. n + 1 \in Nat
    BY <2>1
  <2> QED
    BY <2>4, <2>7, <2>8
<1>3. N \in P
  <2> HIDE DEF P
  <2>1. P \in SUBSET Nat
    BY DEF P
  <2> QED
    BY <1>1, <1>2, <2>1, UpTo
<1> QED
  BY <1>3 DEF IsRecursion
==============================================================================
