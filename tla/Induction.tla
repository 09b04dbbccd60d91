------------------------------ MODULE Induction ------------------------------
(***************************************************************************)
(* Induction over the natural numbers, and functions defined by recursion  *)
(* over them, in terms of sets.                                            *)
(***************************************************************************)
EXTENDS Integers, WellFoundedInduction, FiniteSetTheorems, TLAPS

\* A set of natural numbers has a least element.
LEMMA LeastElement ==
  ASSUME NEW T \in SUBSET Nat, T # {}
  PROVE  \E m \in T : \A n \in T : m <= n
<1> DEFINE R == OpToRel(<, Nat)
<1>1. IsWellFoundedOn(R, Nat)
  BY NatLessThanWellFounded
<1>2. \A m, n \in Nat : << n, m >> \in R <=> n < m
  BY DEF OpToRel
<1> HIDE DEF R
<1>3. PICK m \in T : \A n \in T : ~ (<< n, m >> \in R)
  BY <1>1, WFMin
<1>4. \A n \in T : m \in Nat /\ n \in Nat /\ ~ (n < m)
  BY <1>2, <1>3
<1> QED
  BY <1>4

\* A set with every number all of whose predecessors it has has all numbers.
LEMMA StrongInduction ==
  ASSUME NEW S, \A n \in Nat : (\A m \in 0 .. (n - 1) : m \in S) => n \in S
  PROVE  \A n \in Nat : n \in S
<1> SUFFICES ASSUME NEW n \in Nat, n \notin S PROVE FALSE
  OBVIOUS
<1> DEFINE T == Nat \ S
<1>1. T \in SUBSET Nat /\ n \in T
  OBVIOUS
<1> HIDE DEF T
<1>2. PICK m \in T : \A o \in T : m <= o
  BY <1>1, LeastElement
<1>3. m \in Nat /\ m \notin S /\ \A o \in Nat : o \notin S => m <= o
  BY <1>2 DEF T
<1>4. \A o \in 0 .. (m - 1) : o \in S
  BY <1>3
<1> QED
  BY <1>3, <1>4

\* One that has 0 and the successor of each of its numbers.
LEMMA Induction ==
  ASSUME NEW S, 0 \in S, \A n \in Nat : n \in S => n + 1 \in S
  PROVE  \A n \in Nat : n \in S
<1>1. ASSUME NEW n \in Nat, \A m \in 0 .. (n - 1) : m \in S PROVE n \in S
  <2>1. CASE n = 0
    BY <2>1
  <2>2. CASE n # 0
    <3>1. n - 1 \in Nat /\ n - 1 \in 0 .. (n - 1) /\ (n - 1) + 1 = n
      BY <2>2
    <3>2. n - 1 \in S
      BY <1>1, <3>1
    <3>3. (n - 1) + 1 \in S
      BY <3>1, <3>2
    <3> QED
      BY <3>1, <3>3
  <2> QED
    BY <2>1, <2>2
<1> QED
  BY <1>1, StrongInduction

\* The first values of a function that is defined by recursion: the number n
\* and the value for n make that for n + 1.
Approximates(f, n, V, v, step) ==
  /\ f \in [0 .. n -> V]
  /\ f[0] = v
  /\ \A m \in 0 .. (n - 1) : f[m + 1] = step[<< m, f[m] >>]

\* Two functions have the same values up to the lesser of two numbers.
Agree(f, n, g, o) == \A m \in Nat : m <= n /\ m <= o => f[m] = g[m]

\* All values of such a function.
Recursive(f, V, v, step) ==
  /\ f \in [Nat -> V]
  /\ f[0] = v
  /\ \A n \in Nat : f[n + 1] = step[<< n, f[n] >>]

\* There are first values, and only one choice of them.
LEMMA ApproximationExists ==
  ASSUME NEW V, NEW v \in V, NEW step \in [Nat \X V -> V]
  PROVE  \A n \in Nat : \E f : Approximates(f, n, V, v, step)
<1> DEFINE S == { n \in Nat : \E f : Approximates(f, n, V, v, step) }
<1>1. 0 \in S
  <2> DEFINE f == [m \in 0 .. 0 |-> v]
  <2>1. Approximates(f, 0, V, v, step)
    BY DEF Approximates
  <2> HIDE DEF f
  <2> QED
    BY <2>1
<1>2. ASSUME NEW n \in Nat, n \in S PROVE n + 1 \in S
  <2>1. PICK f : Approximates(f, n, V, v, step)
    BY <1>2
  <2>2. f \in [0 .. n -> V] /\ f[0] = v /\ \A m \in 0 .. (n - 1) : f[m + 1] = step[<< m, f[m] >>]
    BY <2>1 DEF Approximates
  <2> DEFINE last == step[<< n, f[n] >>]
             g == [m \in 0 .. (n + 1) |-> IF m = n + 1 THEN last ELSE f[m]]
  <2>3. last \in V
    BY <2>2
  <2> HIDE DEF last
  <2>4. g \in [0 .. (n + 1) -> V] /\ g[0] = v
    BY <2>2, <2>3
  <2>5. ASSUME NEW m \in 0 .. n PROVE g[m + 1] = step[<< m, g[m] >>]
    <3>1. g[m] = f[m]
      OBVIOUS
    <3>2. CASE m = n
      <4>1. g[m + 1] = last
        BY <3>2
      <4> HIDE DEF g
      <4> QED
        BY <3>1, <3>2, <4>1 DEF last
    <3>3. CASE m # n
      <4>1. m \in 0 .. (n - 1) /\ g[m + 1] = f[m + 1]
        BY <3>3
      <4> HIDE DEF g
      <4> QED
        BY <2>2, <3>1, <4>1
    <3> HIDE DEF g
    <3> QED
      BY <3>2, <3>3
  <2>6. Approximates(g, n + 1, V, v, step)
    <3> HIDE DEF g
    <3>1. n + 1 - 1 = n
      OBVIOUS
    <3> QED
      BY <2>4, <2>5, <3>1 DEF Approximates
  <2> HIDE DEF g
  <2> QED
    BY <2>6
<1> HIDE DEF S
<1>3. \A n \in Nat : n \in S
  BY <1>1, <1>2, Induction
<1> QED
  BY <1>3 DEF S

\* Longer approximations agree with shorter ones.
LEMMA ApproximationsAgree ==
  ASSUME NEW V, NEW v \in V, NEW step \in [Nat \X V -> V],
         NEW n \in Nat, NEW f, Approximates(f, n, V, v, step),
         NEW o \in Nat, NEW g, Approximates(g, o, V, v, step)
  PROVE  Agree(f, n, g, o)
<1> DEFINE S == { m \in Nat : m <= n /\ m <= o => f[m] = g[m] }
<1>1. 0 \in S
  BY DEF Approximates
<1>2. ASSUME NEW m \in Nat, m \in S PROVE m + 1 \in S
  <2>1. SUFFICES ASSUME m + 1 <= n, m + 1 <= o PROVE f[m + 1] = g[m + 1]
    OBVIOUS
  <2>2. m \in 0 .. (n - 1) /\ m \in 0 .. (o - 1) /\ f[m] = g[m]
    BY <1>2, <2>1
  <2> QED
    BY <2>2 DEF Approximates
<1> HIDE DEF S
<1>3. \A m \in Nat : m \in S
  BY <1>1, <1>2, Induction
<1> QED
  BY <1>3 DEF S, Agree

\* A function on the natural numbers that is defined by recursion.
LEMMA RecursionExists ==
  ASSUME NEW V, NEW v \in V, NEW step \in [Nat \X V -> V]
  PROVE  \E f : Recursive(f, V, v, step)
<1> DEFINE A(n) == CHOOSE f : Approximates(f, n, V, v, step)
           F == [n \in Nat |-> A(n)[n]]
<1>1. ASSUME NEW n \in Nat PROVE Approximates(A(n), n, V, v, step)
  <2>1. \E f : Approximates(f, n, V, v, step)
    BY ApproximationExists
  <2> QED
    BY <2>1, Zenon
<1>2. ASSUME NEW n \in Nat PROVE F[n] \in V
  <2> DEFINE f == A(n)
  <2>1. Approximates(f, n, V, v, step) /\ F[n] = f[n]
    BY <1>1
  <2> HIDE DEF f, F
  <2>2. n \in 0 .. n
    OBVIOUS
  <2> QED
    BY <2>1, <2>2 DEF Approximates
<1>3. F[0] = v
  BY <1>1 DEF Approximates
<1>4. ASSUME NEW n \in Nat PROVE F[n + 1] = step[<< n, F[n] >>]
  <2> DEFINE f == A(n)
             g == A(n + 1)
  <2>1. Approximates(f, n, V, v, step) /\ Approximates(g, n + 1, V, v, step) /\ n + 1 \in Nat
    BY <1>1
  <2>2. F[n] = f[n] /\ F[n + 1] = g[n + 1]
    OBVIOUS
  <2> HIDE DEF f, g, F
  <2>3. f[n] = g[n]
    <3> DEFINE o == n + 1
    <3>0. o \in Nat /\ Approximates(g, o, V, v, step)
      BY <2>1
    <3> HIDE DEF o
    <3>1. Agree(f, n, g, o)
      BY <2>1, <3>0, ApproximationsAgree
    <3> QED
      BY <3>1 DEF o, Agree
  <2>4. g[n + 1] = step[<< n, g[n] >>]
    BY <2>1 DEF Approximates
  <2> QED
    BY <2>2, <2>3, <2>4
<1> HIDE DEF A
<1>5. F \in [Nat -> V]
  BY <1>2
<1> HIDE DEF F
<1>6. Recursive(F, V, v, step)
  BY <1>3, <1>4, <1>5 DEF Recursive
<1> QED
  BY <1>6

\* A chain of growing subsets of a finite set stops growing.
LEMMA ChainStops ==
  ASSUME NEW T, IsFiniteSet(T), NEW f \in [Nat -> SUBSET T],
         \A n \in Nat : f[n] \subseteq f[n + 1]
  PROVE  \E n \in 0 .. Cardinality(T) : f[n + 1] = f[n]
<1> SUFFICES ASSUME \A n \in 0 .. Cardinality(T) : f[n + 1] # f[n] PROVE FALSE
  OBVIOUS
<1>1. Cardinality(T) \in Nat
  BY FS_CardinalityType
<1>2. ASSUME NEW n \in Nat
      PROVE  IsFiniteSet(f[n]) /\ Cardinality(f[n]) \in Nat /\ Cardinality(f[n]) <= Cardinality(T)
  <2>1. f[n] \in SUBSET T
    OBVIOUS
  <2> QED
    BY <2>1, FS_Subset, FS_CardinalityType
<1> DEFINE S == { n \in Nat : n <= Cardinality(T) + 1 => n <= Cardinality(f[n]) }
<1>3. 0 \in S
  BY <1>2
<1>4. ASSUME NEW n \in Nat, n \in S PROVE n + 1 \in S
  <2> SUFFICES ASSUME n + 1 <= Cardinality(T) + 1 PROVE n + 1 <= Cardinality(f[n + 1])
    OBVIOUS
  <2>1. n \in 0 .. Cardinality(T) /\ n <= Cardinality(f[n])
    BY <1>1, <1>4
  <2>2. f[n] \in SUBSET f[n + 1] /\ f[n] # f[n + 1]
    BY <2>1
  <2>3. Cardinality(f[n]) <= Cardinality(f[n + 1]) /\ Cardinality(f[n]) # Cardinality(f[n + 1])
    BY <1>2, <2>2, FS_Subset
  <2> QED
    BY <1>2, <2>1, <2>3
<1> HIDE DEF S
<1>5. Cardinality(T) + 1 \in S
  BY <1>1, <1>3, <1>4, Induction
<1> QED
  BY <1>1, <1>2, <1>5 DEF S
=============================================================================
