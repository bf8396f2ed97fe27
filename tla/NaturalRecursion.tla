-------------------------- MODULE NaturalRecursion --------------------------
(***************************************************************************)
(* Induction and recursion over the natural numbers, for sets and          *)
(* functions: what the proofs use of loops over keys or versions.  They    *)
(* rest on the well-foundedness of <, taken at its least element, so that  *)
(* every statement is about sets and needs no predicate parameter.         *)
(***************************************************************************)
EXTENDS Naturals, FiniteSetTheorems, WellFoundedInduction, TLAPS

\* A set of naturals that is not empty has a least element.
LEMMA LeastNatural ==
    ASSUME NEW T \in SUBSET Nat, T # {}
    PROVE  \E n \in T : \A m \in T : n <= m
  <1> DEFINE R == OpToRel(<, Nat)
  <1>1. IsWellFoundedOn(R, Nat)
    BY NatLessThanWellFounded
  <1> HIDE DEF R
  <1>2. \E x \in T : \A y \in T : ~(<<y, x>> \in R)
    BY <1>1, WFMin, Zenon
  <1>3. \A x, y \in Nat : x < y => <<x, y>> \in R
    BY DEF R, OpToRel
  <1>4. PICK x \in T : \A y \in T : ~(<<y, x>> \in R)
    BY <1>2
  <1>5. \A y \in T : x <= y
    <2> TAKE y \in T
    <2>1. ~(y < x) /\ x \in Nat /\ y \in Nat
      BY <1>3, <1>4
    <2> QED BY <2>1
  <1> QED BY <1>5

\* A set with 0 that is closed under successor is all of the naturals.
LEMMA NaturalsByInduction ==
    ASSUME NEW T \in SUBSET Nat, 0 \in T, \A n \in T : n + 1 \in T
    PROVE  T = Nat
  <1> SUFFICES ASSUME Nat \ T # {} PROVE FALSE
    OBVIOUS
  <1>1. PICK n \in Nat \ T : \A m \in Nat \ T : n <= m
    <2>1. Nat \ T \in SUBSET Nat
      OBVIOUS
    <2> QED BY <2>1, LeastNatural
  <1>2. n # 0 /\ n - 1 \in Nat /\ ~(n <= n - 1) /\ (n - 1) + 1 = n
    BY <1>1
  <1>3. n - 1 \in T
    BY <1>1, <1>2
  <1> QED BY <1>1, <1>2, <1>3

\* A finite set of naturals that is not empty has a greatest element.
LEMMA GreatestNatural ==
    ASSUME NEW S \in SUBSET Nat, S # {}, IsFiniteSet(S)
    PROVE  \E n \in S : \A m \in S : m <= n
  <1>0. PICK n \in Nat : ExistsSurjection(1..n, S)
    BY FS_NatSurjection
  <1>1. PICK f : f \in Surjection(1..n, S)
    BY <1>0, Zenon DEF ExistsSurjection
  <1>2. f \in [1..n -> S] /\ \A s \in S : \E i \in 1..n : f[i] = s
    BY <1>1 DEF Surjection
  <1> DEFINE Bounded(k) == \E b \in Nat : \A i \in 1..n : i <= k => f[i] <= b
             T == {k \in Nat : Bounded(k)}
  <1>3. 0 \in T
    BY <1>1
  <1>4. ASSUME NEW k \in T PROVE k + 1 \in T
    <2>1. PICK b \in Nat : \A i \in 1..n : i <= k => f[i] <= b
      BY <1>4
    <2>2. CASE k + 1 \in 1..n
      <3> DEFINE c == IF f[k + 1] <= b THEN b ELSE f[k + 1]
      <3>1. f[k + 1] \in Nat
        BY <1>2, <2>2
      <3>2. c \in Nat /\ b <= c /\ f[k + 1] <= c
        BY <3>1
      <3> HIDE DEF c
      <3>3. ASSUME NEW i \in 1..n, i <= k + 1 PROVE f[i] <= c
        <4>1. i <= k \/ i = k + 1
          BY <1>1, <3>3
        <4>2. f[i] \in Nat
          BY <1>2
        <4> QED BY <2>1, <3>2, <4>1, <4>2
      <3> QED BY <3>2, <3>3
    <2>3. CASE k + 1 \notin 1..n
      <3>1. \A i \in 1..n : i <= k + 1 => i <= k
        BY <1>1, <2>3
      <3> QED BY <2>1, <3>1
    <2> QED BY <2>2, <2>3
  <1>5. T = Nat
    <2>1. T \in SUBSET Nat
      OBVIOUS
    <2> HIDE DEF T
    <2> QED BY <1>3, <1>4, <2>1, NaturalsByInduction
  <1>6. PICK b \in Nat : \A i \in 1..n : i <= n => f[i] <= b
    <2> HIDE DEF T
    <2>1. n \in T
      BY <1>0, <1>5
    <2> QED BY <2>1 DEF T
  <1>7. \A s \in S : s <= b
    BY <1>1, <1>2, <1>6
  <1> DEFINE U == {u \in Nat : \A s \in S : s <= u}
  <1>8. PICK u \in U : \A v \in U : u <= v
    <2>1. U \in SUBSET Nat /\ b \in U
      BY <1>7
    <2> HIDE DEF U
    <2> QED BY <2>1, LeastNatural
  <1>9. u \in S
    <2> SUFFICES ASSUME u \notin S PROVE FALSE
      OBVIOUS
    <2>1. \A s \in S : s <= u /\ s # u /\ s \in Nat
      BY <1>8
    <2>2. u \in Nat /\ u # 0
      <3>1. PICK s \in S : s <= u /\ s # u /\ s \in Nat
        BY <2>1
      <3> QED BY <3>1
    <2>3. u - 1 \in Nat /\ \A s \in S : s <= u - 1
      BY <2>1, <2>2
    <2>4. u <= u - 1
      BY <1>8, <2>3
    <2> QED BY <2>2, <2>4
  <1> QED BY <1>8, <1>9

\* The first n iterates of step from a first value.
Iterates(S, first, step, n) ==
    {g \in [0..n -> S] :
        g[0] = first /\ \A i \in 0..n : i # n => g[i + 1] = step[i][g[i]]}

\* f is all of them.
IsIteration(f, S, first, step) ==
    f \in [Nat -> S] /\ f[0] = first /\ \A n \in Nat : f[n + 1] = step[n][f[n]]

\* What is iterated from a first value, by a step of each number, is a function.
LEMMA IteratesExist ==
    ASSUME NEW S, NEW first \in S, NEW step \in [Nat -> [S -> S]]
    PROVE  \E f : IsIteration(f, S, first, step)
  <1> DEFINE It(n) == Iterates(S, first, step, n)
  <1>1. \A n \in Nat : It(n) # {}
    <2> DEFINE T == {n \in Nat : It(n) # {}}
    <2>1. 0 \in T
      <3>1. [i \in 0..0 |-> first] \in It(0)
        BY DEF Iterates
      <3> QED BY <3>1
    <2>2. ASSUME NEW n \in T PROVE n + 1 \in T
      <3>1. PICK g : g \in It(n)
        BY <2>2
      <3>2. n \in Nat /\ n \in 0..n /\ n + 1 \in Nat
        BY <2>2
      <3> HIDE DEF T
      <3> DEFINE h == [i \in 0..(n + 1) |-> IF i = n + 1 THEN step[n][g[n]] ELSE g[i]]
      <3>3. /\ g \in [0..n -> S] /\ g[0] = first
            /\ \A i \in 0..n : i # n => g[i + 1] = step[i][g[i]]
        BY <3>1 DEF Iterates
      <3>4. g[n] \in S /\ step[n][g[n]] \in S
        BY <3>2, <3>3
      <3>5. \A i \in 0..(n + 1) : i # n + 1 => i \in 0..n
        BY <3>2
      <3>6. h \in [0..(n + 1) -> S] /\ h[0] = first
        BY <3>2, <3>3, <3>4, <3>5
      <3>7. ASSUME NEW i \in 0..(n + 1), i # n + 1 PROVE h[i + 1] = step[i][h[i]]
        <4>1. i \in 0..n /\ h[i] = g[i] /\ i + 1 \in 0..(n + 1)
          BY <3>2, <3>5, <3>7
        <4>2. CASE i = n
          BY <3>2, <4>1, <4>2
        <4>3. CASE i # n
          <5>1. i + 1 # n + 1 /\ g[i + 1] = step[i][g[i]]
            BY <3>2, <3>3, <4>1, <4>3
          <5> QED BY <4>1, <5>1
        <4> QED BY <4>2, <4>3
      <3> HIDE DEF h
      <3>8. h \in It(n + 1)
        BY <3>6, <3>7 DEF Iterates
      <3> QED BY <3>2, <3>8 DEF T
    <2>3. T \in SUBSET Nat
      OBVIOUS
    <2> HIDE DEF T
    <2>4. T = Nat
      BY <2>1, <2>2, <2>3, NaturalsByInduction
    <2> QED BY <2>4 DEF T
  <1> HIDE DEF It
  <1>2. \A i, n, m \in Nat : \A g \in It(n), h \in It(m) : i <= n /\ i <= m => g[i] = h[i]
    <2> DEFINE A == {i \in Nat : \A n, m \in Nat : \A g \in It(n), h \in It(m) :
                        i <= n /\ i <= m => g[i] = h[i]}
    <2>1. 0 \in A
      BY DEF It, Iterates
    <2>2. ASSUME NEW i \in A PROVE i + 1 \in A
      <3>1. i \in Nat /\ i + 1 \in Nat
        OBVIOUS
      <3>2. ASSUME NEW n \in Nat, NEW m \in Nat, NEW g \in It(n), NEW h \in It(m),
                   i + 1 <= n, i + 1 <= m
            PROVE  g[i + 1] = h[i + 1]
        <4>1. i \in 0..n /\ i \in 0..m /\ i # n /\ i # m /\ i <= n /\ i <= m
          BY <3>1, <3>2
        <4>2. g[i] = h[i]
          BY <4>1
        <4>3. g[i + 1] = step[i][g[i]] /\ h[i + 1] = step[i][h[i]]
          BY <4>1 DEF It, Iterates
        <4> QED BY <4>2, <4>3
      <3> QED BY <3>1, <3>2
    <2>3. A \in SUBSET Nat
      OBVIOUS
    <2> HIDE DEF A
    <2>4. A = Nat
      BY <2>1, <2>2, <2>3, NaturalsByInduction
    <2> QED BY <2>4 DEF A
  <1> DEFINE G == [n \in Nat |-> CHOOSE g \in It(n) : TRUE]
             f == [n \in Nat |-> G[n][n]]
  <1>3. \A n \in Nat : G[n] \in It(n)
    BY <1>1
  <1>4. \A n \in Nat : f[n] = G[n][n]
    OBVIOUS
  <1>5. f = [n \in Nat |-> f[n]]
    OBVIOUS
  <1> HIDE DEF G, f
  <1>6. ASSUME NEW n \in Nat
        PROVE  /\ G[n] \in [0..n -> S] /\ G[n][0] = first
               /\ \A i \in 0..n : i # n => G[n][i + 1] = step[i][G[n][i]]
    BY <1>3 DEF It, Iterates
  <1>7. ASSUME NEW n \in Nat PROVE f[n] \in S
    BY <1>4, <1>6
  <1>8. f[0] = first
    BY <1>4, <1>6
  <1>9. ASSUME NEW n \in Nat PROVE f[n + 1] = step[n][f[n]]
    <2>1. n + 1 \in Nat /\ n \in 0..(n + 1) /\ n # n + 1 /\ n <= n /\ n <= n + 1
      OBVIOUS
    <2>2. G[n + 1][n + 1] = step[n][G[n + 1][n]]
      BY <1>6, <2>1
    <2>3. G[n + 1][n] = G[n][n]
      BY <1>2, <1>3, <2>1
    <2> QED BY <1>4, <2>1, <2>2, <2>3
  <1>10. f \in [Nat -> S]
    BY <1>5, <1>7
  <1> QED BY <1>8, <1>9, <1>10 DEF IsIteration

=============================================================================
