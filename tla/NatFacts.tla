------------------------------ MODULE NatFacts ------------------------------
(***************************************************************************)
(* Induction and recursion over the natural numbers, for the proofs of the *)
(* other modules.  The induction is over a set of numbers instead of a     *)
(* predicate, so that it can be used as an ordinary lemma.                 *)
(***************************************************************************)
EXTENDS Integers, FiniteSetTheorems, WellFoundedInduction, TLAPS

\* A set of natural numbers that is not empty has a least element.
LEMMA NatMin ==
    ASSUME NEW T \in SUBSET Nat, T # {}
    PROVE  \E x \in T : \A y \in T : x <= y
<1>1. PICK x \in T : \A y \in T : ~(<<y, x>> \in OpToRel(<, Nat))
  BY NatLessThanWellFounded, WFMin
<1>2. ASSUME NEW y \in T PROVE x <= y
  <2>1. ~(<<y, x>> \in {ss \in Nat \X Nat : ss[1] < ss[2]})
    BY <1>1 DEF OpToRel
  <2>. QED
    BY <2>1
<1>. QED
  BY <1>2

\* A set that holds 0 and with each number the next holds every number.
LEMMA NatInd ==
    ASSUME NEW G \in SUBSET Nat, 0 \in G, \A n \in G : n + 1 \in G
    PROVE  G = Nat
<1>. SUFFICES ASSUME Nat \ G # {} PROVE FALSE
  OBVIOUS
<1>1. PICK x \in Nat \ G : \A y \in Nat \ G : x <= y
  BY NatMin
<1>2. x - 1 \in Nat /\ x - 1 \in G
  BY <1>1
<1>3. (x - 1) + 1 \in G
  BY <1>2
<1>. QED
  BY <1>1, <1>3

(***************************************************************************)
(* A recursive function over the natural numbers, each value a function of *)
(* the one before, exists.  Its initial segments exist by induction and    *)
(* agree with each other, and the function is made of their last values.   *)
(***************************************************************************)
\* There is a function that satisfies the recursive equation.
LEMMA LevelsExist ==
    ASSUME NEW S, NEW F, NEW T, S \in T, F \in [T -> T]
    PROVE  \E g \in [Nat -> T] : \A n \in Nat : g[n] = IF n = 0 THEN S ELSE F[g[n - 1]]
<1>. DEFINE Pre(n) == {g \in [0 .. n -> T] : \A i \in 0 .. n : g[i] = IF i = 0 THEN S ELSE F[g[i - 1]]}
            Good == {n \in Nat : Pre(n) # {}}
<1>1. Good = Nat
  <2>1. 0 \in Good
    <3>1. [i \in 0 .. 0 |-> S] \in Pre(0)
      OBVIOUS
    <3>. QED
      BY <3>1
  <2>2. ASSUME NEW n \in Good PROVE n + 1 \in Good
    <3>1. PICK g \in [0 .. n -> T] : \A i \in 0 .. n : g[i] = IF i = 0 THEN S ELSE F[g[i - 1]]
      OBVIOUS
    <3>. DEFINE h == [i \in 0 .. n + 1 |-> IF i = n + 1 THEN F[g[n]] ELSE g[i]]
    <3>2. n \in Nat /\ g[n] \in T
      OBVIOUS
    <3>3. ASSUME NEW i \in 0 .. n + 1 PROVE h[i] \in T /\ h[i] = IF i = 0 THEN S ELSE F[h[i - 1]]
      <4>1. CASE i = n + 1
        BY <4>1, <3>2
      <4>2. CASE i # n + 1
        <5>1. i \in 0 .. n /\ (i # 0 => i - 1 \in 0 .. n + 1 /\ i - 1 # n + 1)
          BY <4>2, <3>2
        <5>2. h[i] = g[i] /\ (i # 0 => h[i - 1] = g[i - 1])
          BY <5>1, <4>2
        <5>. QED
          BY <5>1, <5>2, <3>1
      <4>. QED
        BY <4>1, <4>2
    <3>4. h \in [0 .. n + 1 -> T]
      BY <3>3
    <3>. HIDE DEF h
    <3>5. h \in Pre(n + 1)
      BY <3>3, <3>4
    <3>. QED
      BY <3>2, <3>5
  <2>. HIDE DEF Good
  <2>3. Good \in SUBSET Nat
    BY DEF Good
  <2>. QED
    BY <2>1, <2>2, <2>3, NatInd
<1>2. ASSUME NEW n \in Nat, NEW m \in Nat, n <= m, NEW g \in Pre(n), NEW h \in Pre(m)
      PROVE  g[n] = h[n]
  <2>. DEFINE Same == {i \in Nat : i <= n => g[i] = h[i]}
  <2>1. 0 \in Same
    BY <1>2
  <2>2. ASSUME NEW i \in Same PROVE i + 1 \in Same
    <3>. SUFFICES ASSUME i + 1 <= n PROVE g[i + 1] = h[i + 1]
      OBVIOUS
    <3>1. i + 1 \in 0 .. n /\ i + 1 \in 0 .. m /\ i + 1 # 0 /\ (i + 1) - 1 = i /\ g[i] = h[i]
      BY <1>2
    <3>. QED
      BY <3>1, <1>2
  <2>. HIDE DEF Same
  <2>3. Same = Nat
    <3>1. Same \in SUBSET Nat
      BY DEF Same
    <3>. QED
      BY <2>1, <2>2, <3>1, NatInd
  <2>. QED
    BY <2>3 DEF Same
<1>. DEFINE lev == [n \in Nat |-> (CHOOSE g \in Pre(n) : TRUE)[n]]
<1>3. ASSUME NEW n \in Nat PROVE (CHOOSE g \in Pre(n) : TRUE) \in Pre(n)
  <2>1. Pre(n) # {}
    BY <1>1
  <2>. QED
    BY <2>1
<1>4. ASSUME NEW n \in Nat PROVE lev[n] \in T
  BY <1>3
<1>5. ASSUME NEW n \in Nat PROVE lev[n] = IF n = 0 THEN S ELSE F[lev[n - 1]]
  <2>. DEFINE h == CHOOSE g \in Pre(n) : TRUE
  <2>1. h \in Pre(n) /\ lev[n] = h[n]
    BY <1>3
  <2>2. CASE n = 0
    BY <2>1, <2>2
  <2>3. CASE n # 0
    <3>. DEFINE g0 == CHOOSE g \in Pre(n - 1) : TRUE
    <3>1. n - 1 \in Nat /\ n - 1 <= n
      BY <2>3
    <3>2. g0 \in Pre(n - 1) /\ lev[n - 1] = g0[n - 1]
      BY <3>1, <1>3
    <3>. HIDE DEF g0, h, lev
    <3>3. g0[n - 1] = h[n - 1]
      BY <3>1, <3>2, <2>1, <1>2
    <3>4. h[n] = F[h[n - 1]]
      BY <2>1, <2>3
    <3>. QED
      BY <3>2, <3>3, <3>4, <2>1, <2>3
  <2>. QED
    BY <2>2, <2>3
<1>6. lev \in [Nat -> T]
  BY <1>4
<1>. HIDE DEF lev
<1>. QED
  BY <1>5, <1>6

(***************************************************************************)
(* Sets that grow inside a finite set V, each a function of the one        *)
(* before: as long as they grow their cardinality is at least their index, *)
(* so they have stopped growing after Cardinality(V) steps.                *)
(***************************************************************************)
\* The set reached after Cardinality(V) steps is a fixed point.
LEMMA LevelsFixed ==
    ASSUME NEW V, IsFiniteSet(V), NEW F \in [SUBSET V -> SUBSET V],
           \A T \in SUBSET V : T \subseteq F[T],
           NEW R \in [Nat -> SUBSET V], \A n \in Nat : R[n + 1] = F[R[n]]
    PROVE  /\ Cardinality(V) \in Nat /\ R[0] \subseteq R[Cardinality(V)]
           /\ F[R[Cardinality(V)]] = R[Cardinality(V)]
<1>. DEFINE N == Cardinality(V)
<1>1. N \in Nat
  BY FS_CardinalityType
<1>2. ASSUME NEW n \in Nat
      PROVE  /\ R[n] \in SUBSET V /\ IsFiniteSet(R[n]) /\ Cardinality(R[n]) \in Nat
             /\ Cardinality(R[n]) <= N /\ (Cardinality(R[n]) = N => R[n] = V)
  <2>1. R[n] \in SUBSET V
    OBVIOUS
  <2>2. IsFiniteSet(R[n])
    BY <2>1, FS_Subset
  <2>. QED
    BY <2>1, <2>2, FS_Subset, FS_CardinalityType
<1>. HIDE DEF N
<1>3. R[0] \subseteq R[N]
  <2>. DEFINE Good == {n \in Nat : R[0] \subseteq R[n]}
  <2>1. 0 \in Good
    OBVIOUS
  <2>2. ASSUME NEW n \in Good PROVE n + 1 \in Good
    <3>1. R[n] \subseteq F[R[n]] /\ R[n + 1] = F[R[n]]
      BY <1>2
    <3>. QED
      BY <3>1
  <2>3. Good \in SUBSET Nat
    OBVIOUS
  <2>. HIDE DEF Good
  <2>4. Good = Nat
    BY <2>1, <2>2, <2>3, NatInd
  <2>. QED
    BY <2>4, <1>1 DEF Good
<1>4. F[R[N]] = R[N]
  <2>. DEFINE Good == {n \in Nat : F[R[n]] = R[n] \/ Cardinality(R[n]) >= n}
  <2>1. 0 \in Good
    BY <1>2
  <2>2. ASSUME NEW n \in Good PROVE n + 1 \in Good
    <3>1. n \in Nat /\ n + 1 \in Nat /\ R[n + 1] = F[R[n]] /\ R[n] \subseteq F[R[n]]
      BY <1>2
    <3>2. CASE F[R[n]] = R[n]
      BY <3>1, <3>2
    <3>3. CASE F[R[n]] # R[n]
      <4>1. R[n] \subseteq R[n + 1] /\ R[n + 1] # R[n]
        BY <3>1, <3>3
      <4>2. /\ IsFiniteSet(R[n + 1])
            /\ Cardinality(R[n + 1]) \in Nat /\ Cardinality(R[n]) \in Nat
        BY <3>1, <1>2
      <4>3. Cardinality(R[n]) <= Cardinality(R[n + 1])
              /\ Cardinality(R[n + 1]) # Cardinality(R[n])
        BY <4>1, <4>2, FS_Subset
      <4>4. Cardinality(R[n]) >= n
        BY <3>3
      <4>5. Cardinality(R[n + 1]) >= n + 1
        <5>1. \A a, b \in Nat : a <= b /\ b # a /\ a >= n => b >= n + 1
          BY <3>1
        <5>. QED
          BY <5>1, <4>2, <4>3, <4>4
      <4>. QED
        BY <4>5, <3>1
    <3>. QED
      BY <3>2, <3>3
  <2>3. Good \in SUBSET Nat
    OBVIOUS
  <2>. HIDE DEF Good
  <2>4. Good = Nat
    BY <2>1, <2>2, <2>3, NatInd
  <2>5. F[R[N]] = R[N] \/ Cardinality(R[N]) >= N
    BY <2>4, <1>1 DEF Good
  <2>6. ASSUME Cardinality(R[N]) >= N PROVE F[R[N]] = R[N]
    <3>1. R[N] = V
      <4>1. Cardinality(R[N]) \in Nat /\ Cardinality(R[N]) <= N /\ (Cardinality(R[N]) = N => R[N] = V)
        BY <1>1, <1>2
      <4>2. \A a \in Nat : a <= N /\ a >= N => a = N
        BY <1>1
      <4>. QED
        BY <2>6, <4>1, <4>2
    <3>2. F[V] \in SUBSET V /\ V \subseteq F[V]
      OBVIOUS
    <3>. QED
      BY <3>1, <3>2
  <2>. QED
    BY <2>5, <2>6
<1>. QED
  BY <1>1, <1>3, <1>4 DEF N
===========================================================================
