-------------------------- MODULE FiniteRecursion --------------------------
(***************************************************************************)
(* Induction over the natural numbers, stated with a set in place of a     *)
(* predicate, and what it gives for a function defined by recursion on     *)
(* 0..n and for the sum of a function over a finite set.  The proofs about *)
(* running totals rest on it.                                              *)
(***************************************************************************)
EXTENDS Integers, TLAPS, WellFoundedInduction, FiniteSetTheorems, Functions

LEMMA LeastNat ==
  ASSUME NEW T, T \subseteq Nat, T # {}
  PROVE  \E x \in T : \A y \in T : x <= y
<1> DEFINE R == OpToRel(<, Nat)
<1>1. IsWellFoundedOn(R, Nat)
  BY NatLessThanWellFounded
<1>2. PICK x \in T : \A y \in T : ~ (<<y, x>> \in R)
  <2> HIDE DEF R
  <2>1. QED
    BY <1>1, WFMin
<1>3. \A y \in T : ~ (y < x)
  BY <1>2 DEF OpToRel
<1> HIDE DEF R
<1>4. \A y \in T : x <= y
  BY <1>3
<1>5. QED
  BY <1>4

LEMMA SetInduction ==
  ASSUME NEW S, 0 \in S, \A n \in Nat : n \in S => n + 1 \in S
  PROVE  \A n \in Nat : n \in S
<1> SUFFICES ASSUME NEW n \in Nat, n \notin S PROVE FALSE
  OBVIOUS
<1>1. PICK x \in Nat \ S : \A y \in Nat \ S : x <= y
  BY LeastNat
<1>2. x # 0 /\ x - 1 \in Nat
  BY <1>1
<1>3. x - 1 \in S
  BY <1>1, <1>2
<1>4. (x - 1) + 1 \in S
  BY <1>2, <1>3
<1>5. QED
  BY <1>1, <1>4

(* Induction up to a bound.                                                *)
LEMMA BoundedInduction ==
  ASSUME NEW m \in Nat, NEW S, 0 \in S,
         \A n \in 0..(m - 1) : n \in S => n + 1 \in S
  PROVE  \A n \in 0..m : n \in S
<1> DEFINE U == {n \in Nat : n > m \/ n \in S}
<1>1. 0 \in U
  OBVIOUS
<1>2. \A n \in Nat : n \in U => n + 1 \in U
  OBVIOUS
<1>3. \A n \in Nat : n \in U
  <2> HIDE DEF U
  <2>1. QED
    BY <1>1, <1>2, SetInduction
<1>4. QED
  BY <1>3

(* f is the function with f[0] = base and f[k] = step[k, f[k - 1]].        *)
IsRecursion(f, n, base, step) ==
  f = [k \in 0..n |-> IF k = 0 THEN base ELSE step[<<k, f[k - 1]>>]]

(* Such a function exists.                                                 *)
LEMMA RecursionExists ==
  ASSUME NEW m \in Nat, NEW V, NEW base \in V, NEW step \in [(1..m) \X V -> V]
  PROVE  \E f \in [0..m -> V] : IsRecursion(f, m, base, step)
<1> DEFINE S == {n \in Nat : \E f \in [0..n -> V] : IsRecursion(f, n, base, step)}
<1>1. 0 \in S
  <2> DEFINE f == [k \in 0..0 |-> base]
  <2>1. f \in [0..0 -> V] /\ IsRecursion(f, 0, base, step)
    BY DEF IsRecursion
  <2>2. QED
    BY <2>1
<1>2. \A n \in 0..(m - 1) : n \in S => n + 1 \in S
  <2> SUFFICES ASSUME NEW n \in 0..(m - 1), n \in S PROVE n + 1 \in S
    OBVIOUS
  <2>1. PICK f \in [0..n -> V] : IsRecursion(f, n, base, step)
    OBVIOUS
  <2> DEFINE g == [k \in 0..(n + 1) |-> IF k <= n THEN f[k] ELSE step[<<n + 1, f[n]>>]]
  <2>2. step[<<n + 1, f[n]>>] \in V
    OBVIOUS
  <2>3. g \in [0..(n + 1) -> V]
    BY <2>2
  <2>4. \A k \in 0..(n + 1) : g[k] = IF k = 0 THEN base ELSE step[<<k, g[k - 1]>>]
    <3> SUFFICES ASSUME NEW k \in 0..(n + 1)
                 PROVE  g[k] = IF k = 0 THEN base ELSE step[<<k, g[k - 1]>>]
      OBVIOUS
    <3>1. CASE k = n + 1
      <4>1. k # 0 /\ k - 1 = n /\ g[n] = f[n]
        BY <3>1
      <4>2. g[k] = step[<<k, f[n]>>]
        BY <3>1
      <4>3. QED
        BY <4>1, <4>2
    <3>2. CASE k \in 0..n
      BY <2>1, <3>2 DEF IsRecursion
    <3>3. QED
      BY <3>1, <3>2
  <2>5. IsRecursion(g, n + 1, base, step)
    BY <2>3, <2>4 DEF IsRecursion
  <2>6. QED
    BY <2>3, <2>5
<1>3. m \in S
  <2> HIDE DEF S
  <2>1. QED
    BY <1>1, <1>2, BoundedInduction
<1>4. QED
  BY <1>3

-----------------------------------------------------------------------------
(* Prefix sums of a sequence of naturals, given as a function on 1..n.     *)
IsPrefixSum(p, n, a) ==
  p = [k \in 0..n |-> IF k = 0 THEN 0 ELSE p[k - 1] + a[k]]

LEMMA PrefixSumExists ==
  ASSUME NEW n \in Nat, NEW a \in [1..n -> Nat]
  PROVE  \E p \in [0..n -> Nat] : IsPrefixSum(p, n, a)
<1> DEFINE step == [x \in (1..n) \X Nat |-> x[2] + a[x[1]]]
<1>1. step \in [(1..n) \X Nat -> Nat]
  OBVIOUS
<1>2. \A k \in 1..n, v \in Nat : step[<<k, v>>] = v + a[k]
  OBVIOUS
<1> HIDE DEF step
<1>3. PICK f \in [0..n -> Nat] : IsRecursion(f, n, 0, step)
  BY <1>1, RecursionExists
<1>4. \A k \in 0..n : f[k] = IF k = 0 THEN 0 ELSE step[<<k, f[k - 1]>>]
  BY <1>3 DEF IsRecursion
<1>5. \A k \in 1..n : f[k - 1] \in Nat
  OBVIOUS
<1>6. ASSUME NEW k \in 0..n
      PROVE  f[k] = IF k = 0 THEN 0 ELSE f[k - 1] + a[k]
  <2>1. CASE k = 0
    BY <1>4, <2>1
  <2>2. CASE k # 0
    <3>1. k \in 1..n
      BY <2>2
    <3>2. f[k] = step[<<k, f[k - 1]>>]
      BY <1>4, <3>1
    <3>3. step[<<k, f[k - 1]>>] = f[k - 1] + a[k]
      BY <1>2, <1>5, <3>1
    <3>4. QED
      BY <2>2, <3>2, <3>3
  <2>3. QED
    BY <2>1, <2>2
<1>7. IsPrefixSum(f, n, a)
  BY <1>6 DEF IsPrefixSum
<1>8. QED
  BY <1>7

LEMMA PrefixSumLemma ==
  ASSUME NEW n \in Nat, NEW a \in [1..n -> Nat], NEW p, IsPrefixSum(p, n, a)
  PROVE  /\ p \in [0..n -> Nat]
         /\ p[0] = 0
         /\ \A k \in 1..n : p[k] = p[k - 1] + a[k]
<1>1. p[0] = 0 /\ \A k \in 1..n : p[k] = p[k - 1] + a[k]
  BY DEF IsPrefixSum
<1> DEFINE S == {k \in Nat : p[k] \in Nat}
<1>2. 0 \in S
  BY <1>1
<1>3. \A k \in 0..(n - 1) : k \in S => k + 1 \in S
  <2> SUFFICES ASSUME NEW k \in 0..(n - 1), p[k] \in Nat PROVE p[k + 1] \in Nat
    OBVIOUS
  <2>1. k + 1 \in 1..n /\ (k + 1) - 1 = k
    OBVIOUS
  <2>2. p[k + 1] = p[k] + a[k + 1]
    BY <1>1, <2>1
  <2>3. QED
    BY <2>1, <2>2
<1>4. \A k \in 0..n : k \in S
  <2> HIDE DEF S
  <2>1. QED
    BY <1>2, <1>3, BoundedInduction
<1>5. p \in [0..n -> Nat]
  BY <1>4 DEF IsPrefixSum
<1>6. QED
  BY <1>1, <1>5

(* The sums never go down.                                                 *)
LEMMA PrefixSumMonotone ==
  ASSUME NEW n \in Nat, NEW a \in [1..n -> Nat], NEW p, IsPrefixSum(p, n, a),
         NEW i \in 0..n, NEW j \in 0..n, i <= j
  PROVE  p[i] <= p[j]
<1>1. /\ p \in [0..n -> Nat]
      /\ \A k \in 1..n : p[k] = p[k - 1] + a[k]
  BY PrefixSumLemma
<1> DEFINE S == {k \in Nat : i <= k => p[i] <= p[k]}
<1>2. 0 \in S
  BY <1>1
<1>3. \A k \in 0..(n - 1) : k \in S => k + 1 \in S
  <2> SUFFICES ASSUME NEW k \in 0..(n - 1), k \in S, i <= k + 1
               PROVE  p[i] <= p[k + 1]
    OBVIOUS
  <2>1. k + 1 \in 1..n /\ (k + 1) - 1 = k
    OBVIOUS
  <2>2. p[k + 1] = p[k] + a[k + 1]
    BY <1>1, <2>1
  <2>3. QED
    BY <1>1, <2>1, <2>2
<1>4. j \in S
  <2> HIDE DEF S
  <2>1. QED
    BY <1>2, <1>3, BoundedInduction
<1>5. QED
  BY <1>4

(* The hypotheses and conclusions that quantify are named, so that the     *)
(* provers can match them where the lemmas are used.                       *)
IsSegment(b, a, e, m) == \A k \in 1..m : b[k] = a[e + k]

IsShifted(q, p, e, m) == \A k \in 0..m : q[k] = p[e + k] - p[e]

(* The sums of a segment that starts after e entries: they are shifted by  *)
(* the e-th sum.                                                           *)
LEMMA PrefixSumSuffix ==
  ASSUME NEW n \in Nat, NEW a \in [1..n -> Nat], NEW p, IsPrefixSum(p, n, a),
         NEW e \in 0..n, NEW m \in Nat, e + m <= n,
         NEW b \in [1..m -> Nat], IsSegment(b, a, e, m),
         NEW q, IsPrefixSum(q, m, b)
  PROVE  IsShifted(q, p, e, m)
<1>1. /\ p \in [0..n -> Nat]
      /\ \A k \in 1..n : p[k] = p[k - 1] + a[k]
  BY PrefixSumLemma
<1>2. /\ q \in [0..m -> Nat] /\ q[0] = 0
      /\ \A k \in 1..m : q[k] = q[k - 1] + b[k]
  BY PrefixSumLemma
<1> DEFINE S == {k \in Nat : q[k] = p[e + k] - p[e]}
<1>3. 0 \in S
  BY <1>1, <1>2
<1>4. \A k \in 0..(m - 1) : k \in S => k + 1 \in S
  <2> SUFFICES ASSUME NEW k \in 0..(m - 1), q[k] = p[e + k] - p[e]
               PROVE  q[k + 1] = p[e + (k + 1)] - p[e]
    OBVIOUS
  <2>1. /\ k + 1 \in 1..m /\ (k + 1) - 1 = k
        /\ e + (k + 1) \in 1..n /\ (e + (k + 1)) - 1 = e + k
        /\ e + k \in 0..n
    OBVIOUS
  <2>2. q[k + 1] = q[k] + a[e + (k + 1)]
    BY <1>2, <2>1 DEF IsSegment
  <2>3. p[e + (k + 1)] = p[e + k] + a[e + (k + 1)]
    BY <1>1, <2>1
  <2>4. QED
    BY <1>1, <2>1, <2>2, <2>3
<1>5. \A k \in 0..m : k \in S
  <2> HIDE DEF S
  <2>1. QED
    BY <1>3, <1>4, BoundedInduction
<1>6. QED
  BY <1>5 DEF IsShifted

IsExtension(b, a, n, v) == b[n + 1] = v /\ \A k \in 1..n : b[k] = a[k]

IsSumExtension(q, p, n, v) ==
  q[n + 1] = p[n] + v /\ \A k \in 0..n : q[k] = p[k]

(* Appending an entry adds one sum and keeps the others.                   *)
LEMMA PrefixSumAppend ==
  ASSUME NEW n \in Nat, NEW a \in [1..n -> Nat], NEW p, IsPrefixSum(p, n, a),
         NEW v \in Nat, NEW b \in [1..(n + 1) -> Nat], IsExtension(b, a, n, v),
         NEW q, IsPrefixSum(q, n + 1, b)
  PROVE  IsSumExtension(q, p, n, v)
<1>1. p[0] = 0 /\ \A k \in 1..n : p[k] = p[k - 1] + a[k]
  BY PrefixSumLemma
<1>2. q[0] = 0 /\ \A k \in 1..(n + 1) : q[k] = q[k - 1] + b[k]
  <2> DEFINE m == n + 1
  <2>1. m \in Nat /\ b \in [1..m -> Nat] /\ IsPrefixSum(q, m, b)
    OBVIOUS
  <2> HIDE DEF m
  <2>2. q[0] = 0 /\ \A k \in 1..m : q[k] = q[k - 1] + b[k]
    BY <2>1, PrefixSumLemma
  <2>3. QED
    BY <2>2 DEF m
<1> DEFINE S == {k \in Nat : q[k] = p[k]}
<1>3. 0 \in S
  BY <1>1, <1>2
<1>4. \A k \in 0..(n - 1) : k \in S => k + 1 \in S
  <2> SUFFICES ASSUME NEW k \in 0..(n - 1), q[k] = p[k] PROVE q[k + 1] = p[k + 1]
    OBVIOUS
  <2>1. k + 1 \in 1..n /\ k + 1 \in 1..(n + 1) /\ (k + 1) - 1 = k
    OBVIOUS
  <2>2. QED
    BY <1>1, <1>2, <2>1 DEF IsExtension
<1>5. \A k \in 0..n : k \in S
  <2> HIDE DEF S
  <2>1. QED
    BY <1>3, <1>4, BoundedInduction
<1>6. n \in 0..n /\ n + 1 \in 1..(n + 1) /\ (n + 1) - 1 = n
  OBVIOUS
<1>7. QED
  BY <1>2, <1>5, <1>6 DEF IsExtension, IsSumExtension

-----------------------------------------------------------------------------
(* The sum of a function over a finite set.                                *)

(* f has integer values on S.                                              *)
IntOn(f, S) == \A x \in S : f[x] \in Int

(* F sums f over the subsets of S, taking elements in the order CHOOSE     *)
(* gives.                                                                  *)
Some(s) == CHOOSE x \in s : TRUE
SumStep(F, f, s) == IF s = {} THEN 0 ELSE f[Some(s)] + F[s \ {Some(s)}]
IsSum(F, f, S) == F = [s \in SUBSET S |-> SumStep(F, f, s)]

LEMMA SumDef ==
  ASSUME NEW f, NEW S
  PROVE  SumFunctionOnSet(f, S) = (CHOOSE F : IsSum(F, f, S))[S]
  BY DEF SumFunctionOnSet, FoldFunctionOnSet, MapThenFoldSet, IsSum, SumStep, Some

LEMMA SomeIn == ASSUME NEW s, s # {} PROVE Some(s) \in s
  BY DEF Some

(* Induction over the subsets of a finite set.                             *)
LEMMA SubsetInduction ==
  ASSUME NEW S, IsFiniteSet(S), NEW T, {} \in T,
         \A s \in SUBSET S : (\A x \in s : s \ {x} \in T) => s \in T
  PROVE  \A s \in SUBSET S : s \in T
<1> DEFINE U == {n \in Nat : \A s \in SUBSET S : Cardinality(s) = n => s \in T}
<1>1. 0 \in U
  <2>1. ASSUME NEW s \in SUBSET S, Cardinality(s) = 0 PROVE s \in T
    BY <2>1, FS_Subset, FS_EmptySet
  <2>2. QED
    BY <2>1
<1>2. \A n \in Nat : n \in U => n + 1 \in U
  <2> SUFFICES ASSUME NEW n \in Nat, n \in U, NEW s \in SUBSET S, Cardinality(s) = n + 1
               PROVE  s \in T
    OBVIOUS
  <2>1. IsFiniteSet(s)
    BY FS_Subset
  <2>2. ASSUME NEW x \in s PROVE s \ {x} \in T
    <3>1. Cardinality(s \ {x}) = Cardinality(s) - 1
      BY <2>1, <2>2, FS_RemoveElement, Zenon
    <3>2. Cardinality(s \ {x}) = n /\ s \ {x} \in SUBSET S
      BY <3>1
    <3>3. QED
      BY <3>2
  <2>3. QED
    BY <2>2
<1>3. \A n \in Nat : n \in U
  <2> HIDE DEF U
  <2>1. QED
    BY <1>1, <1>2, SetInduction
<1>4. QED
  <2> SUFFICES ASSUME NEW s \in SUBSET S PROVE s \in T
    OBVIOUS
  <2>1. Cardinality(s) \in Nat
    BY FS_Subset, FS_CardinalityType
  <2>2. QED
    BY <1>3, <2>1

LEMMA SumExists ==
  ASSUME NEW S, IsFiniteSet(S), NEW f, IntOn(f, S)
  PROVE  \E F \in [SUBSET S -> Int] : IsSum(F, f, S)
<1> DEFINE Small(n) == {s \in SUBSET S : Cardinality(s) <= n}
           U == {n \in Nat : \E F \in [Small(n) -> Int] :
                   \A s \in Small(n) : F[s] = SumStep(F, f, s)}
<1>0. ASSUME NEW s \in SUBSET S
      PROVE  /\ IsFiniteSet(s) /\ Cardinality(s) \in Nat
             /\ s # {} => /\ f[Some(s)] \in Int /\ s \ {Some(s)} \in SUBSET S
                          /\ Cardinality(s \ {Some(s)}) = Cardinality(s) - 1
  <2>1. IsFiniteSet(s) /\ Cardinality(s) \in Nat
    BY FS_Subset, FS_CardinalityType
  <2>2. ASSUME s # {}
        PROVE  /\ f[Some(s)] \in Int /\ s \ {Some(s)} \in SUBSET S
               /\ Cardinality(s \ {Some(s)}) = Cardinality(s) - 1
    BY <2>1, <2>2, SomeIn, FS_RemoveElement DEF IntOn
  <2>3. QED
    BY <2>1, <2>2
<1>1. 0 \in U
  <2> DEFINE F == [s \in Small(0) |-> 0]
  <2>1. ASSUME NEW s \in Small(0) PROVE s = {}
    <3>1. s \in SUBSET S /\ Cardinality(s) <= 0
      OBVIOUS
    <3>2. IsFiniteSet(s) /\ Cardinality(s) \in Nat
      BY <1>0, <3>1
    <3>3. QED
      BY <3>1, <3>2, FS_EmptySet
  <2>2. \A s \in Small(0) : F[s] = SumStep(F, f, s)
    BY <2>1 DEF SumStep
  <2>3. F \in [Small(0) -> Int]
    OBVIOUS
  <2>4. QED
    BY <2>2, <2>3
<1>2. \A n \in Nat : n \in U => n + 1 \in U
  <2> SUFFICES ASSUME NEW n \in Nat, n \in U PROVE n + 1 \in U
    OBVIOUS
  <2>1. PICK F \in [Small(n) -> Int] : \A s \in Small(n) : F[s] = SumStep(F, f, s)
    OBVIOUS
  <2> DEFINE G == [s \in Small(n + 1) |-> SumStep(F, f, s)]
  <2>2. ASSUME NEW s \in Small(n + 1), s # {}
        PROVE  f[Some(s)] \in Int /\ s \ {Some(s)} \in Small(n)
    BY <1>0, <2>2
  <2>3. ASSUME NEW s \in Small(n) PROVE s \in Small(n + 1) /\ G[s] = F[s]
    <3>1. s \in Small(n + 1)
      <4>1. s \in SUBSET S /\ Cardinality(s) <= n
        OBVIOUS
      <4>2. Cardinality(s) \in Nat
        BY <1>0, <4>1
      <4>3. QED
        BY <4>1, <4>2
    <3> HIDE DEF Small
    <3>2. QED
      BY <2>1, <3>1
  <2>4. ASSUME NEW s \in Small(n + 1) PROVE SumStep(F, f, s) \in Int
    BY <2>2 DEF SumStep
  <2>5. G \in [Small(n + 1) -> Int]
    BY <2>4
  <2>6. ASSUME NEW s \in Small(n + 1) PROVE G[s] = SumStep(G, f, s)
    <3> HIDE DEF Small
    <3>1. CASE s = {}
      BY <3>1 DEF SumStep
    <3>2. CASE s # {}
      <4>1. G[s \ {Some(s)}] = F[s \ {Some(s)}]
        BY <2>2, <2>3, <3>2
      <4>2. G[s] = SumStep(F, f, s)
        OBVIOUS
      <4> HIDE DEF G
      <4>3. QED
        BY <4>1, <4>2 DEF SumStep
    <3>3. QED
      BY <3>1, <3>2
  <2>7. QED
    <3> HIDE DEF Small, G
    <3>1. QED
      BY <2>5, <2>6
<1>3. \A n \in Nat : n \in U
  <2> HIDE DEF U
  <2>1. QED
    BY <1>1, <1>2, SetInduction
<1>4. Small(Cardinality(S)) = SUBSET S /\ Cardinality(S) \in Nat
  <2>1. \A s \in SUBSET S : Cardinality(s) <= Cardinality(S)
    BY FS_Subset
  <2>2. QED
    BY <2>1, FS_CardinalityType
<1>5. PICK F \in [SUBSET S -> Int] : \A s \in SUBSET S : F[s] = SumStep(F, f, s)
  <2>1. Cardinality(S) \in U
    BY <1>3, <1>4
  <2> HIDE DEF Small
  <2>2. QED
    BY <1>4, <2>1
<1>6. IsSum(F, f, S)
  BY <1>5 DEF IsSum
<1>7. QED
  BY <1>6

(* Two sums agree on a set on which the functions summed agree.            *)
LEMMA SumAgree ==
  ASSUME NEW S, IsFiniteSet(S), NEW f, NEW g, NEW A, NEW B, S \subseteq A, S \subseteq B,
         \A x \in S : f[x] = g[x],
         NEW F, IsSum(F, f, A), NEW G, IsSum(G, g, B)
  PROVE  F[S] = G[S]
<1> DEFINE T == {s \in SUBSET S : F[s] = G[s]}
<1>0. ASSUME NEW s \in SUBSET S
      PROVE  F[s] = SumStep(F, f, s) /\ G[s] = SumStep(G, g, s)
  <2>1. s \in SUBSET A /\ s \in SUBSET B
    OBVIOUS
  <2>2. F[s] = SumStep(F, f, s)
    BY <2>1 DEF IsSum
  <2>3. G[s] = SumStep(G, g, s)
    BY <2>1 DEF IsSum
  <2>4. QED
    BY <2>2, <2>3
<1>1. {} \in T
  BY <1>0 DEF SumStep
<1>2. ASSUME NEW s \in SUBSET S, \A x \in s : s \ {x} \in T PROVE s \in T
  <2>1. CASE s = {}
    BY <1>1, <2>1
  <2>2. CASE s # {}
    <3>1. Some(s) \in s /\ f[Some(s)] = g[Some(s)]
      BY <2>2, SomeIn
    <3>2. F[s \ {Some(s)}] = G[s \ {Some(s)}]
      BY <1>2, <3>1
    <3>3. QED
      BY <1>0, <2>2, <3>1, <3>2 DEF SumStep
  <2>3. QED
    BY <2>1, <2>2
<1>3. \A s \in SUBSET S : s \in T
  <2> HIDE DEF T
  <2>1. QED
    BY <1>1, <1>2, SubsetInduction
<1>4. QED
  BY <1>3

TakesAny(F, f, S) == \A s \in SUBSET S : \A x \in s : F[s] = f[x] + F[s \ {x}]

(* A sum does not depend on the order in which elements are taken.         *)
LEMMA SumOrder ==
  ASSUME NEW S, IsFiniteSet(S), NEW f, IntOn(f, S),
         NEW F \in [SUBSET S -> Int], IsSum(F, f, S)
  PROVE  TakesAny(F, f, S)
<1> DEFINE T == {s \in SUBSET S : \A x \in s : F[s] = f[x] + F[s \ {x}]}
<1>0. ASSUME NEW s \in SUBSET S, s # {}
      PROVE  Some(s) \in s /\ F[s] = f[Some(s)] + F[s \ {Some(s)}]
  <2>1. F[s] = SumStep(F, f, s)
    BY DEF IsSum
  <2>2. QED
    BY <1>0, <2>1, SomeIn DEF SumStep
<1>1. {} \in T
  OBVIOUS
<1>2. ASSUME NEW s \in SUBSET S, \A x \in s : s \ {x} \in T PROVE s \in T
  <2> SUFFICES ASSUME NEW x \in s, x # Some(s) PROVE F[s] = f[x] + F[s \ {x}]
    BY <1>0
  <2> DEFINE c == Some(s)
  <2>1. c \in s /\ F[s] = f[c] + F[s \ {c}]
    BY <1>0
  <2>2. s \ {c} \in T /\ x \in s \ {c} /\ s \ {x} \in T /\ c \in s \ {x}
    BY <1>2, <2>1
  <2>3. F[s \ {c}] = f[x] + F[(s \ {c}) \ {x}] /\ F[s \ {x}] = f[c] + F[(s \ {x}) \ {c}]
    BY <2>2
  <2>4. (s \ {c}) \ {x} = (s \ {x}) \ {c} /\ (s \ {x}) \ {c} \in SUBSET S
    OBVIOUS
  <2>5. f[c] \in Int /\ f[x] \in Int /\ F[(s \ {x}) \ {c}] \in Int
    BY <2>1, <2>4 DEF IntOn
  <2>6. F[s] = f[c] + (f[x] + F[(s \ {x}) \ {c}])
    BY <2>1, <2>3, <2>4
  <2>7. ASSUME NEW a \in Int, NEW b \in Int, NEW d \in Int PROVE a + (b + d) = b + (a + d)
    OBVIOUS
  <2> HIDE DEF c
  <2>8. f[c] + (f[x] + F[(s \ {x}) \ {c}]) = f[x] + (f[c] + F[(s \ {x}) \ {c}])
    BY <2>5, <2>7
  <2>9. QED
    BY <2>3, <2>6, <2>8, Zenon
<1>3. \A s \in SUBSET S : s \in T
  <2> HIDE DEF T
  <2>1. QED
    BY <1>1, <1>2, SubsetInduction
<1>4. QED
  BY <1>3 DEF TakesAny

(* SumFunctionOnSet is such a sum.                                         *)
LEMMA SumChosen ==
  ASSUME NEW S, IsFiniteSet(S), NEW f, IntOn(f, S)
  PROVE  \E F \in [SUBSET S -> Int] : IsSum(F, f, S) /\ SumFunctionOnSet(f, S) = F[S]
<1> DEFINE C == CHOOSE F : IsSum(F, f, S)
<1>1. PICK F \in [SUBSET S -> Int] : IsSum(F, f, S)
  BY SumExists
<1>2. IsSum(C, f, S)
  BY <1>1
<1>3. SumFunctionOnSet(f, S) = C[S]
  BY SumDef
<1> HIDE DEF C
<1>4. ASSUME NEW s \in SUBSET S PROVE C[s] = F[s]
  <2>1. IsFiniteSet(s) /\ \A x \in s : f[x] = f[x]
    BY FS_Subset
  <2>2. QED
    BY <1>1, <1>2, <2>1, SumAgree
<1>5. C = [s \in SUBSET S |-> SumStep(C, f, s)]
  BY <1>2 DEF IsSum
<1>6. C \in [SUBSET S -> Int]
  BY <1>4, <1>5
<1>7. QED
  BY <1>2, <1>3, <1>6

LEMMA SumType ==
  ASSUME NEW S, IsFiniteSet(S), NEW f, IntOn(f, S)
  PROVE  SumFunctionOnSet(f, S) \in Int
<1>1. PICK F \in [SUBSET S -> Int] : SumFunctionOnSet(f, S) = F[S]
  BY SumChosen
<1>2. QED
  BY <1>1

LEMMA SumEmpty == ASSUME NEW f PROVE SumFunctionOnSet(f, {}) = 0
<1>1. IsFiniteSet({}) /\ IntOn(f, {})
  BY FS_EmptySet DEF IntOn
<1>2. PICK F \in [SUBSET {} -> Int] : IsSum(F, f, {}) /\ SumFunctionOnSet(f, {}) = F[{}]
  BY <1>1, SumChosen
<1>3. QED
  BY <1>2 DEF IsSum, SumStep

LEMMA SumCongruence ==
  ASSUME NEW S, IsFiniteSet(S), NEW f, NEW g, IntOn(f, S),
         \A x \in S : f[x] = g[x]
  PROVE  SumFunctionOnSet(f, S) = SumFunctionOnSet(g, S)
<1>1. PICK F : IsSum(F, f, S) /\ SumFunctionOnSet(f, S) = F[S]
  BY SumChosen
<1>2. IntOn(g, S)
  BY DEF IntOn
<1>3. PICK G : IsSum(G, g, S) /\ SumFunctionOnSet(g, S) = G[S]
  BY <1>2, SumChosen
<1>4. QED
  BY <1>1, <1>3, SumAgree

(* One element more.                                                       *)
LEMMA SumInsert ==
  ASSUME NEW S, IsFiniteSet(S), NEW f, NEW x, x \notin S,
         IntOn(f, S \cup {x})
  PROVE  SumFunctionOnSet(f, S \cup {x}) = SumFunctionOnSet(f, S) + f[x]
<1>1. IsFiniteSet(S \cup {x})
  BY FS_AddElement
<1>2. PICK F \in [SUBSET (S \cup {x}) -> Int] :
        IsSum(F, f, S \cup {x}) /\ SumFunctionOnSet(f, S \cup {x}) = F[S \cup {x}]
  BY <1>1, SumChosen
<1>3. PICK G \in [SUBSET S -> Int] : IsSum(G, f, S) /\ SumFunctionOnSet(f, S) = G[S]
  <2>1. IntOn(f, S)
    BY DEF IntOn
  <2>2. QED
    BY <2>1, SumChosen
<1>4. F[S] = G[S]
  <2>1. S \subseteq S \cup {x} /\ S \subseteq S /\ \A y \in S : f[y] = f[y]
    OBVIOUS
  <2>2. QED
    BY <1>2, <1>3, <2>1, SumAgree
<1>5. F[S \cup {x}] = f[x] + F[(S \cup {x}) \ {x}]
  <2>1. S \cup {x} \in SUBSET (S \cup {x}) /\ x \in S \cup {x}
    OBVIOUS
  <2> DEFINE A == S \cup {x}
  <2>2. TakesAny(F, f, A)
    <3>1. IsFiniteSet(A) /\ IsSum(F, f, A) /\ IntOn(f, A) /\ F \in [SUBSET A -> Int]
      BY <1>1, <1>2
    <3> HIDE DEF A
    <3>2. QED
      BY <3>1, SumOrder
  <2>3. QED
    BY <2>1, <2>2 DEF TakesAny
<1>6. (S \cup {x}) \ {x} = S
  OBVIOUS
<1>7. f[x] \in Int /\ G[S] \in Int
  BY <1>3 DEF IntOn
<1>8. F[S \cup {x}] = f[x] + G[S]
  BY <1>4, <1>5, <1>6, Zenon
<1>9. SumFunctionOnSet(f, S \cup {x}) = f[x] + SumFunctionOnSet(f, S) /\ SumFunctionOnSet(f, S) \in Int
  BY <1>2, <1>3, <1>7, <1>8, Zenon
<1>10. QED
  BY <1>7, <1>9
=============================================================================
