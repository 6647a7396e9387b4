---------------------------- MODULE NumberLemmas ----------------------------
(***************************************************************************)
(* Lemmas about numbers that proofs about several modules need: a set of   *)
(* numbers has a least one, what holds from 0 up, and what a sum over a    *)
(* finite set is.  A sum is a recursive function on subsets; what it gives *)
(* is shown by taking the smallest set for which it is not so, and one     *)
(* element out of it.                                                      *)
(***************************************************************************)
EXTENDS Integers, FiniteSetsExt, FiniteSetTheorems, WellFoundedInduction, TLAPS

\* A set of numbers has a least one.
LEMMA LeastNumber ==
  ASSUME NEW S \in SUBSET Nat, S # {}
  PROVE  \E m \in S : \A k \in S : m <= k
<1>1. PICK m \in S : \A k \in S : <<k, m>> \notin OpToRel(<, Nat)
  BY NatLessThanWellFounded, WFMin
<1>2. \A k \in S : ~(k < m)
  BY <1>1, Zenon DEF OpToRel
<1>3. \A k \in S : m <= k
  BY <1>2
<1>. QED BY <1>3

\* Counting from 0 to n: what holds of 0, and of k + 1 when it holds of k.
LEMMA CountedUp ==
  ASSUME NEW n \in Nat, NEW G, 0 \in G, \A k \in 0 .. n - 1 : k \in G => k + 1 \in G
  PROVE  \A k \in 0 .. n : k \in G
<1> DEFINE Bad == {k \in 0 .. n : k \notin G}
<1> SUFFICES ASSUME Bad # {} PROVE FALSE
  OBVIOUS
<1>1. Bad \in SUBSET Nat
  OBVIOUS
<1>2. PICK m \in Bad : \A k \in Bad : m <= k
  <2> HIDE DEF Bad
  <2>. QED BY <1>1, LeastNumber
<1>3. m \in 1 .. n /\ m - 1 \in 0 .. n - 1
  OBVIOUS
<1>4. m - 1 \notin Bad
  <2> HIDE DEF Bad
  <2>. QED BY <1>2, <1>3
<1>5. m - 1 \in G
  BY <1>3, <1>4
<1>6. m \in G
  BY <1>3, <1>5
<1>. QED BY <1>6

\* Min and Max of two numbers are one of them.
LEMMA MinOfTwo ==
  ASSUME NEW a \in Nat, NEW b \in Nat
  PROVE  Min({a, b}) \in {a, b} /\ Min({a, b}) <= a /\ Min({a, b}) <= b
<1>1. \E x \in {a, b} : \A y \in {a, b} : x <= y
  OBVIOUS
<1>. QED BY <1>1 DEF Min

LEMMA MaxOfTwo ==
  ASSUME NEW a \in Nat, NEW b \in Nat
  PROVE  Max({a, b}) \in {a, b} /\ Max({a, b}) >= a /\ Max({a, b}) >= b
<1>1. \E x \in {a, b} : \A y \in {a, b} : x >= y
  OBVIOUS
<1>. QED BY <1>1 DEF Max

-----------------------------------------------------------------------------
(* Sums over finite sets: what MapThenSumSet computes.                     *)

\* The sum of g over a set, and the element it takes first.
SumOf(g, S) == MapThenSumSet(LAMBDA x : g[x], S)
Some(T) == CHOOSE x \in T : TRUE

\* F adds up g over the subsets of S, in whatever order.
Adds(F, g, S) ==
  /\ F[{}] = 0
  /\ \A T \in SUBSET S : F[T] \in Int /\ \A x \in T : F[T] = g[x] + F[T \ {x}]

\* F adds them up as SumOf does.
Solves(F, g, S) ==
  F = [s \in SUBSET S |-> IF s = {} THEN 0 ELSE g[Some(s)] + F[s \ {Some(s)}]]

LEMMA SumDef ==
  ASSUME NEW g, NEW S
  PROVE  SumOf(g, S) = (CHOOSE F : Solves(F, g, S))[S]
BY DEF SumOf, MapThenSumSet, MapThenFoldSet, Some, Solves

LEMMA SomeFact ==
  ASSUME NEW S, IsFiniteSet(S), NEW T \in SUBSET S, T # {}
  PROVE  /\ Some(T) \in T /\ T \ {Some(T)} \in SUBSET S
         /\ Cardinality(T) \in Nat
         /\ \A x \in T : Cardinality(T \ {x}) = Cardinality(T) - 1
<1>1. Some(T) \in T
  BY DEF Some
<1>2. IsFiniteSet(T)
  BY FS_Subset
<1>3. Cardinality(T) \in Nat
  BY <1>2, FS_CardinalityType
<1>4. \A x \in T : Cardinality(T \ {x}) = Cardinality(T) - 1
  BY <1>2, FS_RemoveElement
<1>. QED BY <1>1, <1>3, <1>4

\* There is a function that adds up g over the subsets of a finite set: on the
\* smallest sets without one, one step more would give it.
LEMMA AddsExists ==
  ASSUME NEW S, IsFiniteSet(S), NEW g
  PROVE  \E F : Solves(F, g, S)
<1> DEFINE Upto(n) == {T \in SUBSET S : Cardinality(T) <= n}
           Value(F, s) == IF s = {} THEN 0 ELSE g[Some(s)] + F[s \ {Some(s)}]
           Exists(n) == \E F : F = [s \in Upto(n) |-> Value(F, s)]
           Bad == {n \in Nat : ~Exists(n)}
<1>0. ASSUME NEW T \in SUBSET S PROVE Cardinality(T) \in Nat /\ (Cardinality(T) = 0 <=> T = {})
  BY FS_Subset, FS_CardinalityType, FS_EmptySet
<1>1. Bad = {}
  <2> SUFFICES ASSUME Bad # {} PROVE FALSE
    OBVIOUS
  <2>1. PICK n \in Bad : \A k \in Bad : n <= k
    <3>1. Bad \in SUBSET Nat
      OBVIOUS
    <3> HIDE DEF Bad
    <3>. QED BY <3>1, LeastNumber
  <2>2. CASE n = 0
    <3> DEFINE F == [s \in Upto(0) |-> 0]
    <3>1. \A s \in Upto(0) : s = {}
      BY <1>0
    <3>2. F = [s \in Upto(0) |-> Value(F, s)]
      BY <3>1
    <3> HIDE DEF F, Value, Upto
    <3>3. Exists(0)
      BY <3>2
    <3>. QED BY <2>2, <3>3
  <2>3. CASE n # 0
    <3>1. n \in Nat /\ n - 1 \in Nat /\ n - 1 \notin Bad
      <4>1. n \in Nat
        OBVIOUS
      <4> HIDE DEF Bad
      <4>. QED BY <2>1, <2>3, <4>1
    <3>2. Exists(n - 1)
      BY <3>1
    <3>3. PICK G : G = [s \in Upto(n - 1) |-> Value(G, s)]
      BY <3>2
    <3> DEFINE F == [s \in Upto(n) |-> Value(G, s)]
    <3>4. ASSUME NEW s \in Upto(n) PROVE Value(G, s) = Value(F, s)
      <4>1. CASE s = {}
        BY <4>1
      <4>2. CASE s # {}
        <5> DEFINE r == s \ {Some(s)}
        <5>1. r \in Upto(n - 1) /\ r \in Upto(n)
          BY <3>1, <4>2, SomeFact
        <5> HIDE DEF r, Upto
        <5>2. G[r] = Value(G, r) /\ F[r] = Value(G, r)
          <6> HIDE DEF Value
          <6>. QED BY <3>3, <5>1
        <5>. QED BY <4>2, <5>2 DEF r
      <4>. QED BY <4>1, <4>2
    <3>5. F = [s \in Upto(n) |-> Value(F, s)]
      <4> HIDE DEF Value, Upto
      <4>. QED BY <3>4
    <3> HIDE DEF F, Value, Upto
    <3>6. Exists(n)
      BY <3>5
    <3>. QED BY <2>1, <3>6
  <2>. QED BY <2>2, <2>3
<1>2. Cardinality(S) \in Nat
  BY <1>0
<1>3. Upto(Cardinality(S)) = SUBSET S
  BY FS_Subset
<1>4. Exists(Cardinality(S))
  BY <1>1, <1>2
<1>5. PICK F : F = [s \in Upto(Cardinality(S)) |-> Value(F, s)]
  BY <1>4
<1>6. Solves(F, g, S)
  BY <1>3, <1>5 DEF Solves
<1>. QED BY <1>6

\* SumOf is a sum, whichever element is taken first.
LEMMA SumSteps ==
  ASSUME NEW S, IsFiniteSet(S), NEW g, \A x \in S : g[x] \in Int
  PROVE  \E F : SumOf(g, S) = F[S] /\ Adds(F, g, S)
<1> DEFINE F == CHOOSE f : Solves(f, g, S)
<1>1. SumOf(g, S) = F[S]
  BY SumDef
<1>2. F = [s \in SUBSET S |-> IF s = {} THEN 0 ELSE g[Some(s)] + F[s \ {Some(s)}]]
  <2>1. Solves(F, g, S)
    BY AddsExists
  <2> HIDE DEF F
  <2>. QED BY <2>1 DEF Solves
<1> HIDE DEF F
<1>3. /\ F[{}] = 0
      /\ \A T \in SUBSET S : T # {} => F[T] = g[Some(T)] + F[T \ {Some(T)}]
  BY <1>2
<1>0. ASSUME NEW T \in SUBSET S PROVE Cardinality(T) \in Nat
  BY FS_Subset, FS_CardinalityType
<1> DEFINE Good(T) == F[T] \in Int /\ \A x \in T : F[T] = g[x] + F[T \ {x}]
           Bad == {Cardinality(T) : T \in {U \in SUBSET S : ~Good(U)}}
<1>4. Bad = {}
  <2> SUFFICES ASSUME Bad # {} PROVE FALSE
    OBVIOUS
  <2>1. PICK n \in Bad : \A k \in Bad : n <= k
    <3>1. Bad \in SUBSET Nat
      BY <1>0
    <3> HIDE DEF Bad
    <3>. QED BY <3>1, LeastNumber
  <2>2. PICK T \in SUBSET S : ~Good(T) /\ n = Cardinality(T)
    OBVIOUS
  <2>3. T # {}
    <3>1. Good({})
      BY <1>3
    <3> HIDE DEF Good
    <3>. QED BY <2>2, <3>1
  <2>4. ASSUME NEW U \in SUBSET S, Cardinality(U) < n PROVE Good(U)
    <3>1. Cardinality(U) \in Nat /\ n \in Nat
      BY <1>0, <2>2
    <3>2. Cardinality(U) \notin Bad
      <4> HIDE DEF Bad
      <4>. QED BY <2>1, <2>4, <3>1
    <3> HIDE DEF Good
    <3>. QED BY <3>2
  <2> DEFINE c == Some(T)
  <2>5. c \in T /\ \A x \in T : T \ {x} \in SUBSET S /\ Cardinality(T \ {x}) < n
    <3>1. \A x \in T : Cardinality(T \ {x}) = n - 1
      BY <2>2, <2>3, SomeFact
    <3>2. n \in Nat
      BY <1>0, <2>2
    <3>3. Some(T) \in T
      BY <2>3 DEF Some
    <3>. QED BY <3>1, <3>2, <3>3
  <2>6. F[T] = g[c] + F[T \ {c}]
    BY <1>3, <2>3
  <2> HIDE DEF c
  <2>7. \A x \in T : Good(T \ {x})
    <3> HIDE DEF Good
    <3>. QED BY <2>4, <2>5
  <2>8. \A x \in T : g[x] \in Int /\ F[T \ {x}] \in Int
    BY <2>7
  <2>9. F[T] \in Int
    BY <2>5, <2>6, <2>8
  <2>10. ASSUME NEW x \in T PROVE F[T] = g[x] + F[T \ {x}]
    <3>1. CASE x = c
      BY <2>6, <3>1
    <3>2. CASE x # c
      <4>1. F[T \ {c}] = g[x] + F[(T \ {c}) \ {x}]
        BY <2>5, <2>7, <3>2
      <4>2. F[T \ {x}] = g[c] + F[(T \ {x}) \ {c}]
        BY <2>5, <2>7, <3>2
      <4>3. (T \ {c}) \ {x} = (T \ {x}) \ {c}
        OBVIOUS
      <4>4. F[(T \ {c}) \ {x}] \in Int
        <5>1. T \ {c} \in SUBSET S /\ (T \ {c}) \ {x} \in SUBSET S
          OBVIOUS
        <5>2. Cardinality((T \ {c}) \ {x}) < n
          <6>1. IsFiniteSet(T \ {c}) /\ x \in T \ {c}
            BY <3>2, FS_Subset
          <6>2. Cardinality((T \ {c}) \ {x}) = Cardinality(T \ {c}) - 1
            BY <6>1, FS_RemoveElement
          <6>. QED BY <1>0, <2>2, <2>5, <5>1, <6>2
        <5> HIDE DEF Bad
        <5>3. Good((T \ {c}) \ {x})
          <6> HIDE DEF Good
          <6>. QED BY <2>4, <5>1, <5>2
        <5>. QED BY <5>3
      <4>5. g[c] \in Int /\ g[x] \in Int
        BY <2>5, <2>8
      <4> DEFINE U == (T \ {c}) \ {x}
      <4>6. F[T \ {c}] = g[x] + F[U] /\ F[T \ {x}] = g[c] + F[U] /\ F[U] \in Int
        BY <4>1, <4>2, <4>3, <4>4
      <4> HIDE DEF U
      <4>. QED BY <2>6, <4>5, <4>6
    <3>. QED BY <3>1, <3>2
  <2>. QED BY <2>2, <2>9, <2>10
<1>5. \A T \in SUBSET S : Good(T)
  <2> HIDE DEF Good
  <2>. QED BY <1>4
<1>6. Adds(F, g, S)
  BY <1>3, <1>5 DEF Adds
<1>. QED BY <1>1, <1>6

\* Sums of functions that are the same on a set.
LEMMA SumAgrees ==
  ASSUME NEW S, IsFiniteSet(S), NEW R, NEW F, NEW G, NEW g, NEW h,
         S \subseteq R, Adds(F, g, R), Adds(G, h, S), \A x \in S : g[x] = h[x]
  PROVE  F[S] = G[S]
<1>0. ASSUME NEW T \in SUBSET S PROVE Cardinality(T) \in Nat
  BY FS_Subset, FS_CardinalityType
<1> DEFINE Bad == {Cardinality(T) : T \in {U \in SUBSET S : F[U] # G[U]}}
<1>1. Bad = {}
  <2> SUFFICES ASSUME Bad # {} PROVE FALSE
    OBVIOUS
  <2>1. PICK n \in Bad : \A k \in Bad : n <= k
    <3>1. Bad \in SUBSET Nat
      BY <1>0
    <3> HIDE DEF Bad
    <3>. QED BY <3>1, LeastNumber
  <2>2. PICK T \in SUBSET S : F[T] # G[T] /\ n = Cardinality(T)
    OBVIOUS
  <2>3. PICK x \in T : TRUE
    <3>1. T # {}
      BY <2>2 DEF Adds
    <3>. QED BY <3>1
  <2>4. T \ {x} \in SUBSET S /\ Cardinality(T \ {x}) = n - 1 /\ n \in Nat
    BY <1>0, <2>2, <2>3, SomeFact
  <2>5. Cardinality(T \ {x}) \notin Bad
    <3> HIDE DEF Bad
    <3>. QED BY <2>1, <2>4
  <2>6. F[T \ {x}] = G[T \ {x}]
    BY <2>4, <2>5
  <2>7. F[T] = g[x] + F[T \ {x}] /\ G[T] = h[x] + G[T \ {x}] /\ g[x] = h[x]
    <3>1. T \in SUBSET R /\ x \in S
      OBVIOUS
    <3>. QED BY <3>1 DEF Adds
  <2>. QED BY <2>2, <2>6, <2>7
<1>. QED BY <1>1

\* The sum over no element, and over one element more.
LEMMA SumEmpty == ASSUME NEW g PROVE SumOf(g, {}) = 0
<1>1. IsFiniteSet({})
  BY FS_EmptySet
<1>2. \A x \in {} : g[x] \in Int
  OBVIOUS
<1>3. \E F : SumOf(g, {}) = F[{}] /\ Adds(F, g, {})
  BY <1>1, <1>2, SumSteps
<1>. QED BY <1>3 DEF Adds

LEMMA SumAdd ==
  ASSUME NEW S, IsFiniteSet(S), NEW x, x \notin S, NEW g, NEW h,
         \A y \in S \cup {x} : g[y] \in Int, \A y \in S : h[y] = g[y]
  PROVE  SumOf(h, S) \in Int /\ SumOf(g, S \cup {x}) = SumOf(h, S) + g[x]
<1> DEFINE SX == S \cup {x}
<1>1. IsFiniteSet(SX)
  BY FS_AddElement
<1>2. \A y \in SX : g[y] \in Int
  OBVIOUS
<1>3. SX \ {x} = S /\ x \in SX /\ S \subseteq SX
  OBVIOUS
<1> HIDE DEF SX
<1>4. PICK F : SumOf(g, SX) = F[SX] /\ Adds(F, g, SX)
  BY <1>1, <1>2, SumSteps
<1>5. \A y \in S : h[y] \in Int
  BY <1>2, <1>3
<1>6. PICK G : SumOf(h, S) = G[S] /\ Adds(G, h, S)
  BY <1>5, SumSteps
<1>7. F[S] = G[S]
  BY <1>3, <1>4, <1>6, SumAgrees
<1>8. F[SX] = g[x] + F[S] /\ F[S] \in Int /\ g[x] \in Int
  BY <1>2, <1>3, <1>4 DEF Adds
<1>. QED BY <1>4, <1>6, <1>7, <1>8 DEF SX

\* The sum of nothing but zeros.
LEMMA SumZero ==
  ASSUME NEW S, IsFiniteSet(S), NEW g, \A x \in S : g[x] = 0
  PROVE  SumOf(g, S) = 0
<1>1. PICK F : SumOf(g, S) = F[S] /\ Adds(F, g, S)
  BY SumSteps
<1> DEFINE G == [T \in SUBSET S |-> 0]
<1>2. Adds(G, g, S)
  BY DEF Adds
<1>3. F[S] = G[S]
  <2> HIDE DEF G
  <2>. QED BY <1>1, <1>2, SumAgrees
<1>. QED BY <1>1, <1>3

\* One value is changed.
LEMMA SumChange ==
  ASSUME NEW S, IsFiniteSet(S), NEW x \in S, NEW g \in [S -> Int], NEW h \in [S -> Int],
         \A y \in S \ {x} : h[y] = g[y]
  PROVE  SumOf(g, S) \in Int /\ SumOf(h, S) = SumOf(g, S) - g[x] + h[x]
<1> DEFINE R == S \ {x}
<1>1. IsFiniteSet(R) /\ x \notin R /\ R \cup {x} = S
  BY FS_Subset
<1>2. /\ \A y \in R \cup {x} : g[y] \in Int /\ h[y] \in Int
      /\ \A y \in R : g[y] = g[y] /\ g[y] = h[y]
  OBVIOUS
<1> HIDE DEF R
<1>3. SumOf(g, R) \in Int /\ SumOf(g, R \cup {x}) = SumOf(g, R) + g[x]
  BY <1>1, <1>2, SumAdd
<1>4. SumOf(h, R \cup {x}) = SumOf(g, R) + h[x]
  BY <1>1, <1>2, SumAdd
<1>5. SumOf(g, S) = SumOf(g, R) + g[x] /\ SumOf(h, S) = SumOf(g, R) + h[x]
  BY <1>1, <1>3, <1>4
<1>6. g[x] \in Int /\ h[x] \in Int
  OBVIOUS
<1>. QED BY <1>3, <1>5, <1>6

\* The sum over two sets that have nothing in common.
LEMMA SumUnion ==
  ASSUME NEW S, IsFiniteSet(S), NEW R, IsFiniteSet(R), S \cap R = {},
         NEW g, \A x \in S \cup R : g[x] \in Int
  PROVE  SumOf(g, S) \in Int /\ SumOf(g, R) \in Int /\ SumOf(g, S \cup R) = SumOf(g, S) + SumOf(g, R)
<1> DEFINE Good(T) == SumOf(g, T) \in Int /\ SumOf(g, S \cup T) = SumOf(g, S) + SumOf(g, T)
           Bad == {Cardinality(T) : T \in {U \in SUBSET R : ~Good(U)}}
<1>0. ASSUME NEW T \in SUBSET R PROVE IsFiniteSet(T) /\ Cardinality(T) \in Nat
  BY FS_Subset, FS_CardinalityType
<1>1. SumOf(g, S) \in Int
  <2>1. \E F : SumOf(g, S) = F[S] /\ Adds(F, g, S)
    BY SumSteps
  <2>. QED BY <2>1 DEF Adds
<1>2. Good({})
  <2>1. S \cup {} = S
    OBVIOUS
  <2>. QED BY <1>1, <2>1, SumEmpty
<1>3. Bad = {}
  <2> SUFFICES ASSUME Bad # {} PROVE FALSE
    OBVIOUS
  <2>1. PICK n \in Bad : \A k \in Bad : n <= k
    <3>1. Bad \in SUBSET Nat
      BY <1>0
    <3> HIDE DEF Bad
    <3>. QED BY <3>1, LeastNumber
  <2>2. PICK T \in SUBSET R : ~Good(T) /\ n = Cardinality(T)
    OBVIOUS
  <2>3. PICK x \in T : TRUE
    <3>1. T # {}
      <4> HIDE DEF Good
      <4>. QED BY <1>2, <2>2
    <3>. QED BY <3>1
  <2> DEFINE U == T \ {x}
  <2>4. U \in SUBSET R /\ IsFiniteSet(U) /\ Cardinality(U) = n - 1 /\ n \in Nat
    BY <1>0, <2>2, <2>3, FS_RemoveElement
  <2>5. Cardinality(U) \notin Bad
    <3> HIDE DEF Bad, U
    <3>. QED BY <2>1, <2>4
  <2>6. Good(U)
    <3> HIDE DEF Good, U
    <3>. QED BY <2>4, <2>5
  <2>7. /\ x \notin U /\ U \cup {x} = T /\ x \notin S \cup U /\ (S \cup U) \cup {x} = S \cup T
        /\ x \in R /\ T \in SUBSET R
    BY <2>2, <2>3
  <2> HIDE DEF U
  <2>8. SumOf(g, U \cup {x}) = SumOf(g, U) + g[x]
    <3>1. \A y \in U \cup {x} : g[y] \in Int
      BY <2>7
    <3>. QED BY <2>4, <2>7, <3>1, SumAdd
  <2>9. SumOf(g, (S \cup U) \cup {x}) = SumOf(g, S \cup U) + g[x]
    <3>1. IsFiniteSet(S \cup U)
      BY <2>4, FS_Union
    <3>2. \A y \in (S \cup U) \cup {x} : g[y] \in Int
      BY <2>4, <2>7
    <3>. QED BY <2>7, <3>1, <3>2, SumAdd
  <2>10. g[x] \in Int
    BY <2>7
  <2>11. SumOf(g, T) = SumOf(g, U) + g[x] /\ SumOf(g, S \cup T) = SumOf(g, S \cup U) + g[x]
    BY <2>7, <2>8, <2>9
  <2>. QED BY <1>1, <2>2, <2>6, <2>10, <2>11
<1>4. Good(R)
  <2> HIDE DEF Good
  <2>. QED BY <1>3
<1>. QED BY <1>1, <1>4

\* A sum of natural numbers is one.
LEMMA SumNat ==
  ASSUME NEW S, IsFiniteSet(S), NEW g, \A x \in S : g[x] \in Nat
  PROVE  SumOf(g, S) \in Nat
<1>1. PICK F : SumOf(g, S) = F[S] /\ Adds(F, g, S)
  <2>1. \A x \in S : g[x] \in Int
    OBVIOUS
  <2>. QED BY <2>1, SumSteps
<1>0. ASSUME NEW T \in SUBSET S PROVE Cardinality(T) \in Nat
  BY FS_Subset, FS_CardinalityType
<1> DEFINE Bad == {Cardinality(T) : T \in {U \in SUBSET S : F[U] \notin Nat}}
<1>2. Bad = {}
  <2> SUFFICES ASSUME Bad # {} PROVE FALSE
    OBVIOUS
  <2>1. PICK n \in Bad : \A k \in Bad : n <= k
    <3>1. Bad \in SUBSET Nat
      BY <1>0
    <3> HIDE DEF Bad
    <3>. QED BY <3>1, LeastNumber
  <2>2. PICK T \in SUBSET S : F[T] \notin Nat /\ n = Cardinality(T)
    OBVIOUS
  <2>3. PICK x \in T : TRUE
    <3>1. F[{}] = 0
      BY <1>1 DEF Adds
    <3>2. T # {}
      BY <2>2, <3>1
    <3>. QED BY <3>2
  <2>4. T \ {x} \in SUBSET S /\ Cardinality(T \ {x}) = n - 1 /\ n \in Nat
    BY <1>0, <2>2, <2>3, SomeFact
  <2>5. Cardinality(T \ {x}) \notin Bad
    <3> HIDE DEF Bad
    <3>. QED BY <2>1, <2>4
  <2>6. F[T \ {x}] \in Nat
    BY <2>4, <2>5
  <2>7. F[T] = g[x] + F[T \ {x}] /\ g[x] \in Nat
    BY <1>1 DEF Adds
  <2>. QED BY <2>2, <2>6, <2>7
<1>. QED BY <1>1, <1>2
=============================================================================
