--------------------------- MODULE OverviewProofs ---------------------------
(***************************************************************************)
(* Whatever is in, the overview's totals agree with its lists, and a part  *)
(* that arrives only adds to them.  A sum is the size of a disjoint union, *)
(* a sort is a bijection: with these two facts every total is a sum of     *)
(* what each repository adds, whatever order they are shown in.            *)
(***************************************************************************)
EXTENDS RulesProofs, SequenceTheorems, WellFoundedInduction

-----------------------------------------------------------------------------
(* Sums                                                                    *)
(*                                                                         *)
(* A sum is as large as what it counts: that is proved once, by least      *)
(* counterexample, and the laws of sums are then facts about finite sets.  *)

\* A set of natural numbers that is not empty has a least one: induction over data.
LEMMA LeastOf ==
    ASSUME NEW T \in SUBSET Nat, NEW a \in T
    PROVE  \E m \in T : \A n \in T : m <= n
<1> DEFINE R == OpToRel(<, Nat)
<1>1. IsWellFoundedOn(R, Nat)
  BY NatLessThanWellFounded
<1>2. \A x, y \in Nat : <<x, y>> \in R <=> x < y
  BY DEF OpToRel
<1> HIDE DEF R
<1>3. PICK m \in T : \A n \in T : <<n, m>> \notin R
  BY <1>1, WFMin
<1>4. m \in Nat /\ \A n \in T : n \in Nat /\ ~ (n < m)
  BY <1>2, <1>3
<1> QED BY <1>3, <1>4

\* The members of a family of sets, each with the index it comes from.
Spread(A) == UNION {{i} \X A[i] : i \in DOMAIN A}
Part(A, T) == UNION {{i} \X A[i] : i \in T}
FiniteFamily(A) == IsFiniteSet(DOMAIN A) /\ \A i \in DOMAIN A : IsFiniteSet(A[i])

LEMMA SpreadIsFinite ==
    ASSUME NEW A, NEW T, IsFiniteSet(T), \A i \in T : IsFiniteSet(A[i])
    PROVE  IsFiniteSet(Part(A, T)) /\ Cardinality(Part(A, T)) \in Nat
<1> DEFINE F == {{i} \X A[i] : i \in T}
           g == [i \in T |-> {i} \X A[i]]
<1>1. g \in Surjection(T, F)
  BY DEF Surjection
<1> HIDE DEF g
<1>2. IsFiniteSet(F)
  BY <1>1, FS_Surjection
<1>3. \A i \in T : IsFiniteSet({i} \X A[i])
  BY FS_Product, FS_Singleton
<1>4. \A S \in F : IsFiniteSet(S)
  BY <1>3
<1> HIDE DEF F
<1>5. IsFiniteSet(UNION F)
  BY <1>2, <1>4, FS_UNION
<1> QED BY <1>5, FS_CardinalityType DEF Part, F

LEMMA PartSplits ==
    ASSUME NEW A, NEW T, IsFiniteSet(T), \A i \in T : IsFiniteSet(A[i]), NEW x \in T
    PROVE  Cardinality(Part(A, T)) = Cardinality(A[x]) + Cardinality(Part(A, T \ {x}))
<1> DEFINE one == {x} \X A[x]
           rest == Part(A, T \ {x})
<1>1. IsFiniteSet(rest) /\ Cardinality(rest) \in Nat
  <2>1. IsFiniteSet(T \ {x})
    BY FS_RemoveElement
  <2> QED BY <2>1, SpreadIsFinite
<1>2. IsFiniteSet(one) /\ Cardinality(one) = Cardinality(A[x])
  <2>1. IsFiniteSet({x}) /\ Cardinality({x}) = 1
    BY FS_Singleton
  <2>2. Cardinality(A[x]) \in Nat /\ IsFiniteSet(A[x])
    BY FS_CardinalityType
  <2>3. IsFiniteSet(one) /\ Cardinality(one) = Cardinality({x}) * Cardinality(A[x])
    BY <2>1, <2>2, FS_Product
  <2> QED BY <2>1, <2>2, <2>3
<1>3. Part(A, T) = one \cup rest
  BY DEF Part
<1>4. one \cap rest = {}
  BY DEF Part
<1> HIDE DEF one, rest
<1>5. Cardinality(one \cup rest) = Cardinality(one) + Cardinality(rest) - Cardinality(one \cap rest)
  BY <1>1, <1>2, FS_Union
<1>6. Cardinality(one \cap rest) = 0
  BY <1>4, FS_EmptySet
<1>7. Cardinality(one) \in Nat
  BY <1>2, FS_CardinalityType
<1>8. Cardinality(one \cup rest) = Cardinality(one) + Cardinality(rest)
  BY <1>1, <1>5, <1>6, <1>7
<1> QED BY <1>2, <1>3, <1>8 DEF rest

\* The partial sums that SumFunction is the last of.
Sums(f, it) ==
    it = [s \in SUBSET DOMAIN f |->
             IF s = {} THEN 0 ELSE f[CHOOSE x \in s : TRUE] + it[s \ {CHOOSE x \in s : TRUE}]]

LEMMA SumsAreSizes ==
    ASSUME NEW A, FiniteFamily(A), NEW f, DOMAIN f = DOMAIN A,
           \A i \in DOMAIN A : f[i] = Cardinality(A[i]), NEW it, Sums(f, it)
    PROVE  \A T \in SUBSET DOMAIN A : it[T] = Cardinality(Part(A, T))
<1> DEFINE Bad == {T \in SUBSET DOMAIN A : it[T] # Cardinality(Part(A, T))}
           sizes == {Cardinality(T) : T \in Bad}
<1> SUFFICES ASSUME Bad # {} PROVE FALSE
  OBVIOUS
<1>1. \A T \in SUBSET DOMAIN A : IsFiniteSet(T) /\ Cardinality(T) \in Nat
  BY FS_Subset, FS_CardinalityType DEF FiniteFamily
<1>2. PICK n \in sizes : \A m \in sizes : n <= m
  <2>1. sizes \in SUBSET Nat /\ \E a : a \in sizes
    BY <1>1
  <2> HIDE DEF sizes
  <2> QED BY <2>1, LeastOf
<1>3. PICK T \in Bad : \A U \in Bad : Cardinality(T) <= Cardinality(U)
  BY <1>2
<1>4. T # {}
  <2>1. it[{}] = 0
    BY DEF Sums
  <2>2. Part(A, {}) = {}
    BY DEF Part
  <2> QED BY <1>3, <2>1, <2>2, FS_EmptySet
<1> DEFINE x == CHOOSE x \in T : TRUE
           U == T \ {x}
<1>5. x \in T
  BY <1>4
<1>6. it[T] = f[x] + it[U]
  BY <1>3, <1>4 DEF Sums
<1> HIDE DEF x
<1>7. U \in SUBSET DOMAIN A /\ Cardinality(U) = Cardinality(T) - 1
  BY <1>1, <1>3, <1>5, FS_RemoveElement
<1>8. U \notin Bad
  BY <1>1, <1>3, <1>7
<1>9. it[U] = Cardinality(Part(A, U))
  BY <1>7, <1>8
<1>10. Cardinality(Part(A, T)) = Cardinality(A[x]) + Cardinality(Part(A, U))
  BY <1>1, <1>3, <1>5, PartSplits DEF FiniteFamily
<1> QED BY <1>3, <1>5, <1>6, <1>9, <1>10

LEMMA SumsExist ==
    ASSUME NEW A, FiniteFamily(A), NEW f, DOMAIN f = DOMAIN A,
           \A i \in DOMAIN A : f[i] = Cardinality(A[i])
    PROVE  \E it : Sums(f, it)
<1> DEFINE it == [s \in SUBSET DOMAIN f |-> Cardinality(Part(A, s))]
<1>1. ASSUME NEW s \in SUBSET DOMAIN f
      PROVE  Cardinality(Part(A, s)) =
                IF s = {} THEN 0 ELSE f[CHOOSE x \in s : TRUE]
                                        + Cardinality(Part(A, s \ {CHOOSE x \in s : TRUE}))
  <2>1. CASE s = {}
    BY <2>1, FS_EmptySet DEF Part
  <2>2. CASE s # {}
    <3> DEFINE x == CHOOSE x \in s : TRUE
    <3>1. x \in s
      BY <2>2
    <3>2. IsFiniteSet(s)
      BY FS_Subset DEF FiniteFamily
    <3> HIDE DEF x
    <3>3. Cardinality(Part(A, s)) = Cardinality(A[x]) + Cardinality(Part(A, s \ {x}))
      BY <3>1, <3>2, PartSplits DEF FiniteFamily
    <3> QED BY <2>2, <3>1, <3>3 DEF x
  <2> QED BY <2>1, <2>2
<1>2. Sums(f, it)
  BY <1>1 DEF Sums
<1> QED BY <1>2

\* A sum of sizes is the size of it all.
LEMMA SumIsSize ==
    ASSUME NEW A, FiniteFamily(A), NEW f, DOMAIN f = DOMAIN A,
           \A i \in DOMAIN A : f[i] = Cardinality(A[i])
    PROVE  SumFunction(f) = Cardinality(Spread(A)) /\ SumFunction(f) \in Nat
<1> DEFINE it == CHOOSE it : Sums(f, it)
<1>1. Sums(f, it)
  BY SumsExist
<1>2. SumFunction(f) = it[DOMAIN f]
  BY DEF SumFunction, SumFunctionOnSet, FoldFunctionOnSet, MapThenFoldSet, Sums
<1> HIDE DEF it
<1>3. it[DOMAIN A] = Cardinality(Part(A, DOMAIN A))
  BY <1>1, SumsAreSizes
<1>4. Cardinality(Part(A, DOMAIN A)) \in Nat
  BY SpreadIsFinite DEF FiniteFamily
<1> QED BY <1>2, <1>3, <1>4 DEF Spread, Part

\* So many numbers from one number on.
LEMMA IntervalCounts ==
    ASSUME NEW a \in Nat, NEW n \in Nat
    PROVE  IsFiniteSet(a + 1 .. a + n) /\ Cardinality(a + 1 .. a + n) = n
<1> DEFINE from == a + 1
           to == a + n
<1>1. from \in Int /\ to \in Int
  OBVIOUS
<1> HIDE DEF from, to
<1>2. /\ IsFiniteSet(from .. to)
      /\ Cardinality(from .. to) = IF from > to THEN 0 ELSE to - from + 1
  BY <1>1, FS_Interval
<1>3. (IF from > to THEN 0 ELSE to - from + 1) = n
  BY DEF from, to
<1> QED BY <1>2, <1>3 DEF from, to

\* A finite family of natural numbers.
Counts(f) == IsFiniteSet(DOMAIN f) /\ \A i \in DOMAIN f : f[i] \in Nat

LEMMA SumIsSpread ==
    ASSUME NEW f, Counts(f)
    PROVE  LET A == [i \in DOMAIN f |-> 1 .. f[i]]
           IN  /\ FiniteFamily(A) /\ IsFiniteSet(Spread(A))
               /\ SumFunction(f) = Cardinality(Spread(A)) /\ SumFunction(f) \in Nat
<1> DEFINE A == [i \in DOMAIN f |-> 1 .. f[i]]
<1>1. DOMAIN A = DOMAIN f /\ \A i \in DOMAIN A : A[i] = 1 .. f[i]
  OBVIOUS
<1> HIDE DEF A
<1>2. \A i \in DOMAIN A : IsFiniteSet(A[i]) /\ Cardinality(A[i]) = f[i]
  <2> SUFFICES ASSUME NEW i \in DOMAIN A PROVE IsFiniteSet(A[i]) /\ Cardinality(A[i]) = f[i]
    OBVIOUS
  <2>1. f[i] \in Nat /\ A[i] = 1 .. f[i]
    BY <1>1 DEF Counts
  <2>2. IsFiniteSet(1 .. f[i]) /\ Cardinality(1 .. f[i]) = IF 1 > f[i] THEN 0 ELSE f[i] - 1 + 1
    BY <2>1, FS_Interval
  <2> QED BY <2>1, <2>2
<1>3. FiniteFamily(A)
  BY <1>1, <1>2 DEF FiniteFamily, Counts
<1>4. SumFunction(f) = Cardinality(Spread(A)) /\ SumFunction(f) \in Nat
  BY <1>1, <1>2, <1>3, SumIsSize
<1>5. IsFiniteSet(Spread(A))
  BY <1>3, SpreadIsFinite DEF FiniteFamily, Spread, Part
<1> QED BY <1>3, <1>4, <1>5 DEF A

\* The least terms have the least sum.
LEMMA SumsCompare ==
    ASSUME NEW f, NEW g, Counts(f), Counts(g), DOMAIN f = DOMAIN g,
           \A i \in DOMAIN f : f[i] <= g[i]
    PROVE  SumFunction(f) <= SumFunction(g)
<1> DEFINE A == [i \in DOMAIN f |-> 1 .. f[i]]
           B == [i \in DOMAIN g |-> 1 .. g[i]]
<1>1. \A i \in DOMAIN f : 1 .. f[i] \subseteq 1 .. g[i]
  BY DEF Counts
<1>2. Spread(A) \subseteq Spread(B)
  BY <1>1 DEF Spread
<1>3. /\ SumFunction(f) = Cardinality(Spread(A))
      /\ SumFunction(g) = Cardinality(Spread(B)) /\ IsFiniteSet(Spread(B))
  BY SumIsSpread
<1> HIDE DEF A, B
<1> QED BY <1>2, <1>3, FS_Subset

LEMMA SumsAdd ==
    ASSUME NEW f, NEW g, NEW h, Counts(f), Counts(g), DOMAIN f = DOMAIN g, DOMAIN h = DOMAIN f,
           \A i \in DOMAIN f : h[i] = f[i] + g[i]
    PROVE  /\ SumFunction(h) = SumFunction(f) + SumFunction(g)
           /\ Counts(h)
<1> DEFINE A == [i \in DOMAIN f |-> 1 .. f[i]]
           B == [i \in DOMAIN f |-> f[i] + 1 .. h[i]]
           C == [i \in DOMAIN h |-> 1 .. h[i]]
<1>1. /\ SumFunction(f) = Cardinality(Spread(A)) /\ IsFiniteSet(Spread(A))
      /\ SumFunction(f) \in Nat
  BY SumIsSpread
<1>2. Counts(h)
  BY DEF Counts
<1>3. SumFunction(h) = Cardinality(Spread(C))
  BY <1>2, SumIsSpread
<1>4. /\ SumFunction(g) = Cardinality(Spread(B)) /\ IsFiniteSet(Spread(B))
      /\ SumFunction(g) \in Nat
  <2>1. ASSUME NEW i \in DOMAIN f
        PROVE  IsFiniteSet(B[i]) /\ g[i] = Cardinality(B[i])
    <3>1. f[i] \in Nat /\ g[i] \in Nat /\ h[i] = f[i] + g[i]
      BY DEF Counts
    <3>2. B[i] = f[i] + 1 .. f[i] + g[i]
      BY <3>1
    <3> QED BY <3>1, <3>2, IntervalCounts
  <2>2. DOMAIN B = DOMAIN g
    OBVIOUS
  <2> HIDE DEF B
  <2>3. FiniteFamily(B)
    BY <2>1, <2>2 DEF FiniteFamily, Counts
  <2>4. IsFiniteSet(Spread(B))
    BY <2>3, SpreadIsFinite DEF FiniteFamily, Spread, Part
  <2> QED BY <2>1, <2>2, <2>3, <2>4, SumIsSize
<1>5. \A i \in DOMAIN f : /\ 1 .. h[i] = (1 .. f[i]) \cup (f[i] + 1 .. h[i])
                          /\ (1 .. f[i]) \cap (f[i] + 1 .. h[i]) = {}
  BY DEF Counts
<1>6. Spread(C) = Spread(A) \cup Spread(B)
  BY <1>5 DEF Spread
<1>7. Spread(A) \cap Spread(B) = {}
  BY <1>5 DEF Spread
<1> HIDE DEF A, B, C
<1>8. Cardinality(Spread(A) \cup Spread(B)) =
        Cardinality(Spread(A)) + Cardinality(Spread(B)) - Cardinality(Spread(A) \cap Spread(B))
  BY <1>1, <1>4, FS_Union
<1>9. Cardinality(Spread(A) \cap Spread(B)) = 0
  BY <1>7, FS_EmptySet
<1> QED BY <1>1, <1>2, <1>3, <1>4, <1>6, <1>8, <1>9

\* A sum is positive when one of its terms is.
LEMMA SumIsPositive ==
    ASSUME NEW f, Counts(f)
    PROVE  SumFunction(f) > 0 <=> \E i \in DOMAIN f : f[i] > 0
<1> DEFINE A == [i \in DOMAIN f |-> 1 .. f[i]]
<1>1. /\ SumFunction(f) = Cardinality(Spread(A)) /\ IsFiniteSet(Spread(A))
      /\ SumFunction(f) \in Nat
  BY SumIsSpread
<1>2. ASSUME NEW i \in DOMAIN f, f[i] > 0 PROVE Spread(A) # {}
  <2>1. 1 \in 1 .. f[i]
    BY <1>2 DEF Counts
  <2>2. <<i, 1>> \in Spread(A)
    BY <2>1 DEF Spread
  <2> QED BY <2>2
<1>3. ASSUME Spread(A) # {} PROVE \E i \in DOMAIN f : f[i] > 0
  <2>1. PICK i \in DOMAIN f : \E p \in {i} \X (1 .. f[i]) : TRUE
    BY <1>3 DEF Spread
  <2>2. f[i] \in Nat /\ 1 .. f[i] # {}
    BY <2>1 DEF Counts
  <2> QED BY <2>2
<1> HIDE DEF A
<1>4. SumFunction(f) = 0 <=> Spread(A) = {}
  BY <1>1, FS_EmptySet
<1> QED BY <1>1, <1>2, <1>3, <1>4

\* The order of its terms does not change a sum.
LEMMA SumIsPermuted ==
    ASSUME NEW f, NEW g, Counts(g), NEW b \in Bijection(DOMAIN f, DOMAIN g),
           \A i \in DOMAIN f : f[i] = g[b[i]]
    PROVE  SumFunction(f) = SumFunction(g) /\ Counts(f)
<1>1. /\ b \in Injection(DOMAIN f, DOMAIN g)
      /\ b \in [DOMAIN f -> DOMAIN g]
      /\ \A x, y \in DOMAIN f : b[x] = b[y] => x = y
      /\ \A y \in DOMAIN g : \E x \in DOMAIN f : b[x] = y
  BY DEF Bijection, Injection, Surjection, IsInjective
<1>2. IsFiniteSet(DOMAIN f)
  BY <1>1, FS_Injection DEF Counts
<1>3. Counts(f)
  BY <1>1, <1>2 DEF Counts
<1> DEFINE A == [i \in DOMAIN f |-> 1 .. f[i]]
           B == [i \in DOMAIN g |-> 1 .. g[i]]
           c == [p \in Spread(A) |-> <<b[p[1]], p[2]>>]
<1>4. /\ SumFunction(f) = Cardinality(Spread(A)) /\ IsFiniteSet(Spread(A))
      /\ SumFunction(g) = Cardinality(Spread(B))
  BY <1>3, SumIsSpread
<1>5. /\ \A p : p \in Spread(A) <=> \E i \in DOMAIN f : \E k \in 1 .. f[i] : p = <<i, k>>
      /\ \A p : p \in Spread(B) <=> \E i \in DOMAIN g : \E k \in 1 .. g[i] : p = <<i, k>>
  BY DEF Spread
<1> HIDE DEF A, B
<1>6. c \in [Spread(A) -> Spread(B)]
  <2> SUFFICES ASSUME NEW p \in Spread(A) PROVE <<b[p[1]], p[2]>> \in Spread(B)
    OBVIOUS
  <2>1. PICK i \in DOMAIN f : \E k \in 1 .. f[i] : p = <<i, k>>
    BY <1>5
  <2>2. b[i] \in DOMAIN g /\ p = <<i, p[2]>> /\ p[2] \in 1 .. g[b[i]]
    BY <1>1, <2>1
  <2> QED BY <1>5, <2>2
<1>7. \A p, q \in Spread(A) : c[p] = c[q] => p = q
  BY <1>1, <1>5
<1>8. \A q \in Spread(B) : \E p \in Spread(A) : c[p] = q
  <2> SUFFICES ASSUME NEW q \in Spread(B) PROVE \E p \in Spread(A) : c[p] = q
    OBVIOUS
  <2>1. PICK j \in DOMAIN g : \E k \in 1 .. g[j] : q = <<j, k>>
    BY <1>5
  <2>2. PICK i \in DOMAIN f : b[i] = j
    BY <1>1
  <2>3. <<i, q[2]>> \in Spread(A) /\ q = <<j, q[2]>>
    BY <1>5, <2>1, <2>2
  <2> QED BY <2>1, <2>2, <2>3
<1>9. c \in Bijection(Spread(A), Spread(B))
  BY <1>6, <1>7, <1>8 DEF Bijection, Injection, Surjection, IsInjective
<1> HIDE DEF c
<1>10. Cardinality(Spread(B)) = Cardinality(Spread(A))
  BY <1>4, <1>9, FS_Bijection DEF ExistsBijection
<1> QED BY <1>3, <1>4, <1>10

\* A sum is between so many times its least term and so many times its greatest.
LEMMA SumIsBetween ==
    ASSUME NEW f, Counts(f), NEW lo \in Nat, NEW hi \in Nat,
           \A i \in DOMAIN f : lo <= f[i] /\ f[i] <= hi
    PROVE  /\ Cardinality(DOMAIN f) \in Nat
           /\ Cardinality(DOMAIN f) * lo <= SumFunction(f)
           /\ SumFunction(f) <= Cardinality(DOMAIN f) * hi
<1>1. Cardinality(DOMAIN f) \in Nat
  BY FS_CardinalityType DEF Counts
<1>2. ASSUME NEW c \in Nat
      PROVE  /\ Counts([i \in DOMAIN f |-> c])
             /\ SumFunction([i \in DOMAIN f |-> c]) = Cardinality(DOMAIN f) * c
  <2> DEFINE g == [i \in DOMAIN f |-> c]
             A == [i \in DOMAIN g |-> 1 .. g[i]]
  <2>1. Counts(g)
    BY DEF Counts
  <2>2. SumFunction(g) = Cardinality(Spread(A))
    BY <2>1, SumIsSpread
  <2>3. Spread(A) = (DOMAIN f) \X (1 .. c)
    <3>1. \A i \in DOMAIN g : A[i] = 1 .. c
      OBVIOUS
    <3>2. DOMAIN A = DOMAIN g /\ DOMAIN A = DOMAIN f
      OBVIOUS
    <3> HIDE DEF A, g
    <3>3. \A p : p \in Spread(A) <=> \E i \in DOMAIN f : p \in {i} \X (1 .. c)
      BY <3>1, <3>2 DEF Spread
    <3> QED BY <3>3
  <2>4. IsFiniteSet(1 .. c) /\ Cardinality(1 .. c) = IF 1 > c THEN 0 ELSE c - 1 + 1
    BY FS_Interval
  <2>5. Cardinality((DOMAIN f) \X (1 .. c)) = Cardinality(DOMAIN f) * Cardinality(1 .. c)
    <3> DEFINE D == DOMAIN f
               T == 1 .. c
    <3>1. IsFiniteSet(D) /\ IsFiniteSet(T)
      BY <2>4 DEF Counts
    <3> HIDE DEF D, T
    <3>2. Cardinality(D \X T) = Cardinality(D) * Cardinality(T)
      BY <3>1, FS_Product
    <3> QED BY <3>2 DEF D, T
  <2>6. Cardinality(1 .. c) = c
    BY <2>4
  <2> HIDE DEF A
  <2> QED BY <2>1, <2>2, <2>3, <2>5, <2>6
<1>3. SumFunction([i \in DOMAIN f |-> lo]) <= SumFunction(f)
  BY <1>2, SumsCompare
<1>4. SumFunction(f) <= SumFunction([i \in DOMAIN f |-> hi])
  BY <1>2, SumsCompare
<1>5. SumFunction([i \in DOMAIN f |-> lo]) = Cardinality(DOMAIN f) * lo
  BY <1>2
<1>6. SumFunction([i \in DOMAIN f |-> hi]) = Cardinality(DOMAIN f) * hi
  BY <1>2
<1> QED BY <1>1, <1>3, <1>4, <1>5, <1>6

\* A count does not depend on the order either.
LEMMA CountIsPermuted ==
    ASSUME NEW D, NEW E, IsFiniteSet(D), NEW b \in Bijection(D, E),
           NEW S \in SUBSET D, NEW T \in SUBSET E, \A i \in D : i \in S <=> b[i] \in T
    PROVE  Cardinality(S) = Cardinality(T)
<1> DEFINE c == [i \in S |-> b[i]]
<1>1. /\ b \in [D -> E]
      /\ \A x, y \in D : b[x] = b[y] => x = y
      /\ \A y \in E : \E x \in D : b[x] = y
  BY DEF Bijection, Injection, Surjection, IsInjective
<1>2. c \in [S -> T] /\ \A x, y \in S : c[x] = c[y] => x = y
  BY <1>1
<1>3. \A y \in T : \E x \in S : c[x] = y
  BY <1>1
<1>4. c \in Bijection(S, T)
  BY <1>2, <1>3 DEF Bijection, Injection, Surjection, IsInjective
<1>5. IsFiniteSet(S)
  BY FS_Subset
<1> HIDE DEF c
<1> QED BY <1>4, <1>5, FS_Bijection DEF ExistsBijection

-----------------------------------------------------------------------------
(* Orders                                                                  *)

\* before puts every two members of S in an order.
Orders(before, S) ==
    /\ \A x \in S : <<x, x>> \notin before
    /\ \A x, y \in S : x # y => <<x, y>> \in before \/ <<y, x>> \in before
    /\ \A x, y, z \in S : <<x, y>> \in before /\ <<y, z>> \in before => <<x, z>> \in before

Arranges(order, S, before) ==
    /\ order \in [1 .. Cardinality(S) -> S]
    /\ \A i, j \in 1 .. Cardinality(S) : i < j => <<order[i], order[j]>> \in before

\* Each member has a place of its own: after as many as are ahead of it.
LEMMA MembersHavePlaces ==
    ASSUME NEW S, IsFiniteSet(S), NEW before, Orders(before, S)
    PROVE  \E place \in Bijection(S, 1 .. Cardinality(S)) :
              \A x, y \in S : <<x, y>> \in before => place[x] < place[y]
<1> DEFINE n == Cardinality(S)
           Ahead(x) == {y \in S : <<y, x>> \in before}
           place == [x \in S |-> Cardinality(Ahead(x)) + 1]
<1>1. n \in Nat /\ \A x \in S : IsFiniteSet(Ahead(x)) /\ Cardinality(Ahead(x)) \in Nat
  BY FS_CardinalityType, FS_Subset
<1>2. ASSUME NEW x \in S PROVE place[x] \in 1 .. n
  <2>1. IsFiniteSet(S \ {x}) /\ Cardinality(S \ {x}) = n - 1
    BY FS_RemoveElement
  <2>2. Ahead(x) \in SUBSET (S \ {x})
    BY DEF Orders
  <2>3. Cardinality(Ahead(x)) <= Cardinality(S \ {x})
    BY <2>1, <2>2, FS_Subset
  <2> QED BY <1>1, <2>1, <2>3
<1>3. ASSUME NEW x \in S, NEW y \in S, <<x, y>> \in before
      PROVE  place[x] < place[y]
  <2>1. Ahead(x) \in SUBSET (Ahead(y) \ {x}) /\ x \in Ahead(y)
    BY <1>3 DEF Orders
  <2>2. /\ IsFiniteSet(Ahead(y) \ {x})
        /\ Cardinality(Ahead(y) \ {x}) = Cardinality(Ahead(y)) - 1
    BY <1>1, <2>1, FS_RemoveElement
  <2>3. Cardinality(Ahead(x)) <= Cardinality(Ahead(y) \ {x})
    BY <2>1, <2>2, FS_Subset
  <2>4. /\ Cardinality(Ahead(x)) \in Nat /\ Cardinality(Ahead(y)) \in Nat
        /\ Cardinality(Ahead(x)) < Cardinality(Ahead(y))
    BY <1>1, <2>2, <2>3
  <2>5. place[x] = Cardinality(Ahead(x)) + 1 /\ place[y] = Cardinality(Ahead(y)) + 1
    OBVIOUS
  <2> HIDE DEF place, Ahead
  <2> QED BY <2>4, <2>5
<1>4. \A x \in S : place[x] \in Int
  BY <1>1
<1>5. place \in [S -> 1 .. n]
  BY <1>2
<1> HIDE DEF place
<1>6. ASSUME NEW x \in S, NEW y \in S, place[x] = place[y] PROVE x = y
  <2>1. ~ (place[x] < place[y]) /\ ~ (place[y] < place[x])
    BY <1>4, <1>6
  <2> QED BY <1>3, <2>1 DEF Orders
<1>7. place \in Injection(S, 1 .. n)
  BY <1>5, <1>6 DEF Injection, IsInjective
<1>8. IsFiniteSet(1 .. n) /\ Cardinality(1 .. n) = n
  <2>1. IsFiniteSet(1 .. n) /\ Cardinality(1 .. n) = IF 1 > n THEN 0 ELSE n - 1 + 1
    BY <1>1, FS_Interval
  <2> QED BY <1>1, <2>1
<1> HIDE DEF n
<1>9. place \in Surjection(S, 1 .. n)
  BY <1>7, <1>8, FS_Injection DEF n
<1>10. place \in Bijection(S, 1 .. n)
  BY <1>7, <1>9 DEF Bijection
<1> QED BY <1>3, <1>10 DEF n

LEMMA ArrangementExists ==
    ASSUME NEW S, IsFiniteSet(S), NEW before, Orders(before, S)
    PROVE  \E order : Arranges(order, S, before)
<1> DEFINE n == Cardinality(S)
<1>1. PICK place \in Bijection(S, 1 .. n) :
              \A x, y \in S : <<x, y>> \in before => place[x] < place[y]
  BY MembersHavePlaces
<1>2. n \in Nat
  BY FS_CardinalityType
<1> HIDE DEF n
<1>3. /\ place \in [S -> 1 .. n]
      /\ \A k \in 1 .. n : \E x \in S : place[x] = k
  BY <1>1 DEF Bijection, Injection, Surjection
<1> DEFINE order == [k \in 1 .. n |-> CHOOSE x \in S : place[x] = k]
<1>4. \A k \in 1 .. n : order[k] \in S /\ place[order[k]] = k
  BY <1>3
<1>5. order \in [1 .. n -> S]
  BY <1>4
<1> HIDE DEF order
<1>6. ASSUME NEW i \in 1 .. n, NEW j \in 1 .. n, i < j
      PROVE  <<order[i], order[j]>> \in before
  <2>1. order[i] # order[j] /\ order[i] \in S /\ order[j] \in S
    BY <1>4, <1>6
  <2>2. ~ <<order[j], order[i]>> \in before
    BY <1>1, <1>4, <1>6, <2>1
  <2> QED BY <2>1, <2>2 DEF Orders
<1> QED BY <1>5, <1>6 DEF Arranges, n

\* What is put in order is all there, each member once.
LEMMA InOrderIs ==
    ASSUME NEW S, IsFiniteSet(S), NEW before, Orders(before, S)
    PROVE  /\ Cardinality(S) \in Nat
           /\ InOrder(S, before) \in Bijection(1 .. Cardinality(S), S)
           /\ \A i, j \in 1 .. Cardinality(S) :
                 i < j => <<InOrder(S, before)[i], InOrder(S, before)[j]>> \in before
<1> DEFINE n == Cardinality(S)
           order == InOrder(S, before)
<1>1. \E o \in [1 .. Cardinality(S) -> S] :
         \A i, j \in 1 .. Cardinality(S) : i < j => <<o[i], o[j]>> \in before
  BY ArrangementExists DEF Arranges
<1>2. /\ order \in [1 .. n -> S]
      /\ \A i, j \in 1 .. n : i < j => <<order[i], order[j]>> \in before
  BY <1>1 DEF InOrder
<1>3. n \in Nat
  BY FS_CardinalityType
<1> HIDE DEF order
<1>4. ASSUME NEW i \in 1 .. n, NEW j \in 1 .. n, order[i] = order[j] PROVE i = j
  <2>1. order[i] \in S /\ <<order[i], order[i]>> \notin before
    BY <1>2 DEF Orders
  <2>2. ~ (i < j) /\ ~ (j < i)
    BY <1>2, <1>4, <2>1
  <2> QED BY <1>3, <2>2
<1>5. order \in Injection(1 .. n, S)
  BY <1>2, <1>4 DEF Injection, IsInjective
<1>6. Cardinality(1 .. n) = n
  <2>1. Cardinality(1 .. n) = IF 1 > n THEN 0 ELSE n - 1 + 1
    BY <1>3, FS_Interval
  <2> QED BY <1>3, <2>1
<1> HIDE DEF n
<1>7. order \in Surjection(1 .. n, S)
  BY <1>5, <1>6, FS_Injection DEF n
<1> QED BY <1>2, <1>3, <1>5, <1>7 DEF n, order, Bijection

-----------------------------------------------------------------------------
(* Lists                                                                   *)

\* The concatenation of the first sequences of seqs.
Joins(seqs, n, f) == f = [i \in 1 .. n |-> IF i = 1 THEN seqs[i] ELSE f[i - 1] \o seqs[i]]

\* That function exists: the least n without one would follow one that has it.
LEMMA JoinExists ==
    ASSUME NEW seqs, NEW n \in Nat PROVE \E f : Joins(seqs, n, f)
<1> DEFINE T == {m \in Nat : ~ \E f : Joins(seqs, m, f)}
<1> SUFFICES ASSUME n \in T PROVE FALSE
  OBVIOUS
<1>1. PICK m \in T : \A j \in T : m <= j
  BY LeastOf
<1>2. m \in Nat /\ ~ \E f : Joins(seqs, m, f)
  BY <1>1
<1>3. CASE m = 0
  <2>1. Joins(seqs, 0, [i \in 1 .. 0 |-> i])
    BY DEF Joins
  <2> QED BY <1>2, <1>3, <2>1
<1>4. CASE m # 0
  <2>1. m - 1 \in Nat /\ m - 1 \notin T
    BY <1>1, <1>2, <1>4
  <2>2. PICK f : Joins(seqs, m - 1, f)
    BY <2>1
  <2> DEFINE F(i) == IF i < m THEN f[i] ELSE IF i = 1 THEN seqs[i] ELSE f[i - 1] \o seqs[i]
             g == [i \in 1 .. m |-> F(i)]
  <2>3. \A i \in 1 .. m - 1 : f[i] = IF i = 1 THEN seqs[i] ELSE f[i - 1] \o seqs[i]
    BY <2>2 DEF Joins
  <2>4. \A i \in 1 .. m : g[i] = IF i = 1 THEN seqs[i] ELSE g[i - 1] \o seqs[i]
    <3> SUFFICES ASSUME NEW i \in 1 .. m PROVE g[i] = IF i = 1 THEN seqs[i] ELSE g[i - 1] \o seqs[i]
      OBVIOUS
    <3>1. i # 1 => i - 1 \in 1 .. m /\ i - 1 < m
      BY <1>2
    <3>2. i # 1 => g[i - 1] = f[i - 1]
      BY <3>1
    <3>3. i < m => i \in 1 .. m - 1
      BY <1>2
    <3>4. g[i] = F(i)
      OBVIOUS
    <3> HIDE DEF g
    <3> QED BY <2>3, <3>2, <3>3, <3>4
  <2>5. g = [i \in 1 .. m |-> g[i]]
    OBVIOUS
  <2> HIDE DEF g
  <2>6. Joins(seqs, m, g)
    BY <2>4, <2>5 DEF Joins
  <2> QED BY <1>2, <2>6
<1> QED BY <1>3, <1>4

\* FlattenSeq is a concatenation in this sense.
LEMMA FlattenIs ==
    ASSUME NEW seqs, Len(seqs) \in Nat, Len(seqs) # 0
    PROVE  \E f : Joins(seqs, Len(seqs), f) /\ FlattenSeq(seqs) = f[Len(seqs)]
<1> DEFINE n == Len(seqs)
           f == CHOOSE f : Joins(seqs, n, f)
<1>1. Joins(seqs, n, f)
  BY JoinExists
<1>2. FlattenSeq(seqs) = f[n]
  BY DEF FlattenSeq, Joins
<1> QED BY <1>1, <1>2

\* A function on the first n numbers is a list of n.
LEMMA ListOfLength ==
    ASSUME NEW n \in Nat, NEW f, f = [i \in 1 .. n |-> f[i]]
    PROVE  Len(f) = n /\ f \in Seq(ToSet(f))
<1> DEFINE V == {f[i] : i \in 1 .. n}
<1>1. DOMAIN f = 1 .. n
  OBVIOUS
<1>2. f \in [1 .. n -> V]
  OBVIOUS
<1>3. f \in Seq(V)
  BY <1>2, SeqDef
<1>4. Len(f) \in Nat /\ 1 .. Len(f) = 1 .. n
  BY <1>1, <1>3
<1>5. Len(f) = n
  BY <1>4
<1>6. ToSet(f) = V
  BY <1>1 DEF ToSet
<1> QED BY <1>3, <1>5, <1>6

LEMMA ListIsItsOwn ==
    ASSUME NEW V, NEW x \in Seq(V) PROVE x \in Seq(ToSet(x))
<1>1. Len(x) \in Nat /\ x = [i \in 1 .. Len(x) |-> x[i]]
  OBVIOUS
<1> QED BY <1>1, ListOfLength

\* Lists one after the other make a list.
LEMMA FlattenIsList ==
    ASSUME NEW V, NEW seqs \in Seq(Seq(V))
    PROVE  FlattenSeq(seqs) \in Seq(V)
<1> DEFINE n == Len(seqs)
<1>1. n \in Nat /\ \A i \in 1 .. n : seqs[i] \in Seq(V)
  OBVIOUS
<1>2. CASE n = 0
  <2>1. FlattenSeq(seqs) = seqs /\ seqs = << >>
    BY <1>2 DEF FlattenSeq
  <2> QED BY <2>1
<1>3. CASE n # 0
  <2>1. PICK f : Joins(seqs, n, f) /\ FlattenSeq(seqs) = f[n]
    BY <1>1, <1>3, FlattenIs
  <2> DEFINE Bad == {m \in 1 .. n : f[m] \notin Seq(V)}
  <2>2. ASSUME Bad # {} PROVE FALSE
    <3>1. Bad \in SUBSET Nat
      BY <1>1
    <3>2. PICK m \in Bad : \A k \in Bad : m <= k
      BY <2>2, <3>1, LeastOf
    <3>3. m \in 1 .. n /\ f[m] \notin Seq(V)
      BY <3>2
    <3>4. f[m] = IF m = 1 THEN seqs[m] ELSE f[m - 1] \o seqs[m]
      BY <2>1, <3>3 DEF Joins
    <3>5. m # 1
      BY <1>1, <3>3, <3>4
    <3>6. m - 1 \in 1 .. n /\ m - 1 \notin Bad
      BY <1>1, <3>2, <3>3, <3>5
    <3>7. f[m - 1] \in Seq(V) /\ seqs[m] \in Seq(V)
      BY <1>1, <3>3, <3>6
    <3> QED BY <3>3, <3>4, <3>5, <3>7
  <2>3. n \in 1 .. n
    BY <1>1, <1>3
  <2> QED BY <2>1, <2>2, <2>3
<1> QED BY <1>2, <1>3

\* What is picked from a list is a list.
LEMMA PickedIsList ==
    ASSUME NEW s, s \in Seq(ToSet(s)), NEW picked
    PROVE  LET t == FlattenSeq([i \in DOMAIN s |-> IF i \in picked THEN << s[i] >> ELSE << >>])
           IN  t \in Seq(ToSet(s))
<1> DEFINE V == ToSet(s)
           seqs == [i \in DOMAIN s |-> IF i \in picked THEN << s[i] >> ELSE << >>]
<1>1. Len(s) \in Nat /\ DOMAIN s = 1 .. Len(s) /\ \A i \in DOMAIN s : s[i] \in V
  OBVIOUS
<1> HIDE DEF V
<1>2. \A i \in DOMAIN s : (IF i \in picked THEN << s[i] >> ELSE << >>) \in Seq(V)
  BY <1>1
<1>3. seqs \in [1 .. Len(s) -> Seq(V)]
  BY <1>1, <1>2
<1> HIDE DEF seqs
<1>4. seqs \in Seq(Seq(V))
  BY <1>1, <1>3, SeqDef
<1>5. FlattenSeq(seqs) \in Seq(V)
  BY <1>4, FlattenIsList
<1> QED BY <1>5 DEF seqs, V

-----------------------------------------------------------------------------
(* What the overview says of one repository                                *)

\* An overview that fills up: no runs come of an archived repository, and no page
\* before the hygiene.
Proper(s) ==
    /\ s.answer \in [Names -> RepoAnswers]
    /\ \A name \in Arrived(s, "runs") : ~ Archived(s, name)
    /\ s.page # {} => s.hygiene

Shown(s, name) == RepoOverview(RepositoryOf(s, PageOf(s), name), Parts(s, PageOf(s)), Now)

\* A list, also one that is built by its places.
Listlike(f) == Len(f) \in Nat /\ DOMAIN f = 1 .. Len(f)

LEMMA ListsAreListlike == \A x : ListOrNull(x) => Listlike(ListOr(x)) /\ IsList(ListOr(x))
<1> SUFFICES ASSUME NEW x, ListOrNull(x) PROVE Listlike(ListOr(x)) /\ IsList(ListOr(x))
  OBVIOUS
<1>1. CASE x = Nothing
  BY <1>1, EmptySeq DEF ListOr, Listlike, IsList
<1>2. CASE x # Nothing
  BY <1>2 DEF ListOrNull, IsList, ListOr, Listlike
<1> QED BY <1>1, <1>2

LEMMA BuiltIsListlike ==
    ASSUME NEW D, NEW f, f = [i \in 1 .. Len(D) |-> f[i]], Listlike(D)
    PROVE  Listlike(f) /\ Len(f) = Len(D) /\ DOMAIN f = DOMAIN D
BY ListOfLength DEF Listlike

LEMMA KnownIsListlike ==
    ASSUME NEW nodes, ListOrNull(nodes)
    PROVE  Listlike(Known(nodes)) /\ IsList(Known(nodes))
<1> DEFINE s == ListOr(nodes)
           picked == {i \in DOMAIN s : s[i] # Nothing}
<1>1. s \in Seq(ToSet(s))
  BY ListsAreListlike DEF IsList
<1>2. Known(nodes) = FlattenSeq([i \in DOMAIN s |-> IF i \in picked THEN << s[i] >> ELSE << >>])
  <2>1. \A i \in DOMAIN s : i \in picked <=> s[i] # Nothing
    OBVIOUS
  <2> HIDE DEF picked
  <2>2. [i \in DOMAIN s |-> IF i \in picked THEN << s[i] >> ELSE << >>]
          = [i \in DOMAIN s |-> IF s[i] # Nothing THEN << s[i] >> ELSE << >>]
    BY <2>1
  <2> QED BY <2>2 DEF Known, Those
<1> HIDE DEF s, picked
<1>3. Known(nodes) \in Seq(ToSet(s))
  BY <1>1, <1>2, PickedIsList
<1> QED BY <1>3, ListIsItsOwn DEF Listlike, IsList

LEMMA BranchesAreListlike ==
    ASSUME NEW refs, ListOrNull(refs), NEW default
    PROVE  LET b == BranchesWithoutPr(refs, default)
           IN  Listlike(b) /\ b = [i \in 1 .. Len(b) |-> b[i]]
<1> DEFINE s == Known(refs)
           picked == {i \in DOMAIN s : s[i].name # default /\ OrZero(s[i].prs) = 0}
           listed == Those(s, LAMBDA n : n.name # default /\ OrZero(n.prs) = 0)
           branches == [i \in DOMAIN listed |->
                        [name |-> listed[i].name, commit |-> listed[i].commit, stale |-> FALSE]]
           b == BranchesWithoutPr(refs, default)
<1>1. s \in Seq(ToSet(s))
  BY KnownIsListlike DEF IsList
<1>2. listed = FlattenSeq([i \in DOMAIN s |-> IF i \in picked THEN << s[i] >> ELSE << >>])
  <2>1. \A i \in DOMAIN s : i \in picked <=> s[i].name # default /\ OrZero(s[i].prs) = 0
    OBVIOUS
  <2> HIDE DEF picked, s
  <2>2. [i \in DOMAIN s |-> IF i \in picked THEN << s[i] >> ELSE << >>]
          = [i \in DOMAIN s |-> IF s[i].name # default /\ OrZero(s[i].prs) = 0
                                THEN << s[i] >> ELSE << >>]
    BY <2>1
  <2> QED BY <2>2 DEF Those
<1>3. Listlike(listed)
  <2> HIDE DEF s, picked, listed
  <2>1. listed \in Seq(ToSet(s))
    BY <1>1, <1>2, PickedIsList
  <2> QED BY <2>1 DEF Listlike
<1>4. b = [i \in DOMAIN branches |-> b[i]] /\ DOMAIN b = DOMAIN branches
  BY DEF BranchesWithoutPr, SortedBy
<1>5. DOMAIN branches = 1 .. Len(listed) /\ Len(listed) \in Nat
  BY <1>3 DEF Listlike
<1> HIDE DEF listed, branches, b
<1>6. DOMAIN b = 1 .. Len(listed) /\ b = [i \in 1 .. Len(listed) |-> b[i]]
  BY <1>4, <1>5
<1>7. Len(b) = Len(listed)
  BY <1>5, <1>6, ListOfLength
<1> QED BY <1>5, <1>6, <1>7 DEF Listlike, b

\* What is rounded stays between two whole numbers that it is between.
LEMMA RoundIsBetween ==
    ASSUME NEW n \in Nat, NEW d \in Nat \ {0}, NEW lo \in Nat, NEW hi \in Nat,
           d * lo <= n, n <= d * hi
    PROVE  Round(n, d) \in lo .. hi
<1> DEFINE q == n \div d
           r == n % d
<1>1. q \in Nat /\ r \in 0 .. d - 1 /\ n = d * q + r
  OBVIOUS
<1>2. Round(n, d) = IF 2 * r > d \/ (2 * r = d /\ q % 2 = 1) THEN q + 1 ELSE q
  BY DEF Round
<1> HIDE DEF q, r
<1>3. \A a, b \in Nat : a >= b + 1 => d * a >= d * b + d
  <2> SUFFICES ASSUME NEW a \in Nat, NEW b \in Nat, a >= b + 1 PROVE d * a >= d * b + d
    OBVIOUS
  <2>1. PICK e \in Nat : a = b + 1 + e
    <3>1. a - b - 1 \in Nat /\ a = b + 1 + (a - b - 1)
      OBVIOUS
    <3> QED BY <3>1
  <2>2. d * a = d * b + d + d * e
    BY <2>1
  <2>3. d * e \in Nat /\ d * b \in Nat
    OBVIOUS
  <2> QED BY <2>2, <2>3
<1>4. lo <= q
  <2>1. ~ (lo >= q + 1)
    <3>1. d * lo \in Int /\ d * q \in Int
      BY <1>1
    <3> QED BY <1>1, <1>3, <3>1
  <2> QED BY <1>1, <2>1
<1>5. q <= hi
  <2>1. ~ (q >= hi + 1)
    <3>1. d * hi \in Int /\ d * q \in Int
      BY <1>1
    <3> QED BY <1>1, <1>3, <3>1
  <2> QED BY <1>1, <2>1
<1>6. q = hi => r = 0
  <2>1. d * hi \in Int
    OBVIOUS
  <2> QED BY <1>1, <2>1
<1>7. Round(n, d) \in {q, q + 1} /\ (q = hi => Round(n, d) = q)
  BY <1>1, <1>2, <1>6
<1> QED BY <1>1, <1>4, <1>5, <1>7

LEMMA ScoreIsPercent ==
    ASSUME NEW facts PROVE Score(AssessHygiene(facts)) \in 0 .. 100
<1> DEFINE h == AssessHygiene(facts)
           n == Cardinality(Asked(facts))
           c == Cardinality(FailingKeys(h))
<1>1. /\ n \in {8, 9} /\ c \in 0 .. n
      /\ h.applicable => Score(h) = Round(100 * (n - c), n)
      /\ ~ h.applicable => Score(h) = 100
  BY ScoreIs
<1> HIDE DEF h, n, c
<1>2. Round(100 * (n - c), n) \in 0 .. 100
  <2>1. 100 * (n - c) \in Nat /\ n \in Nat \ {0} /\ n * 0 <= 100 * (n - c)
    BY <1>1
  <2>2. 100 * (n - c) <= n * 100
    BY <1>1
  <2> QED BY <2>1, <2>2, RoundIsBetween
<1> QED BY <1>1, <1>2 DEF h

\* The page has the repositories whose nodes came, each with its own branches.
LEMMA PageIs ==
    ASSUME NEW s, Proper(s), NEW name \in Names
    PROVE  LET node == s.answer[name].hygiene
               page == PageOf(s)
           IN  /\ name \in DOMAIN page <=> name \in s.page
               /\ name \in DOMAIN page =>
                    /\ page[name].facts = HygieneFactsFromNode(HygieneNode(s.answer[name], name))
                    /\ page[name].branches = BranchesWithoutPr(node.refs, node.defaultBranch)
<1> DEFINE nodes == [i \in DOMAIN ListedRepos |->
                        IF ListedRepos[i] \in s.page
                        THEN HygieneNode(s.answer[ListedRepos[i]], ListedRepos[i]) ELSE Nothing]
           named == {i \in DOMAIN nodes : nodes[i] # Nothing /\ nodes[i].nameWithOwner # Nothing}
           LastNode(n) == nodes[Max({i \in named : nodes[i].nameWithOwner = n})]
<1>1. PageOf(s) = HygieneFromNodes(nodes)
  BY DEF PageOf
<1>2. /\ DOMAIN HygieneFromNodes(nodes) = {nodes[i].nameWithOwner : i \in named}
      /\ \A n \in DOMAIN HygieneFromNodes(nodes) :
            HygieneFromNodes(nodes)[n] =
               [facts    |-> HygieneFactsFromNode(LastNode(n)),
                branches |-> BranchesWithoutPr(LastNode(n).refs, LastNode(n).defaultBranch)]
  BY DEF HygieneFromNodes
<1>3. ASSUME NEW i \in DOMAIN ListedRepos
      PROVE  LET n == ListedRepos[i]
                 node == HygieneNode(s.answer[n], n)
             IN  /\ n \in Names /\ n # Nothing /\ node # Nothing
                 /\ node.nameWithOwner = n
                 /\ node.refs = s.answer[n].hygiene.refs
                 /\ node.defaultBranch = s.answer[n].hygiene.defaultBranch
  <2>1. ListedRepos[i] \in Names /\ ListedRepos[i] # Nothing
    BY ListedAssumption DEF Names, ToSet
  <2>2. /\ {"nameWithOwner", "refs", "defaultBranch"} \subseteq DOMAIN s.answer[ListedRepos[i]].hygiene
        /\ HygieneNode(s.answer[ListedRepos[i]], ListedRepos[i]) # Nothing
    BY <2>1, AnswerAssumption DEF Proper, HygieneFields
  <2> QED BY <2>1, <2>2 DEF HygieneNode
<1>4. \A i \in DOMAIN ListedRepos :
         nodes[i] = IF ListedRepos[i] \in s.page
                    THEN HygieneNode(s.answer[ListedRepos[i]], ListedRepos[i]) ELSE Nothing
  OBVIOUS
<1>5. DOMAIN nodes = DOMAIN ListedRepos
  OBVIOUS
<1> HIDE DEF nodes
<1>6. /\ named = {i \in DOMAIN ListedRepos : ListedRepos[i] \in s.page}
      /\ \A i \in named : nodes[i].nameWithOwner = ListedRepos[i]
  BY <1>3, <1>4, <1>5
<1> HIDE DEF named
<1>7. PICK k \in DOMAIN ListedRepos : ListedRepos[k] = name
  BY DEF Names, ToSet
<1>8. \A i \in DOMAIN ListedRepos : ListedRepos[i] = name => i = k
  BY <1>7, ListedAssumption DEF IsInjective
<1>9. name \in DOMAIN HygieneFromNodes(nodes) <=> name \in s.page
  BY <1>2, <1>6, <1>7, <1>8
<1>10. ASSUME name \in s.page PROVE LastNode(name) = HygieneNode(s.answer[name], name)
  <2>1. {i \in named : nodes[i].nameWithOwner = name} = {k}
    BY <1>6, <1>7, <1>8, <1>10
  <2>2. Max({k}) = k
    <3>1. k \in Int
      BY ListedAssumption
    <3> QED BY <3>1 DEF Max
  <2> QED BY <1>4, <1>7, <1>10, <2>1, <2>2
<1>11. /\ HygieneNode(s.answer[name], name).refs = s.answer[name].hygiene.refs
       /\ HygieneNode(s.answer[name], name).defaultBranch = s.answer[name].hygiene.defaultBranch
  BY <1>3, <1>7
<1>12. ASSUME name \in DOMAIN PageOf(s)
       PROVE  /\ PageOf(s)[name].facts = HygieneFactsFromNode(HygieneNode(s.answer[name], name))
              /\ PageOf(s)[name].branches =
                    BranchesWithoutPr(s.answer[name].hygiene.refs,
                                      s.answer[name].hygiene.defaultBranch)
  <2>1. LastNode(name) = HygieneNode(s.answer[name], name)
    BY <1>1, <1>9, <1>10, <1>12
  <2> HIDE DEF LastNode
  <2>2. PageOf(s)[name] = [facts    |-> HygieneFactsFromNode(LastNode(name)),
                           branches |-> BranchesWithoutPr(LastNode(name).refs, LastNode(name).defaultBranch)]
    BY <1>1, <1>2, <1>12
  <2> QED BY <1>11, <2>1, <2>2
<1> HIDE DEF LastNode
<1> QED BY <1>1, <1>9, <1>12

PrsOf(answer) ==
    LET prs == Known(answer.node.pullRequests)
    IN  [i \in DOMAIN prs |-> MarkedPr(PullRequestFromNode(prs[i], Bots), Now)]

IssuesOf(answer) ==
    LET issues == Known(answer.node.issues)
    IN  [i \in DOMAIN issues |->
            Marked([number |-> issues[i].number, created |-> issues[i].createdAt,
                    updated |-> issues[i].updatedAt, stale |-> FALSE, age |-> 0], Now)]

BranchesOf(answer) ==
    LET branches == BranchesWithoutPr(answer.hygiene.refs, answer.hygiene.defaultBranch)
    IN  [i \in DOMAIN branches |-> MarkedBranch(branches[i], Now)]

\* What an overview says of a repository, part by part.
LEMMA RepositoryIs ==
    ASSUME NEW s, Proper(s), NEW name \in Names
    PROVE  LET r == Shown(s, name).repository
               answer == s.answer[name]
               paged == name \in s.page
           IN  /\ r.name = name /\ r.private = answer.node.isPrivate
               /\ r.pushed = answer.node.pushedAt /\ r.openPrs = answer.node.openPrs
               /\ r.prs = PrsOf(answer) /\ r.issues = IssuesOf(answer)
               /\ r.branches = IF paged THEN BranchesOf(answer) ELSE << >>
<1> DEFINE node == [s.answer[name].node EXCEPT !.nameWithOwner = name]
           repo == RepositoryFromNode(node, Bots)
           page == PageOf(s)
           shown == RepositoryOf(s, page, name)
           branches == BranchesWithoutPr(s.answer[name].hygiene.refs, s.answer[name].hygiene.defaultBranch)
<1>1. DOMAIN s.answer[name].node = RepositoryFields
  BY AnswerAssumption DEF Proper
<1>2. /\ node.nameWithOwner = name /\ node.isPrivate = s.answer[name].node.isPrivate
      /\ node.pushedAt = s.answer[name].node.pushedAt
      /\ node.openPrs = s.answer[name].node.openPrs
      /\ node.pullRequests = s.answer[name].node.pullRequests
      /\ node.issues = s.answer[name].node.issues
  BY <1>1 DEF RepositoryFields
<1> HIDE DEF node
<1>3. /\ repo.name = name /\ repo.private = s.answer[name].node.isPrivate
      /\ repo.pushed = s.answer[name].node.pushedAt
      /\ repo.openPrs = s.answer[name].node.openPrs
      /\ repo.prs = [i \in DOMAIN Known(s.answer[name].node.pullRequests) |->
                        PullRequestFromNode(Known(s.answer[name].node.pullRequests)[i], Bots)]
      /\ repo.issues = [i \in DOMAIN Known(s.answer[name].node.issues) |->
                           LET issue == Known(s.answer[name].node.issues)[i]
                           IN  [number |-> issue.number, created |-> issue.createdAt,
                                updated |-> issue.updatedAt, stale |-> FALSE, age |-> 0]]
      /\ repo.branches = << >>
      /\ DOMAIN repo = {"name", "private", "archived", "pushed", "openPrs", "prs", "issues", "branches"}
  BY <1>2 DEF RepositoryFromNode
<1> HIDE DEF repo
<1>4. /\ DOMAIN shown = DOMAIN repo
      /\ \A f \in DOMAIN repo \ {"branches"} : shown[f] = repo[f]
      /\ shown.branches = IF name \in s.page THEN branches ELSE << >>
  <2>1. name \in DOMAIN page <=> name \in s.page
    BY PageIs
  <2>2. name \in DOMAIN page => page[name].branches = branches
    BY PageIs
  <2> HIDE DEF page, branches
  <2>3. shown = IF name \in DOMAIN page THEN [repo EXCEPT !.branches = page[name].branches]
                ELSE repo
    BY DEF RepositoryOf, repo, node
  <2> HIDE DEF shown
  <2> QED BY <1>3, <2>1, <2>2, <2>3
<1> HIDE DEF shown, page, branches
<1>5. /\ shown.name = name /\ shown.private = s.answer[name].node.isPrivate
      /\ shown.pushed = s.answer[name].node.pushedAt
      /\ shown.openPrs = s.answer[name].node.openPrs
      /\ shown.prs = repo.prs /\ shown.issues = repo.issues
      /\ "prs" \in DOMAIN shown /\ "issues" \in DOMAIN shown /\ "branches" \in DOMAIN shown
  BY <1>3, <1>4
<1> DEFINE marked == MarkStale(shown, Now)
<1>6. /\ \A f \in DOMAIN shown \ {"prs", "issues", "branches"} : marked[f] = shown[f]
      /\ marked.prs = [i \in DOMAIN shown.prs |-> MarkedPr(shown.prs[i], Now)]
      /\ marked.issues = [i \in DOMAIN shown.issues |-> Marked(shown.issues[i], Now)]
      /\ marked.branches = [i \in DOMAIN shown.branches |-> MarkedBranch(shown.branches[i], Now)]
  BY <1>5 DEF MarkStale
<1>7. Shown(s, name).repository = marked
  BY DEF Shown, RepoOverview, shown, page
<1> HIDE DEF marked
<1>8. marked.prs = PrsOf(s.answer[name])
  <2> DEFINE raw == Known(s.answer[name].node.pullRequests)
             read(i) == PullRequestFromNode(raw[i], Bots)
  <2>1. repo.prs = [i \in DOMAIN raw |-> read(i)]
    BY <1>3
  <2>2. PrsOf(s.answer[name]) = [i \in DOMAIN raw |-> MarkedPr(read(i), Now)]
    BY DEF PrsOf
  <2> HIDE DEF raw, read
  <2> QED BY <1>5, <1>6, <2>1, <2>2
<1>9. marked.issues = IssuesOf(s.answer[name])
  <2> DEFINE raw == Known(s.answer[name].node.issues)
             read(i) == [number |-> raw[i].number, created |-> raw[i].createdAt,
                         updated |-> raw[i].updatedAt, stale |-> FALSE, age |-> 0]
  <2>1. repo.issues = [i \in DOMAIN raw |-> read(i)]
    BY <1>3
  <2>2. IssuesOf(s.answer[name]) = [i \in DOMAIN raw |-> Marked(read(i), Now)]
    BY DEF IssuesOf
  <2> HIDE DEF raw, read
  <2> QED BY <1>5, <1>6, <2>1, <2>2
<1>10. marked.branches = IF name \in s.page THEN BranchesOf(s.answer[name]) ELSE << >>
  <2>1. CASE name \in s.page
    BY <1>4, <1>6, <2>1 DEF BranchesOf, branches
  <2>2. CASE name \notin s.page
    BY <1>4, <1>6, <2>2, EmptySeq
  <2> QED BY <2>1, <2>2
<1> QED BY <1>3, <1>4, <1>5, <1>6, <1>7, <1>8, <1>9, <1>10

LEMMA PartsAre ==
    ASSUME NEW s, Proper(s), NEW name \in Names
    PROVE  LET r == Shown(s, name)
               answer == s.answer[name]
               paged == name \in s.page
           IN  /\ r.ci = MarkLongRunning(CiOfRepo(s, name), Now)
               /\ r.security = IF Archived(s, name) THEN ArchivedSecurity(answer)
                               ELSE IF name \in Arrived(s, "security") THEN Details(answer).security
                               ELSE NoSecurity
               /\ r.release = ReleaseOf(answer, name \in Arrived(s, "release"))
               /\ r.hygiene = IF paged
                              THEN AssessHygiene(HygieneFactsFromNode(HygieneNode(answer, name)))
                              ELSE NoHygiene
               /\ r.usage = IF name \in Arrived(s, "usage") THEN Usage(s, name) ELSE NoUsage
<1> DEFINE page == PageOf(s)
           repo == RepositoryOf(s, page, name)
           parts == Parts(s, page)
           secured == Arrived(s, "security")
           released == Arrived(s, "release")
           r == Shown(s, name)
<1>1. repo.name = name
  <2>2. DOMAIN s.answer[name].node = RepositoryFields
    BY AnswerAssumption DEF Proper
  <2> DEFINE bare == RepositoryFromNode([s.answer[name].node EXCEPT !.nameWithOwner = name], Bots)
  <2>3. repo.name = bare.name
    <3>1. "name" \in DOMAIN bare
      BY DEF RepositoryFromNode
    <3>2. repo = IF name \in DOMAIN page THEN [bare EXCEPT !.branches = page[name].branches] ELSE bare
      BY DEF RepositoryOf
    <3> HIDE DEF bare, page, repo
    <3> QED BY <3>1, <3>2
  <2>4. [s.answer[name].node EXCEPT !.nameWithOwner = name].nameWithOwner = name
    BY <2>2 DEF RepositoryFields
  <2> QED BY <2>3, <2>4 DEF RepositoryFromNode
<1>2. name \in DOMAIN page <=> name \in s.page
  BY PageIs
<1>3. name \in DOMAIN page =>
         page[name].facts = HygieneFactsFromNode(HygieneNode(s.answer[name], name))
  BY PageIs
<1>4. /\ r.ci = MarkLongRunning(GetOr(parts.ci, name, ClassifyCi(<< >>, Nothing)), Now)
      /\ r.security = GetOr(parts.security, name, NoSecurity)
      /\ r.release = GetOr(parts.release, name, Nothing)
      /\ r.hygiene = GetOr(parts.hygiene, name, NoHygiene)
      /\ r.usage = GetOr(parts.usage, name, NoUsage)
  <2> HIDE DEF repo, parts, page
  <2>1. r = RepoOverview(repo, parts, Now)
    BY DEF Shown, repo, parts, page
  <2> QED BY <1>1, <2>1 DEF RepoOverview
<1>5. /\ parts.ci = [n \in Names |-> CiOfRepo(s, n)]
      /\ parts.security = [n \in secured \cup {m \in Names : Archived(s, m)} |-> SecurityOf(s, n)]
      /\ parts.release = [n \in Names |-> ReleaseOf(s.answer[n], n \in released)]
      /\ parts.hygiene = [n \in DOMAIN page |-> AssessHygiene(page[n].facts)]
      /\ parts.usage = [n \in Arrived(s, "usage") |-> Usage(s, n)]
  BY DEF Parts
<1> HIDE DEF parts, page, repo, r
<1>6. r.ci = MarkLongRunning(CiOfRepo(s, name), Now)
  BY <1>4, <1>5 DEF GetOr
<1>7. r.security = IF Archived(s, name) THEN ArchivedSecurity(s.answer[name])
                   ELSE IF name \in secured THEN Details(s.answer[name]).security
                   ELSE NoSecurity
  <2> HIDE DEF secured
  <2> QED BY <1>4, <1>5 DEF GetOr, SecurityOf
<1>8. r.release = ReleaseOf(s.answer[name], name \in released)
  <2> HIDE DEF released
  <2> QED BY <1>4, <1>5 DEF GetOr
<1>9. r.hygiene = IF name \in s.page
                  THEN AssessHygiene(HygieneFactsFromNode(HygieneNode(s.answer[name], name)))
                  ELSE NoHygiene
  BY <1>2, <1>3, <1>4, <1>5 DEF GetOr
<1>10. r.usage = IF name \in Arrived(s, "usage") THEN Usage(s, name) ELSE NoUsage
  BY <1>4, <1>5 DEF GetOr
<1> QED BY <1>6, <1>7, <1>8, <1>9, <1>10 DEF r, secured, released

LEMMA PlacesCount ==
    ASSUME NEW f, Listlike(f)
    PROVE  /\ IsFiniteSet(DOMAIN f) /\ Cardinality(DOMAIN f) = Len(f)
           /\ \A S \in SUBSET DOMAIN f :
                 IsFiniteSet(S) /\ Cardinality(S) \in Nat /\ Cardinality(S) <= Len(f)
<1>1. IsFiniteSet(1 .. Len(f)) /\ Cardinality(1 .. Len(f)) = Len(f)
  <2>1. Len(f) \in Nat /\ 0 \in Nat /\ 0 + 1 .. 0 + Len(f) = 1 .. Len(f)
    BY DEF Listlike
  <2> QED BY <2>1, IntervalCounts
<1> QED BY <1>1, FS_Subset, FS_CardinalityType DEF Listlike

\* What is shown of runs: every one of them, and how many have failed.
RunsRead(runs, error) ==
    /\ Listlike(runs)
    /\ error # Nothing => runs = << >>
    /\ \A i \in DOMAIN runs : {"status", "updated", "long"} \subseteq DOMAIN runs[i]

LEMMA MarkedCiIs ==
    ASSUME NEW runs, NEW error, RunsRead(runs, error)
    PROVE  LET ci == MarkLongRunning(ClassifyCi(runs, error), Now)
           IN  /\ DOMAIN ci.runs = DOMAIN runs
               /\ \A i \in DOMAIN runs : /\ ci.runs[i].status = runs[i].status
                                         /\ ci.runs[i].updated = runs[i].updated
               /\ ci.failed = Cardinality({i \in DOMAIN runs : Failed(runs[i])})
               /\ ci.failed \in Nat /\ ci.active \in Nat /\ ci.long \in Nat
               /\ ci.state = "failing" <=> \E i \in DOMAIN runs : Failed(runs[i])
<1> USE DEF RunsRead
<1> DEFINE plain == ClassifyCi(runs, error)
           Long(r) == Active(r) /\ Now - r.created >= LongRunAfter
           long == Cardinality({i \in DOMAIN plain.runs : Long(plain.runs[i])})
           ci == MarkLongRunning(plain, Now)
           failed == Cardinality({i \in DOMAIN runs : Failed(runs[i])})
           active == Cardinality({i \in DOMAIN runs : Active(runs[i])})
<1>1. failed \in Nat /\ active \in Nat /\ Cardinality({i \in DOMAIN runs : Long(runs[i])}) \in Nat
  BY PlacesCount
<1>2. runs = << >> => failed = 0
  BY EmptySeq, FS_EmptySet
<1>3. /\ plain.runs = runs /\ plain.failed = failed /\ plain.active \in Nat
      /\ plain.state = "failing" <=> \E i \in DOMAIN runs : Failed(runs[i])
      /\ DOMAIN plain = {"state", "runs", "failed", "active", "long", "seconds"}
  <2> HIDE DEF failed, active
  <2>1. CASE error # Nothing
    BY <1>2, <2>1, EmptySeq DEF ClassifyCi, RepoCi
  <2>2. CASE error = Nothing /\ runs = << >>
    BY <1>2, <2>2, EmptySeq DEF ClassifyCi, RepoCi
  <2>3. CASE error = Nothing /\ runs # << >>
    <3>1. plain = RepoCi(CiStateOf(runs), runs, CountOf(runs, Failed), CountOf(runs, Active),
                         SumOf(runs, Duration))
      BY <2>3 DEF ClassifyCi
    <3>2. CountOf(runs, Failed) = failed /\ CountOf(runs, Active) = active
      BY DEF CountOf, failed, active
    <3>3. CiStateOf(runs) = "failing" <=> \E i \in DOMAIN runs : Failed(runs[i])
      BY DEF CiStateOf
    <3> HIDE DEF plain
    <3> QED BY <1>1, <3>1, <3>2, <3>3 DEF RepoCi
  <2> QED BY <2>1, <2>2, <2>3
<1>4. long = CountOf(plain.runs, Long)
  BY DEF CountOf
<1>5. /\ ci.runs = [i \in DOMAIN plain.runs |-> [plain.runs[i] EXCEPT !.long = Long(plain.runs[i])]]
      /\ ci.long = long /\ ci.failed = plain.failed /\ ci.active = plain.active
      /\ ci.state = plain.state
  <2> HIDE DEF plain, long
  <2> QED BY <1>3, <1>4 DEF MarkLongRunning
<1> HIDE DEF plain, ci, failed, active
<1>6. /\ DOMAIN ci.runs = DOMAIN runs
      /\ \A i \in DOMAIN runs : ci.runs[i] = [runs[i] EXCEPT !.long = Long(runs[i])]
  BY <1>3, <1>5
<1>7. \A i \in DOMAIN runs : ci.runs[i].status = runs[i].status /\ ci.runs[i].updated = runs[i].updated
  BY <1>6
<1>8. long \in Nat
  BY <1>1, <1>3
<1> HIDE DEF long
<1> QED BY <1>1, <1>3, <1>5, <1>6, <1>7, <1>8 DEF ci, plain, failed

-----------------------------------------------------------------------------
(* The totals, as sums of what every repository adds                       *)

\* What one repository adds to the totals.
Figures(r) ==
    LET prs == r.repository.prs
        branches == r.repository.branches
        CountPrs(P(_)) == CountOf(prs, P)
    IN  [failed_runs           |-> r.ci.failed,
         active_runs           |-> r.ci.active,
         long_running_runs     |-> r.ci.long,
         listed                |-> Len(prs),
         open_prs              |-> r.repository.openPrs,
         human_prs             |-> HumanPrs(r),
         bot_prs               |-> CountPrs(LAMBDA p : p.bot),
         stale_prs             |-> CountPrs(LAMBDA p : p.stale),
         prs_ready             |-> CountPrs(LAMBDA p : PrState(p) = "ready"),
         prs_changes_requested |-> CountPrs(LAMBDA p : PrState(p) = "changes_requested"),
         prs_failing           |-> CountPrs(LAMBDA p : PrState(p) \in {"failing", "conflict"}),
         stale_issues          |-> CountOf(r.repository.issues, LAMBDA i : i.stale),
         security_critical     |-> AtLevel(r.security, "critical"),
         security_high         |-> AtLevel(r.security, "high"),
         security_total        |-> SecurityTotal(r.security),
         secret_alerts         |-> OrZero(r.security.secrets),
         unreleased_commits    |-> IF r.release = Nothing THEN 0 ELSE OrZero(r.release.unreleased),
         branches_without_pr   |-> Len(branches),
         stale_branches        |-> CountOf(branches, LAMBDA b : b.stale),
         ci_seconds_month      |-> r.usage.seconds,
         ci_seconds_month_private |-> IF r.repository.private THEN r.usage.seconds ELSE 0,
         ci_seconds_month_public  |-> IF r.repository.private THEN 0 ELSE r.usage.seconds]

SummedKeys ==
    {"failed_runs", "active_runs", "long_running_runs", "open_prs", "human_prs", "bot_prs",
     "stale_prs", "prs_ready", "prs_changes_requested", "prs_failing", "stale_issues",
     "security_critical", "security_high", "security_total", "secret_alerts",
     "unreleased_commits", "branches_without_pr", "stale_branches", "ci_seconds_month",
     "ci_seconds_month_private", "ci_seconds_month_public"}

Added(repos, key) == SumFunction([i \in DOMAIN repos |-> Figures(repos[i])[key]])

FailingPlaces(repos) == {i \in DOMAIN repos : repos[i].ci.state = "failing"}
AlertedPlaces(repos) == {i \in DOMAIN repos : SecurityTotal(repos[i].security) > 0}

LEMMA TotalsAreSums ==
    ASSUME NEW repos, NEW inbox
    PROVE  LET t == TotalsOf(repos, inbox)
           IN  /\ \A key \in SummedKeys : t[key] = Added(repos, key)
               /\ t.repos_failing = Cardinality(FailingPlaces(repos))
               /\ t.repos_with_alerts = Cardinality(AlertedPlaces(repos))
               /\ t.inbox_total = SumFunction([i \in DOMAIN inbox |-> Len(inbox[i])])
               /\ t.hygiene_average = HygieneAverage(repos)
               /\ t.repos_without = [key \in CountedKeys |-> ReposMissing(repos, key)]
               /\ SumOf(repos, LAMBDA r : Len(r.repository.prs)) = Added(repos, "listed")
<1> DEFINE t == TotalsOf(repos, inbox)
<1>1. /\ t.failed_runs = Added(repos, "failed_runs")
      /\ t.active_runs = Added(repos, "active_runs")
      /\ t.long_running_runs = Added(repos, "long_running_runs")
  BY DEF TotalsOf, Added, Figures, SumOf, CountOf
<1>2. /\ t.open_prs = Added(repos, "open_prs")
      /\ t.human_prs = Added(repos, "human_prs")
      /\ t.bot_prs = Added(repos, "bot_prs")
  BY DEF TotalsOf, Added, Figures, SumOf, CountOf
<1>3. /\ t.stale_prs = Added(repos, "stale_prs")
      /\ t.prs_ready = Added(repos, "prs_ready")
      /\ t.prs_changes_requested = Added(repos, "prs_changes_requested")
  BY DEF TotalsOf, Added, Figures, SumOf, CountOf
<1>4. /\ t.prs_failing = Added(repos, "prs_failing")
      /\ t.stale_issues = Added(repos, "stale_issues")
      /\ t.security_critical = Added(repos, "security_critical")
  BY DEF TotalsOf, Added, Figures, SumOf, CountOf
<1>5. /\ t.security_high = Added(repos, "security_high")
      /\ t.security_total = Added(repos, "security_total")
      /\ t.secret_alerts = Added(repos, "secret_alerts")
  BY DEF TotalsOf, Added, Figures, SumOf, CountOf
<1>6. /\ t.unreleased_commits = Added(repos, "unreleased_commits")
      /\ t.branches_without_pr = Added(repos, "branches_without_pr")
      /\ t.stale_branches = Added(repos, "stale_branches")
  BY DEF TotalsOf, Added, Figures, SumOf, CountOf
<1>7. /\ t.ci_seconds_month = Added(repos, "ci_seconds_month")
      /\ t.ci_seconds_month_private = Added(repos, "ci_seconds_month_private")
      /\ t.ci_seconds_month_public = Added(repos, "ci_seconds_month_public")
  BY DEF TotalsOf, Added, Figures, SumOf, CountOf
<1>8. /\ t.repos_failing = Cardinality(FailingPlaces(repos))
      /\ t.repos_with_alerts = Cardinality(AlertedPlaces(repos))
  BY DEF TotalsOf, CountOf, FailingPlaces, AlertedPlaces
<1>9. /\ t.inbox_total = SumFunction([i \in DOMAIN inbox |-> Len(inbox[i])])
      /\ t.hygiene_average = HygieneAverage(repos)
      /\ t.repos_without = [key \in CountedKeys |-> ReposMissing(repos, key)]
  BY DEF TotalsOf, SumOf
<1>10. SumOf(repos, LAMBDA r : Len(r.repository.prs)) = Added(repos, "listed")
  BY DEF Added, Figures, SumOf
<1> HIDE DEF t
<1>11. \A key \in SummedKeys : t[key] = Added(repos, key)
  BY <1>1, <1>2, <1>3, <1>4, <1>5, <1>6, <1>7 DEF SummedKeys
<1> QED BY <1>8, <1>9, <1>10, <1>11 DEF t

-----------------------------------------------------------------------------
(* What one repository adds                                                *)

LEMMA MaxOfTwo ==
    ASSUME NEW a \in Int, NEW b \in Int PROVE Max({a, b}) = IF a >= b THEN a ELSE b
BY DEF Max

\* Places that differ in what they are counted for are no more than there are.
Shares(f, S, T) ==
    /\ Listlike(f) /\ S \in SUBSET DOMAIN f /\ T \in SUBSET DOMAIN f
    /\ \A i \in S : i \notin T

LEMMA SharesCount ==
    ASSUME NEW f, NEW S, NEW T, Shares(f, S, T)
    PROVE  /\ Cardinality(S \cup T) = Cardinality(S) + Cardinality(T)
           /\ Cardinality(S) \in Nat /\ Cardinality(T) \in Nat
           /\ Cardinality(S) + Cardinality(T) <= Len(f)
<1> USE DEF Shares
<1>1. IsFiniteSet(S) /\ IsFiniteSet(T) /\ Cardinality(S) \in Nat /\ Cardinality(T) \in Nat
  BY PlacesCount
<1>2. Cardinality(S \cup T) <= Len(f) /\ Cardinality(DOMAIN f) = Len(f)
  BY PlacesCount
<1>3. Cardinality(S \cup T) = Cardinality(S) + Cardinality(T) - Cardinality(S \cap T)
  BY <1>1, FS_Union
<1>4. Cardinality(S \cap T) = 0
  BY FS_EmptySet
<1> QED BY <1>1, <1>2, <1>3, <1>4

LEMMA ShownListsAreListlike ==
    ASSUME NEW answer \in RepoAnswers
    PROVE  Listlike(PrsOf(answer)) /\ Listlike(IssuesOf(answer)) /\ Listlike(BranchesOf(answer))
<1> DEFINE prs == Known(answer.node.pullRequests)
           issues == Known(answer.node.issues)
           branches == BranchesWithoutPr(answer.hygiene.refs, answer.hygiene.defaultBranch)
<1>1. Listlike(prs) /\ Listlike(issues)
  BY AnswerAssumption, KnownIsListlike
<1>2. Listlike(branches)
  BY AnswerAssumption, BranchesAreListlike
<1>3. /\ PrsOf(answer) = [i \in DOMAIN prs |-> PrsOf(answer)[i]]
      /\ IssuesOf(answer) = [i \in DOMAIN issues |-> IssuesOf(answer)[i]]
      /\ BranchesOf(answer) = [i \in DOMAIN branches |-> BranchesOf(answer)[i]]
  BY DEF PrsOf, IssuesOf, BranchesOf
<1> HIDE DEF prs, issues, branches
<1>4. /\ PrsOf(answer) = [i \in 1 .. Len(prs) |-> PrsOf(answer)[i]]
      /\ IssuesOf(answer) = [i \in 1 .. Len(issues) |-> IssuesOf(answer)[i]]
      /\ BranchesOf(answer) = [i \in 1 .. Len(branches) |-> BranchesOf(answer)[i]]
  BY <1>1, <1>2, <1>3 DEF Listlike
<1> QED BY <1>1, <1>2, <1>4, BuiltIsListlike

\* The pull requests of a repository, sorted into those that count.
LEMMA PrsAddUp ==
    ASSUME NEW s, Proper(s), NEW name \in Names
    PROVE  LET f == Figures(Shown(s, name))
           IN  /\ f.listed \in Nat /\ f.open_prs \in Nat /\ f.human_prs \in Nat
               /\ f.bot_prs \in Nat /\ f.stale_prs \in Nat /\ f.prs_ready \in Nat
               /\ f.prs_changes_requested \in Nat /\ f.prs_failing \in Nat
               /\ f.human_prs + f.bot_prs >= f.open_prs
               /\ f.human_prs + f.bot_prs >= f.listed
               /\ f.prs_ready + f.prs_changes_requested + f.prs_failing <= f.listed
<1> DEFINE r == Shown(s, name)
           f == Figures(r)
           prs == r.repository.prs
           With(P(_)) == {i \in DOMAIN prs : P(prs[i])}
           bots == {i \in DOMAIN prs : prs[i].bot}
           people == {i \in DOMAIN prs : ~ prs[i].bot}
           stale == {i \in DOMAIN prs : prs[i].stale}
           ready == {i \in DOMAIN prs : PrState(prs[i]) = "ready"}
           asked == {i \in DOMAIN prs : PrState(prs[i]) = "changes_requested"}
           failing == {i \in DOMAIN prs : PrState(prs[i]) \in {"failing", "conflict"}}
<1>1. Listlike(prs) /\ r.repository.openPrs \in Nat
  <2>1. s.answer[name] \in RepoAnswers
    BY DEF Proper
  <2>2. r.repository.prs = PrsOf(s.answer[name])
    BY RepositoryIs
  <2>3. r.repository.openPrs = s.answer[name].node.openPrs
    BY RepositoryIs
  <2> QED BY <2>1, <2>2, <2>3, AnswerAssumption, ShownListsAreListlike
<1>2. /\ f.listed = Len(prs) /\ f.open_prs = r.repository.openPrs
      /\ f.bot_prs = Cardinality(bots) /\ f.stale_prs = Cardinality(stale)
      /\ f.prs_ready = Cardinality(ready) /\ f.prs_changes_requested = Cardinality(asked)
      /\ f.prs_failing = Cardinality(failing)
      /\ f.human_prs = Cardinality(people) + Max({0, r.repository.openPrs - Len(prs)})
  BY DEF Figures, CountOf, HumanPrs
<1> HIDE DEF f, r
<1>3. /\ bots \in SUBSET DOMAIN prs /\ people \in SUBSET DOMAIN prs /\ stale \in SUBSET DOMAIN prs
      /\ (\A i \in people : i \notin bots)
      /\ \A i \in DOMAIN prs : i \in people \/ i \in bots
  OBVIOUS
<1>4. /\ ready \in SUBSET DOMAIN prs /\ asked \in SUBSET DOMAIN prs /\ failing \in SUBSET DOMAIN prs
      /\ (\A i \in ready : i \notin asked)
      /\ \A i \in ready \cup asked : i \notin failing
  OBVIOUS
<1> HIDE DEF bots, people, stale, ready, asked, failing, prs
<1>5. /\ Cardinality(people) \in Nat /\ Cardinality(bots) \in Nat
      /\ Cardinality(people) + Cardinality(bots) = Len(prs)
  <2>1. Shares(prs, people, bots)
    BY <1>1, <1>3 DEF Shares
  <2>2. people \cup bots = DOMAIN prs
    BY <1>3
  <2>3. /\ Cardinality(people \cup bots) = Cardinality(people) + Cardinality(bots)
        /\ Cardinality(people) \in Nat /\ Cardinality(bots) \in Nat
    BY <2>1, SharesCount
  <2>4. Cardinality(people \cup bots) = Len(prs)
    <3>1. Cardinality(DOMAIN prs) = Len(prs)
      BY <1>1, PlacesCount
    <3> QED BY <2>2, <3>1
  <2> QED BY <2>3, <2>4
<1>6. /\ Cardinality(ready) \in Nat /\ Cardinality(asked) \in Nat
      /\ Cardinality(ready \cup asked) = Cardinality(ready) + Cardinality(asked)
  <2>1. Shares(prs, ready, asked)
    BY <1>1, <1>4 DEF Shares
  <2> QED BY <2>1, SharesCount
<1>7. /\ Cardinality(failing) \in Nat
      /\ Cardinality(ready \cup asked) + Cardinality(failing) <= Len(prs)
  <2>1. Shares(prs, ready \cup asked, failing)
    BY <1>1, <1>4 DEF Shares
  <2> QED BY <2>1, SharesCount
<1>8. Cardinality(stale) \in Nat /\ Len(prs) \in Nat
  BY <1>1, <1>3, PlacesCount DEF Listlike
<1> DEFINE spare == Max({0, r.repository.openPrs - Len(prs)})
<1>9. spare \in Nat /\ spare >= r.repository.openPrs - Len(prs)
  <2> DEFINE d == r.repository.openPrs - Len(prs)
  <2>1. d \in Int
    BY <1>1, <1>8
  <2>2. spare = Max({0, d})
    BY DEF spare
  <2> HIDE DEF d, spare
  <2>3. spare = IF 0 >= d THEN 0 ELSE d
    BY <2>1, <2>2, MaxOfTwo
  <2>4. spare \in Nat /\ spare >= d
    BY <2>1, <2>3
  <2> QED BY <2>4 DEF d
<1> HIDE DEF spare
<1>13. f.human_prs = Cardinality(people) + spare
  BY <1>2 DEF spare
<1>10. /\ f.listed \in Nat /\ f.open_prs \in Nat /\ f.human_prs \in Nat
       /\ f.bot_prs \in Nat /\ f.stale_prs \in Nat /\ f.prs_ready \in Nat
       /\ f.prs_changes_requested \in Nat /\ f.prs_failing \in Nat
  <2>1. f.listed \in Nat /\ f.open_prs \in Nat
    BY <1>1, <1>2, <1>8
  <2>2. f.human_prs \in Nat
    BY <1>5, <1>9, <1>13
  <2>3. f.bot_prs \in Nat /\ f.stale_prs \in Nat
    BY <1>2, <1>5, <1>8
  <2>4. f.prs_ready \in Nat /\ f.prs_changes_requested \in Nat /\ f.prs_failing \in Nat
    BY <1>2, <1>6, <1>7
  <2> QED BY <2>1, <2>2, <2>3, <2>4
<1>11. f.human_prs + f.bot_prs >= f.open_prs /\ f.human_prs + f.bot_prs >= f.listed
  BY <1>1, <1>2, <1>5, <1>8, <1>9, <1>13
<1>12. f.prs_ready + f.prs_changes_requested + f.prs_failing <= f.listed
  BY <1>2, <1>6, <1>7, <1>8
<1> QED BY <1>10, <1>11, <1>12 DEF f, r

\* Every severity is a part of all alerts.
Told(counts) == counts = Nothing \/ \A level \in SeverityLevels : counts[level] \in Nat

LEMMA CountsAreTold ==
    ASSUME NEW levels, Listlike(levels)
    PROVE  Told(SeverityCounts(levels))
<1>1. \A level \in SeverityLevels :
         SeverityCounts(levels)[level] = Cardinality({i \in DOMAIN levels : levels[i] = level})
  BY DEF SeverityCounts, CountOf
<1>2. \A level : Cardinality({i \in DOMAIN levels : levels[i] = level}) \in Nat
  BY PlacesCount
<1> QED BY <1>1, <1>2 DEF Told

LEMMA SecurityAddsUp ==
    ASSUME NEW s, Proper(s), NEW name \in Names
    PROVE  LET f == Figures(Shown(s, name))
           IN  /\ f.security_critical \in Nat /\ f.security_high \in Nat
               /\ f.secret_alerts \in Nat /\ f.security_total \in Nat
               /\ f.security_critical + f.security_high + f.secret_alerts <= f.security_total
<1> DEFINE sec == Shown(s, name).security
           answer == s.answer[name]
           f == Figures(Shown(s, name))
<1>1. answer \in RepoAnswers
  BY DEF Proper
<1>2. Told(DependabotFromNode(answer.node.alerts))
  <2>1. ListOrNull(answer.node.alerts)
    BY <1>1, AnswerAssumption
  <2> HIDE DEF answer
  <2>2. CASE answer.node.alerts = Nothing
    BY <2>2 DEF DependabotFromNode, Told
  <2>3. CASE answer.node.alerts # Nothing
    <3>1. Listlike(answer.node.alerts)
      BY <2>1, <2>3, ListsAreListlike DEF ListOr
    <3> QED BY <2>3, <3>1, CountsAreTold DEF DependabotFromNode
  <2> QED BY <2>2, <2>3
<1>3. answer.levels # Nothing => Told(CodeScanningCounts(answer.levels))
  <2>1. ListOrNull(answer.levels)
    BY <1>1, AnswerAssumption
  <2> DEFINE levels == [i \in DOMAIN answer.levels |->
                           IF answer.levels[i].level # Nothing THEN answer.levels[i].level
                           ELSE GetOr(RuleSeverityFallback, answer.levels[i].severity, Nothing)]
  <2> SUFFICES ASSUME answer.levels # Nothing PROVE Told(CodeScanningCounts(answer.levels))
    OBVIOUS
  <2>2. Listlike(answer.levels)
    BY <2>1, ListsAreListlike DEF ListOr
  <2>3. levels = [i \in DOMAIN answer.levels |-> levels[i]]
    OBVIOUS
  <2>4. CodeScanningCounts(answer.levels) = SeverityCounts(levels)
    BY DEF CodeScanningCounts
  <2> HIDE DEF levels, answer
  <2>5. levels = [i \in 1 .. Len(answer.levels) |-> levels[i]]
    BY <2>2, <2>3 DEF Listlike
  <2> QED BY <2>2, <2>4, <2>5, BuiltIsListlike, CountsAreTold
<1>4. Told(sec.dependabot) /\ Told(sec.codeScanning) /\ OrZero(sec.secrets) \in Nat
  <2>1. Told(Nothing) /\ OrZero(Nothing) \in Nat
    BY DEF Told, OrZero
  <2>2. OrZero(answer.secrets) \in Nat
    BY <1>1, AnswerAssumption DEF NumberOrNull, OrZero
  <2>3. sec = IF Archived(s, name) THEN ArchivedSecurity(answer)
              ELSE IF name \in Arrived(s, "security") THEN Details(answer).security
              ELSE NoSecurity
    BY PartsAre
  <2> HIDE DEF sec, answer
  <2>4. CASE Archived(s, name)
    BY <1>2, <2>1, <2>3, <2>4 DEF ArchivedSecurity, NoSecurity
  <2>5. CASE ~ Archived(s, name) /\ name \in Arrived(s, "security")
    BY <1>2, <1>3, <2>1, <2>2, <2>3, <2>5 DEF Details
  <2>6. CASE ~ Archived(s, name) /\ name \notin Arrived(s, "security")
    BY <2>1, <2>3, <2>6 DEF NoSecurity
  <2> QED BY <2>4, <2>5, <2>6
<1>5. /\ f.security_critical = AtLevel(sec, "critical") /\ f.security_high = AtLevel(sec, "high")
      /\ f.security_total = SecurityTotal(sec) /\ f.secret_alerts = OrZero(sec.secrets)
  BY DEF Figures
<1> HIDE DEF sec, f, answer
<1>6. \A c : Told(c) =>
         LET at(level) == IF c = Nothing THEN 0 ELSE c[level]
         IN  at("critical") \in Nat /\ at("high") \in Nat /\ AlertTotal(c) \in Nat
                /\ at("critical") + at("high") <= AlertTotal(c)
  BY DEF Told, AlertTotal, SeverityLevels
<1>7. /\ AtLevel(sec, "critical") \in Nat /\ AtLevel(sec, "high") \in Nat
      /\ SecurityTotal(sec) \in Nat
      /\ AtLevel(sec, "critical") + AtLevel(sec, "high") + OrZero(sec.secrets) <= SecurityTotal(sec)
  <2> DEFINE at(c, level) == IF c = Nothing THEN 0 ELSE c[level]
  <2>1. \A c : Told(c) => /\ at(c, "critical") \in Nat /\ at(c, "high") \in Nat
                          /\ AlertTotal(c) \in Nat
                          /\ at(c, "critical") + at(c, "high") <= AlertTotal(c)
    BY <1>6
  <2>2. \A level : AtLevel(sec, level) = at(sec.dependabot, level) + at(sec.codeScanning, level)
    BY DEF AtLevel
  <2>3. SecurityTotal(sec) =
           AlertTotal(sec.dependabot) + AlertTotal(sec.codeScanning) + OrZero(sec.secrets)
    BY DEF SecurityTotal
  <2> HIDE DEF at
  <2> QED BY <1>4, <2>1, <2>2, <2>3
<1> QED BY <1>4, <1>5, <1>7 DEF f, sec

\* A run that GitHub told of as failed is shown as failed, with the time it ended.
RunsTold(s, name) ==
    IF name \in Arrived(s, "runs") THEN DOMAIN s.answer[name].runs ELSE {}

LEMMA RunsAreRead ==
    ASSUME NEW answer \in RepoAnswers
    PROVE  LET runs == [i \in DOMAIN answer.runs |-> RunFromJson(answer.runs[i], Now)]
           IN  /\ Listlike(runs) /\ DOMAIN runs = DOMAIN answer.runs
               /\ answer.error # Nothing => runs = << >> /\ DOMAIN answer.runs = {}
               /\ \A i \in DOMAIN runs :
                     /\ {"status", "updated", "long"} \subseteq DOMAIN runs[i]
                     /\ Failed(runs[i]) <=> answer.runs[i].conclusion \in FailedStatuses
                     /\ runs[i].updated \in Nat
<1> DEFINE runs == [i \in DOMAIN answer.runs |-> RunFromJson(answer.runs[i], Now)]
<1>1. /\ Listlike(answer.runs)
      /\ answer.error # Nothing => answer.runs = << >>
      /\ \A i \in DOMAIN answer.runs :
            /\ NumberOrNull(answer.runs[i].updated)
            /\ answer.runs[i].conclusion \in FailedStatuses =>
                  answer.runs[i].status \notin {"queued", "waiting", "pending", "requested", "in_progress"}
      /\ Now \in Nat
  BY AnswerAssumption DEF RunsAssumption, IsList, Listlike
<1>2. /\ runs = [i \in DOMAIN answer.runs |-> runs[i]] /\ DOMAIN runs = DOMAIN answer.runs
      /\ \A i \in DOMAIN runs : runs[i] = RunFromJson(answer.runs[i], Now)
  OBVIOUS
<1> HIDE DEF runs
<1>3. Listlike(runs)
  BY <1>1, <1>2, BuiltIsListlike DEF Listlike
<1>4. answer.error # Nothing => runs = << >> /\ DOMAIN answer.runs = {}
  BY <1>1, <1>2, EmptySeq
<1>5. \A i \in DOMAIN runs :
         /\ {"status", "updated", "long"} \subseteq DOMAIN runs[i]
         /\ Failed(runs[i]) <=> answer.runs[i].conclusion \in FailedStatuses
         /\ runs[i].updated \in Nat
  <2> SUFFICES ASSUME NEW i \in DOMAIN runs
               PROVE  /\ {"status", "updated", "long"} \subseteq DOMAIN runs[i]
                      /\ Failed(runs[i]) <=> answer.runs[i].conclusion \in FailedStatuses
                      /\ runs[i].updated \in Nat
    OBVIOUS
  <2>1. runs[i] = RunFromJson(answer.runs[i], Now)
    BY <1>2
  <2> DEFINE data == answer.runs[i]
  <2>2. /\ NumberOrNull(data.updated)
        /\ data.conclusion \in FailedStatuses =>
              data.status \notin {"queued", "waiting", "pending", "requested", "in_progress"}
    BY <1>1, <1>2
  <2> HIDE DEF data
  <2>3. /\ {"status", "updated", "long"} \subseteq DOMAIN RunFromJson(data, Now)
        /\ RunFromJson(data, Now).status = RunStatus(data.status, data.conclusion)
        /\ RunFromJson(data, Now).updated = IF data.updated = Nothing THEN Now ELSE data.updated
    BY DEF RunFromJson
  <2>4. RunFromJson(data, Now).updated \in Nat
    BY <1>1, <2>2, <2>3 DEF NumberOrNull
  <2>5. RunStatus(data.status, data.conclusion) \in FailedStatuses <=> data.conclusion \in FailedStatuses
    BY <2>2 DEF RunStatus, FailedStatuses, RunStatuses, ActiveStatuses
  <2> QED BY <2>1, <2>3, <2>4, <2>5 DEF Failed, data
<1> QED BY <1>2, <1>3, <1>4, <1>5 DEF runs

LEMMA NoRunsAreShown ==
    ASSUME NEW state
    PROVE  LET ci == MarkLongRunning(RepoCi(state, << >>, 0, 0, 0), Now)
           IN  /\ DOMAIN ci.runs = {} /\ ci.state = state
               /\ ci.failed = 0 /\ ci.active = 0 /\ ci.long = 0
<1> DEFINE plain == RepoCi(state, << >>, 0, 0, 0)
           Long(r) == Active(r) /\ Now - r.created >= LongRunAfter
           ci == MarkLongRunning(plain, Now)
<1>1. /\ plain.runs = << >> /\ plain.failed = 0 /\ plain.active = 0 /\ plain.state = state
      /\ DOMAIN plain = {"state", "runs", "failed", "active", "long", "seconds"}
  BY DEF RepoCi
<1> HIDE DEF plain
<1>2. /\ ci.runs = [i \in DOMAIN plain.runs |-> [plain.runs[i] EXCEPT !.long = Long(plain.runs[i])]]
      /\ ci.failed = plain.failed /\ ci.active = plain.active /\ ci.state = plain.state
      /\ ci.long = CountOf(plain.runs, Long)
  BY <1>1 DEF MarkLongRunning
<1>3. CountOf(plain.runs, Long) = Cardinality({i \in DOMAIN plain.runs : Long(plain.runs[i])})
  BY DEF CountOf
<1>4. DOMAIN plain.runs = {}
  BY <1>1, EmptySeq
<1> HIDE DEF ci
<1>5. DOMAIN ci.runs = {} /\ ci.long = 0
  <2>1. {i \in DOMAIN plain.runs : Long(plain.runs[i])} = {}
    BY <1>4
  <2>2. ci.long = 0
    BY <1>2, <1>3, <2>1, FS_EmptySet
  <2>3. DOMAIN ci.runs = DOMAIN plain.runs
    BY <1>2
  <2> QED BY <1>4, <2>2, <2>3
<1> QED BY <1>1, <1>2, <1>5 DEF ci, plain

LEMMA RunsAreShown ==
    ASSUME NEW s, Proper(s), NEW name \in Names
    PROVE  LET ci == Shown(s, name).ci
           IN  /\ DOMAIN ci.runs = RunsTold(s, name)
               /\ \A i \in DOMAIN ci.runs :
                     /\ Failed(ci.runs[i]) <=> s.answer[name].runs[i].conclusion \in FailedStatuses
                     /\ ci.runs[i].updated \in Nat
               /\ IsFiniteSet(DOMAIN ci.runs)
               /\ ci.failed = Cardinality({i \in DOMAIN ci.runs : Failed(ci.runs[i])})
               /\ ci.failed \in Nat /\ ci.active \in Nat /\ ci.long \in Nat
               /\ ci.state = "failing" <=> \E i \in DOMAIN ci.runs : Failed(ci.runs[i])
               /\ name \notin Arrived(s, "runs") => ci.failed = 0 /\ ci.active = 0 /\ ci.long = 0
<1> DEFINE ci == Shown(s, name).ci
           answer == s.answer[name]
           runs == [i \in DOMAIN answer.runs |-> RunFromJson(answer.runs[i], Now)]
<1>1. ci = MarkLongRunning(CiOfRepo(s, name), Now)
  BY PartsAre
<1>2. answer \in RepoAnswers
  BY DEF Proper
<1> HIDE DEF ci
<1>3. CASE name \in Arrived(s, "runs")
  <2>1. CiOfRepo(s, name) = ClassifyCi(runs, answer.error)
    BY <1>3 DEF CiOfRepo, Details, Proper
  <2>2. /\ Listlike(runs) /\ DOMAIN runs = DOMAIN answer.runs
        /\ answer.error # Nothing => runs = << >>
        /\ \A i \in DOMAIN runs :
              /\ {"status", "updated", "long"} \subseteq DOMAIN runs[i]
              /\ Failed(runs[i]) <=> answer.runs[i].conclusion \in FailedStatuses
              /\ runs[i].updated \in Nat
    BY <1>2, RunsAreRead
  <2> HIDE DEF runs, answer
  <2>3. ci = MarkLongRunning(ClassifyCi(runs, answer.error), Now)
    BY <1>1, <2>1
  <2>4. /\ DOMAIN ci.runs = DOMAIN runs
        /\ \A i \in DOMAIN runs : /\ ci.runs[i].status = runs[i].status
                                  /\ ci.runs[i].updated = runs[i].updated
        /\ ci.failed = Cardinality({i \in DOMAIN runs : Failed(runs[i])})
        /\ ci.failed \in Nat /\ ci.active \in Nat /\ ci.long \in Nat
        /\ ci.state = "failing" <=> \E i \in DOMAIN runs : Failed(runs[i])
    <3>1. RunsRead(runs, answer.error)
      BY <2>2 DEF RunsRead
    <3> QED BY <2>3, <3>1, MarkedCiIs
  <2>5. \A i \in DOMAIN runs : Failed(ci.runs[i]) <=> Failed(runs[i])
    BY <2>4 DEF Failed
  <2>6. {i \in DOMAIN ci.runs : Failed(ci.runs[i])} = {i \in DOMAIN runs : Failed(runs[i])}
    BY <2>4, <2>5
  <2>7. RunsTold(s, name) = DOMAIN runs
    BY <1>3, <2>2 DEF RunsTold, answer
  <2>8. IsFiniteSet(DOMAIN runs)
    BY <2>2, PlacesCount
  <2> QED BY <1>3, <2>2, <2>4, <2>5, <2>6, <2>7, <2>8 DEF ci, answer
<1>4. CASE name \notin Arrived(s, "runs")
  <2>1. PICK state \in {"skipped", "unavailable"} : CiOfRepo(s, name) = RepoCi(state, << >>, 0, 0, 0)
    BY <1>4 DEF CiOfRepo, SkippedCi, PendingCi
  <2>2. /\ DOMAIN ci.runs = {} /\ ci.state = state
        /\ ci.failed = 0 /\ ci.active = 0 /\ ci.long = 0
    BY <1>1, <2>1, NoRunsAreShown
  <2>3. RunsTold(s, name) = {}
    BY <1>4 DEF RunsTold
  <2>4. /\ {i \in DOMAIN ci.runs : Failed(ci.runs[i])} = {}
        /\ Cardinality({}) = 0 /\ IsFiniteSet({})
    BY <2>2, FS_EmptySet
  <2> QED BY <1>4, <2>1, <2>2, <2>3, <2>4 DEF ci
<1> QED BY <1>3, <1>4

LEMMA BranchesAddUp ==
    ASSUME NEW s, Proper(s), NEW name \in Names
    PROVE  LET f == Figures(Shown(s, name))
           IN  /\ f.branches_without_pr \in Nat /\ f.stale_branches \in Nat
               /\ f.stale_branches <= f.branches_without_pr
               /\ f.stale_issues \in Nat
               /\ name \notin s.page => f.branches_without_pr = 0 /\ f.stale_branches = 0
<1> DEFINE r == Shown(s, name).repository
           f == Figures(Shown(s, name))
           answer == s.answer[name]
           branches == r.branches
           issues == r.issues
<1>1. answer \in RepoAnswers
  BY DEF Proper
<1>2. branches = (IF name \in s.page THEN BranchesOf(answer) ELSE << >>)
  BY RepositoryIs
<1>3. issues = IssuesOf(answer)
  BY RepositoryIs
<1>4. /\ f.branches_without_pr = Len(branches)
      /\ f.stale_branches = Cardinality({i \in DOMAIN branches : branches[i].stale})
      /\ f.stale_issues = Cardinality({i \in DOMAIN issues : issues[i].stale})
  BY DEF Figures, CountOf
<1> HIDE DEF r, f, branches, issues, answer
<1>5. Listlike(<< >>) /\ Len(<< >>) = 0
  BY EmptySeq DEF Listlike
<1>6. Listlike(branches) /\ Listlike(issues)
  BY <1>1, <1>2, <1>3, <1>5, ShownListsAreListlike
<1>7. /\ Cardinality({i \in DOMAIN branches : branches[i].stale}) \in Nat
      /\ Cardinality({i \in DOMAIN branches : branches[i].stale}) <= Len(branches)
      /\ Cardinality({i \in DOMAIN issues : issues[i].stale}) \in Nat
      /\ Len(branches) \in Nat
  BY <1>6, PlacesCount DEF Listlike
<1>8. name \notin s.page => Len(branches) = 0
  BY <1>2, <1>5
<1> QED BY <1>4, <1>7, <1>8 DEF f

\* What is not in yet counts as nothing.
LEMMA LaterPartsAddUp ==
    ASSUME NEW s, Proper(s), NEW name \in Names
    PROVE  LET f == Figures(Shown(s, name))
           IN  /\ f.unreleased_commits \in Nat /\ f.ci_seconds_month \in Nat
               /\ f.ci_seconds_month_private \in Nat /\ f.ci_seconds_month_public \in Nat
               /\ f.ci_seconds_month = f.ci_seconds_month_private + f.ci_seconds_month_public
               /\ name \notin Arrived(s, "release") => f.unreleased_commits = 0
               /\ name \notin Arrived(s, "usage") => f.ci_seconds_month = 0
<1> DEFINE r == Shown(s, name)
           f == Figures(r)
           answer == s.answer[name]
           late == name \in Arrived(s, "release")
           unreleased == IF r.release = Nothing THEN 0 ELSE OrZero(r.release.unreleased)
<1>1. answer \in RepoAnswers
  BY DEF Proper
<1>2. r.release = ReleaseOf(answer, late)
  BY PartsAre
<1>3. r.usage = IF name \in Arrived(s, "usage") THEN Usage(s, name) ELSE NoUsage
  BY PartsAre
<1>4. /\ f.unreleased_commits = unreleased
      /\ f.ci_seconds_month = r.usage.seconds
      /\ f.ci_seconds_month_private = IF r.repository.private THEN r.usage.seconds ELSE 0
      /\ f.ci_seconds_month_public = IF r.repository.private THEN 0 ELSE r.usage.seconds
  BY DEF Figures
<1>5. NumberOrNull(answer.ahead) /\ answer.usage.seconds \in Nat
  BY <1>1, AnswerAssumption
<1> HIDE DEF r, f, answer, late
<1>6. unreleased \in Nat /\ (~ late => unreleased = 0)
  BY <1>2, <1>5 DEF ReleaseOf, OrZero, NumberOrNull
<1>7. r.usage.seconds \in Nat /\ (name \notin Arrived(s, "usage") => r.usage.seconds = 0)
  BY <1>3, <1>5 DEF Usage, NoUsage, answer
<1> HIDE DEF unreleased
<1> QED BY <1>4, <1>6, <1>7 DEF f, r, late

LEMMA FiguresAreNumbers ==
    ASSUME NEW s, Proper(s), NEW name \in Names
    PROVE  \A key \in SummedKeys \cup {"listed"} : Figures(Shown(s, name))[key] \in Nat
<1> DEFINE f == Figures(Shown(s, name))
<1>1. /\ f.listed \in Nat /\ f.open_prs \in Nat /\ f.human_prs \in Nat
      /\ f.bot_prs \in Nat /\ f.stale_prs \in Nat /\ f.prs_ready \in Nat
      /\ f.prs_changes_requested \in Nat /\ f.prs_failing \in Nat
  BY PrsAddUp
<1>2. /\ f.security_critical \in Nat /\ f.security_high \in Nat
      /\ f.secret_alerts \in Nat /\ f.security_total \in Nat
  BY SecurityAddsUp
<1>3. /\ f.failed_runs \in Nat /\ f.active_runs \in Nat /\ f.long_running_runs \in Nat
  BY RunsAreShown DEF Figures
<1>4. /\ f.branches_without_pr \in Nat /\ f.stale_branches \in Nat /\ f.stale_issues \in Nat
  BY BranchesAddUp
<1>5. /\ f.unreleased_commits \in Nat /\ f.ci_seconds_month \in Nat
      /\ f.ci_seconds_month_private \in Nat /\ f.ci_seconds_month_public \in Nat
  BY LaterPartsAddUp
<1> HIDE DEF f
<1> QED BY <1>1, <1>2, <1>3, <1>4, <1>5 DEF SummedKeys, f

\* Nothing of what was in is gone.
More(s, t) ==
    /\ t.answer = s.answer /\ s.arrived \subseteq t.arrived
    /\ t.checks = s.checks /\ s.page \subseteq t.page
    /\ s.inbox => t.inbox

LEMMA MoreOfOneAddsMore ==
    ASSUME NEW s, Proper(s), NEW t, Proper(t), More(s, t), NEW name \in Names
    PROVE  \A key \in Attention \ {"repos_failing", "inbox_total"} :
              Figures(Shown(s, name))[key] <= Figures(Shown(t, name))[key]
<1> DEFINE q == Shown(s, name)
           r == Shown(t, name)
           f == Figures(q)
           g == Figures(r)
<1>1. /\ t.answer[name] = s.answer[name] /\ Archived(t, name) = Archived(s, name)
      /\ \A part : name \in Arrived(s, part) => name \in Arrived(t, part)
      /\ t.checks = s.checks /\ (name \in s.page => name \in t.page)
  BY DEF More, Arrived, Archived
<1>2. \A key \in SummedKeys : f[key] \in Nat /\ g[key] \in Nat
  BY FiguresAreNumbers
<1>3. f.failed_runs <= g.failed_runs /\ f.active_runs <= g.active_runs
         /\ f.long_running_runs <= g.long_running_runs
  <2>1. /\ f.failed_runs = q.ci.failed /\ f.active_runs = q.ci.active
        /\ f.long_running_runs = q.ci.long
        /\ g.failed_runs = r.ci.failed /\ g.active_runs = r.ci.active
        /\ g.long_running_runs = r.ci.long
    BY DEF Figures
  <2>2. /\ f.failed_runs \in Nat /\ f.active_runs \in Nat /\ f.long_running_runs \in Nat
        /\ g.failed_runs \in Nat /\ g.active_runs \in Nat /\ g.long_running_runs \in Nat
    BY <1>2 DEF SummedKeys
  <2>3. name \in Arrived(s, "runs") => r.ci = q.ci
    <3>1. q.ci = MarkLongRunning(CiOfRepo(s, name), Now) /\ r.ci = MarkLongRunning(CiOfRepo(t, name), Now)
      BY PartsAre
    <3>2. name \in Arrived(s, "runs") => CiOfRepo(t, name) = CiOfRepo(s, name)
      BY <1>1 DEF CiOfRepo
    <3> HIDE DEF q, r
    <3> QED BY <3>1, <3>2
  <2>4. name \notin Arrived(s, "runs") => q.ci.failed = 0 /\ q.ci.active = 0 /\ q.ci.long = 0
    BY RunsAreShown
  <2> HIDE DEF f, g, q, r
  <2> QED BY <2>1, <2>2, <2>3, <2>4
<1>4. /\ f.human_prs = g.human_prs /\ f.bot_prs = g.bot_prs /\ f.stale_prs = g.stale_prs
      /\ f.prs_failing = g.prs_failing /\ f.stale_issues = g.stale_issues
  <2>1. /\ q.repository.prs = PrsOf(s.answer[name])
        /\ q.repository.openPrs = s.answer[name].node.openPrs
        /\ q.repository.issues = IssuesOf(s.answer[name])
    BY RepositoryIs
  <2>2. /\ r.repository.prs = PrsOf(t.answer[name])
        /\ r.repository.openPrs = t.answer[name].node.openPrs
        /\ r.repository.issues = IssuesOf(t.answer[name])
    BY RepositoryIs
  <2> HIDE DEF q, r
  <2>3. /\ q.repository.prs = r.repository.prs /\ q.repository.openPrs = r.repository.openPrs
        /\ q.repository.issues = r.repository.issues
    BY <1>1, <2>1, <2>2
  <2> QED BY <2>3 DEF Figures, HumanPrs
<1>5. /\ f.security_critical <= g.security_critical /\ f.security_high <= g.security_high
      /\ f.security_total <= g.security_total /\ f.secret_alerts <= g.secret_alerts
  <2>1. /\ f.security_critical = AtLevel(q.security, "critical")
        /\ f.security_high = AtLevel(q.security, "high")
        /\ f.security_total = SecurityTotal(q.security)
        /\ f.secret_alerts = OrZero(q.security.secrets)
        /\ g.security_critical = AtLevel(r.security, "critical")
        /\ g.security_high = AtLevel(r.security, "high")
        /\ g.security_total = SecurityTotal(r.security)
        /\ g.secret_alerts = OrZero(r.security.secrets)
    BY DEF Figures
  <2>2. /\ f.security_critical \in Nat /\ f.security_high \in Nat /\ f.security_total \in Nat
        /\ f.secret_alerts \in Nat /\ g.security_critical \in Nat /\ g.security_high \in Nat
        /\ g.security_total \in Nat /\ g.secret_alerts \in Nat
    BY <1>2 DEF SummedKeys
  <2>3. q.security = IF Archived(s, name) THEN ArchivedSecurity(s.answer[name])
                     ELSE IF name \in Arrived(s, "security") THEN Details(s.answer[name]).security
                     ELSE NoSecurity
    BY PartsAre
  <2>4. r.security = IF Archived(t, name) THEN ArchivedSecurity(t.answer[name])
                     ELSE IF name \in Arrived(t, "security") THEN Details(t.answer[name]).security
                     ELSE NoSecurity
    BY PartsAre
  <2> HIDE DEF f, g, q, r
  <2>5. q.security = r.security \/ q.security = NoSecurity
    BY <1>1, <2>3, <2>4
  <2>6. /\ AtLevel(NoSecurity, "critical") = 0 /\ AtLevel(NoSecurity, "high") = 0
        /\ SecurityTotal(NoSecurity) = 0 /\ OrZero(NoSecurity.secrets) = 0
    BY DEF AtLevel, SecurityTotal, AlertTotal, NoSecurity, OrZero
  <2> QED BY <2>1, <2>2, <2>5, <2>6
<1>6. f.unreleased_commits <= g.unreleased_commits
  <2>1. name \notin Arrived(s, "release") => f.unreleased_commits = 0
    BY LaterPartsAddUp
  <2>2. name \in Arrived(s, "release") => q.release = r.release
    <3>1. /\ q.release = ReleaseOf(s.answer[name], name \in Arrived(s, "release"))
          /\ r.release = ReleaseOf(t.answer[name], name \in Arrived(t, "release"))
      BY PartsAre
    <3> HIDE DEF q, r
    <3> QED BY <1>1, <3>1
  <2>3. f.unreleased_commits \in Nat /\ g.unreleased_commits \in Nat
    BY <1>2 DEF SummedKeys
  <2>4. q.release = r.release => f.unreleased_commits = g.unreleased_commits
    <3> HIDE DEF q, r
    <3> QED BY DEF Figures
  <2> HIDE DEF f, g, q, r
  <2> QED BY <2>1, <2>2, <2>3, <2>4
<1>7. f.branches_without_pr <= g.branches_without_pr /\ f.stale_branches <= g.stale_branches
  <2>1. name \notin s.page => f.branches_without_pr = 0 /\ f.stale_branches = 0
    BY BranchesAddUp
  <2>2. name \in s.page => q.repository.branches = r.repository.branches
    <3>1. q.repository.branches =
             (IF name \in s.page THEN BranchesOf(s.answer[name]) ELSE << >>)
      BY RepositoryIs
    <3>2. r.repository.branches =
             (IF name \in t.page THEN BranchesOf(t.answer[name]) ELSE << >>)
      BY RepositoryIs
    <3> HIDE DEF q, r
    <3> QED BY <1>1, <3>1, <3>2
  <2>3. /\ f.branches_without_pr \in Nat /\ g.branches_without_pr \in Nat
        /\ f.stale_branches \in Nat /\ g.stale_branches \in Nat
    BY <1>2 DEF SummedKeys
  <2>4. q.repository.branches = r.repository.branches =>
           f.branches_without_pr = g.branches_without_pr /\ f.stale_branches = g.stale_branches
    <3> HIDE DEF q, r
    <3> QED BY DEF Figures
  <2> HIDE DEF f, g, q, r
  <2> QED BY <2>1, <2>2, <2>3, <2>4
<1>8. f.ci_seconds_month <= g.ci_seconds_month
  <2>1. name \notin Arrived(s, "usage") => f.ci_seconds_month = 0
    BY LaterPartsAddUp
  <2>2. name \in Arrived(s, "usage") => q.usage = r.usage \/ q.usage.seconds = 0
    <3>1. /\ q.usage = (IF name \in Arrived(s, "usage") THEN Usage(s, name) ELSE NoUsage)
          /\ r.usage = (IF name \in Arrived(t, "usage") THEN Usage(t, name) ELSE NoUsage)
      BY PartsAre
    <3>2. /\ Usage(s, name) = Usage(t, name) \/ Usage(s, name) = NoUsage
          /\ NoUsage.seconds = 0
      BY <1>1 DEF Usage, NoUsage
    <3> HIDE DEF q, r
    <3> QED BY <1>1, <3>1, <3>2
  <2>3. f.ci_seconds_month \in Nat /\ g.ci_seconds_month \in Nat
    BY <1>2 DEF SummedKeys
  <2>4. f.ci_seconds_month = q.usage.seconds /\ g.ci_seconds_month = r.usage.seconds
    BY DEF Figures
  <2> HIDE DEF f, g, q, r
  <2> QED BY <2>1, <2>2, <2>3, <2>4
<1> HIDE DEF f, g
<1>9. /\ f.human_prs <= g.human_prs /\ f.bot_prs <= g.bot_prs /\ f.stale_prs <= g.stale_prs
      /\ f.prs_failing <= g.prs_failing /\ f.stale_issues <= g.stale_issues
  <2>1. /\ f.human_prs \in Nat /\ f.bot_prs \in Nat /\ f.stale_prs \in Nat
        /\ f.prs_failing \in Nat /\ f.stale_issues \in Nat
    BY <1>2 DEF SummedKeys
  <2> QED BY <1>4, <2>1
<1> QED BY <1>3, <1>5, <1>6, <1>7, <1>8, <1>9 DEF Attention, f, g

-----------------------------------------------------------------------------
(* The order in which repositories are shown                               *)

ListedIn(s) == [i \in DOMAIN ListedRepos |-> Shown(s, ListedRepos[i])]
ShownIn(s) == SortedBy(ListedIn(s), ShownBefore)

LEMMA OneToOne ==
    ASSUME NEW S, NEW T, NEW f \in [S -> T],
           \A i, j \in S : f[i] = f[j] => i = j, \A y \in T : \E i \in S : f[i] = y
    PROVE  /\ f \in Bijection(S, T)
           /\ IsFiniteSet(S) => IsFiniteSet(T) /\ Cardinality(T) = Cardinality(S)
<1>1. f \in Bijection(S, T)
  BY DEF Bijection, Injection, Surjection, IsInjective
<1> QED BY <1>1, FS_Bijection DEF ExistsBijection

LEMMA ListedAreNames ==
    /\ Listlike(ListedRepos) /\ IsFiniteSet(DOMAIN ListedRepos)
    /\ \A i \in DOMAIN ListedRepos : ListedRepos[i] \in Names
    /\ \A i, j \in DOMAIN ListedRepos : ListedRepos[i] = ListedRepos[j] => i = j
    /\ \A name \in Names : \E i \in DOMAIN ListedRepos : ListedRepos[i] = name
    /\ IsFiniteSet(Names) /\ Cardinality(Names) = Len(ListedRepos)
<1>1. /\ Listlike(ListedRepos)
      /\ \A i \in DOMAIN ListedRepos : ListedRepos[i] \in Names
  BY ListedAssumption DEF Listlike
<1>2. \A i, j \in DOMAIN ListedRepos : ListedRepos[i] = ListedRepos[j] => i = j
  BY ListedAssumption DEF IsInjective
<1>3. \A name \in Names : \E i \in DOMAIN ListedRepos : ListedRepos[i] = name
  BY DEF Names, ToSet
<1>4. IsFiniteSet(DOMAIN ListedRepos) /\ Cardinality(DOMAIN ListedRepos) = Len(ListedRepos)
  BY <1>1, PlacesCount
<1>5. ListedRepos \in [DOMAIN ListedRepos -> Names]
  BY ListedAssumption
<1>6. IsFiniteSet(Names) /\ Cardinality(Names) = Cardinality(DOMAIN ListedRepos)
  BY <1>2, <1>3, <1>4, <1>5, OneToOne
<1> QED BY <1>1, <1>2, <1>3, <1>4, <1>6

LEMMA ShownIsPermuted ==
    ASSUME NEW s, Proper(s)
    PROVE  \E b \in Bijection(DOMAIN ListedRepos, DOMAIN ListedRepos) :
              /\ ShownIn(s) = [i \in DOMAIN ListedRepos |-> Shown(s, ListedRepos[b[i]])]
              /\ \A i, j \in DOMAIN ListedRepos :
                    i < j /\ ShownIn(s)[j].ci.state = "failing" => ShownIn(s)[i].ci.state = "failing"
<1> DEFINE D == DOMAIN ListedRepos
           listed == ListedIn(s)
           Item(i) == [place |-> i, item |-> listed[i]]
           items == {Item(i) : i \in D}
           ahead == {p \in items \X items :
                       \/ ShownBefore(p[1].item, p[2].item)
                       \/ p[1].place < p[2].place /\ ~ ShownBefore(p[2].item, p[1].item)}
           order == InOrder(items, ahead)
           fails == {i \in D : listed[i].ci.state = "failing"}
           pushed == [i \in D |-> OrZero(listed[i].repository.pushed)]
           B(i, j) == \/ i \in fails /\ j \notin fails
                      \/ (i \in fails <=> j \in fails) /\ pushed[i] > pushed[j]
           A(i, j) == B(i, j) \/ (i < j /\ ~ B(j, i))
<1>1. DOMAIN listed = D /\ \A i \in D : listed[i] = Shown(s, ListedRepos[i])
  BY DEF ListedIn
<1>2. Listlike(ListedRepos) /\ D \in SUBSET Nat /\ IsFiniteSet(D) /\ D = 1 .. Len(ListedRepos)
  BY ListedAreNames DEF Listlike
<1>3. \A i \in D : pushed[i] \in Nat
  <2> TAKE i \in D
  <2>1. ListedRepos[i] \in Names
    BY ListedAreNames
  <2>2. s.answer[ListedRepos[i]] \in RepoAnswers
    BY <2>1 DEF Proper
  <2>3. listed[i].repository.pushed = s.answer[ListedRepos[i]].node.pushedAt
    BY <1>1, <2>1, RepositoryIs
  <2>4. NumberOrNull(s.answer[ListedRepos[i]].node.pushedAt)
    BY <2>2, AnswerAssumption
  <2> QED BY <2>3, <2>4 DEF NumberOrNull, OrZero
<1>4. \A i, j \in D : ShownBefore(listed[i], listed[j]) <=> B(i, j)
  <2> HIDE DEF listed
  <2> QED BY DEF ShownBefore
<1>5. ShownIn(s) = [i \in D |-> order[i].item]
  <2> HIDE DEF ahead
  <2>1. items = {[place |-> i, item |-> listed[i]] : i \in DOMAIN listed}
    BY <1>1
  <2>2. ShownIn(s) = [i \in DOMAIN listed |->
           InOrder({[place |-> j, item |-> listed[j]] : j \in DOMAIN listed}, ahead)[i].item]
    BY <1>1 DEF ShownIn, SortedBy, ahead
  <2> QED BY <1>1, <2>1, <2>2
<1>6. \A i \in D : Item(i) \in items /\ Item(i).place = i /\ Item(i).item = listed[i]
  OBVIOUS
<1>7. \A x \in items : x.place \in D /\ x = Item(x.place)
  OBVIOUS
<1>8. \A x, y \in items : <<x, y>> \in ahead <=> A(x.place, y.place)
  <2> SUFFICES ASSUME NEW x \in items, NEW y \in items
               PROVE  <<x, y>> \in ahead <=> A(x.place, y.place)
    OBVIOUS
  <2>1. <<x, y>> \in ahead <=> \/ ShownBefore(x.item, y.item)
                               \/ x.place < y.place /\ ~ ShownBefore(y.item, x.item)
    OBVIOUS
  <2>2. x.place \in D /\ y.place \in D /\ x.item = listed[x.place] /\ y.item = listed[y.place]
    OBVIOUS
  <2> HIDE DEF ahead, items, listed, fails, pushed
  <2> QED BY <1>4, <2>1, <2>2
<1>9. IsFiniteSet(items) /\ Cardinality(items) = Cardinality(D)
  <2> DEFINE itemOf == [i \in D |-> Item(i)]
  <2>1. itemOf \in [D -> items]
    OBVIOUS
  <2>2. \A i, j \in D : itemOf[i] = itemOf[j] => i = j
    BY <1>6
  <2>3. \A x \in items : \E i \in D : itemOf[i] = x
    BY <1>7
  <2>4. IsFiniteSet(D)
    BY <1>2
  <2> HIDE DEF itemOf, items, D
  <2>5. IsFiniteSet(D) => IsFiniteSet(items) /\ Cardinality(items) = Cardinality(D)
    BY <2>1, <2>2, <2>3, OneToOne
  <2> QED BY <2>4, <2>5
<1> HIDE DEF D, listed, Item, items, ahead, fails, pushed
<1>10. Orders(ahead, items)
  <2>1. \A i \in D : ~ A(i, i)
    BY <1>2, <1>3
  <2>2. \A i, j \in D : i # j => A(i, j) \/ A(j, i)
    BY <1>2
  <2>3. ASSUME NEW i \in D, NEW j \in D, NEW k \in D, A(i, j), A(j, k) PROVE A(i, k)
    <3>1. i \in Nat /\ j \in Nat /\ k \in Nat
      BY <1>2
    <3>2. pushed[i] \in Nat /\ pushed[j] \in Nat /\ pushed[k] \in Nat
      BY <1>3
    <3> QED BY <2>3, <3>1, <3>2
  <2> HIDE DEF A
  <2>4. \A x \in items : <<x, x>> \notin ahead
    BY <1>7, <1>8, <2>1
  <2>5. \A x, y \in items : x # y => <<x, y>> \in ahead \/ <<y, x>> \in ahead
    BY <1>7, <1>8, <2>2
  <2>6. \A x, y, z \in items : <<x, y>> \in ahead /\ <<y, z>> \in ahead => <<x, z>> \in ahead
    BY <1>7, <1>8, <2>3
  <2> QED BY <2>4, <2>5, <2>6 DEF Orders
<1>11. /\ order \in Bijection(1 .. Cardinality(items), items)
       /\ \A i, j \in 1 .. Cardinality(items) : i < j => <<order[i], order[j]>> \in ahead
  BY <1>9, <1>10, InOrderIs
<1> HIDE DEF order
<1>13. 1 .. Cardinality(items) = D
  <2>1. Cardinality(D) = Len(ListedRepos)
    BY <1>2, PlacesCount DEF D
  <2> QED BY <1>2, <1>9, <2>1
<1> DEFINE b == [i \in D |-> order[i].place]
<1>14. \A i \in D : /\ order[i] \in items /\ b[i] \in D
                    /\ order[i].item = listed[b[i]] /\ order[i] = Item(b[i])
  <2>1. \A i \in D : order[i] \in items
    BY <1>11, <1>13 DEF Bijection, Injection
  <2> QED BY <1>6, <1>7, <2>1
<1> HIDE DEF b
<1>15. b \in Bijection(D, D)
  <2>1. b \in [D -> D]
    BY <1>14 DEF b
  <2>2. \A i, j \in D : b[i] = b[j] => i = j
    <3>1. \A i, j \in D : order[i] = order[j] => i = j
      BY <1>11, <1>13 DEF Bijection, Injection, IsInjective
    <3> QED BY <1>14, <3>1
  <2>3. \A j \in D : \E i \in D : b[i] = j
    <3> TAKE j \in D
    <3>1. Item(j) \in items /\ Item(j).place = j
      BY <1>6
    <3>2. PICK i \in D : order[i] = Item(j)
      BY <1>11, <1>13, <3>1 DEF Bijection, Surjection
    <3> QED BY <3>1, <3>2 DEF b
  <2> QED BY <2>1, <2>2, <2>3, OneToOne
<1>16. ShownIn(s) = [i \in D |-> Shown(s, ListedRepos[b[i]])]
  BY <1>1, <1>5, <1>14
<1>17. ASSUME NEW i \in D, NEW j \in D, i < j, ShownIn(s)[j].ci.state = "failing"
       PROVE  ShownIn(s)[i].ci.state = "failing"
  <2>1. ShownIn(s)[i] = listed[b[i]] /\ ShownIn(s)[j] = listed[b[j]]
    BY <1>1, <1>14, <1>16
  <2>2. <<order[i], order[j]>> \in ahead
    BY <1>11, <1>13, <1>17
  <2>3. A(b[i], b[j])
    BY <1>8, <1>14, <2>2 DEF b
  <2>4. b[j] \in fails
    BY <1>14, <1>17, <2>1 DEF fails
  <2>5. b[i] \in fails
    BY <2>3, <2>4
  <2> QED BY <2>1, <2>5 DEF fails
<1> QED BY <1>15, <1>16, <1>17 DEF D

-----------------------------------------------------------------------------
(* The failed runs                                                         *)

\* Runs that were collected, each at a place of its own.
Collected(failed) ==
    /\ IsFiniteSet(failed)
    /\ \A x \in failed : x.place = <<x.place[1], x.place[2]>> /\ x.place[1] \in Nat
                            /\ x.place[2] \in Nat /\ x.run.updated \in Nat
    /\ \A x, y \in failed : x.place = y.place => x = y

LEMMA NewestFirstIs ==
    ASSUME NEW failed, Collected(failed)
    PROVE  LET failures == NewestFirst(failed)
           IN  /\ Len(failures) = Cardinality(failed) /\ DOMAIN failures = 1 .. Cardinality(failed)
               /\ Cardinality(failed) \in Nat
               /\ {failures[i] : i \in DOMAIN failures} = {[repo |-> x.repo, run |-> x.run] : x \in failed}
               /\ {failures[i].repo : i \in DOMAIN failures} = {x.repo : x \in failed}
               /\ \A i, j \in DOMAIN failures :
                     i < j => failures[i].run.updated >= failures[j].run.updated
<1> DEFINE collected(p, q) == p[1] < q[1] \/ (p[1] = q[1] /\ p[2] < q[2])
           newer == {p \in failed \X failed :
                       \/ p[1].run.updated > p[2].run.updated
                       \/ p[1].run.updated = p[2].run.updated /\ collected(p[1].place, p[2].place)}
           order == InOrder(failed, newer)
           failures == NewestFirst(failed)
           n == Cardinality(failed)
           N(x, y) == \/ x.run.updated > y.run.updated
                      \/ x.run.updated = y.run.updated /\ collected(x.place, y.place)
<1>1. \A x, y \in failed : <<x, y>> \in newer <=> N(x, y)
  OBVIOUS
<1>2. failures = [k \in DOMAIN order |-> [repo |-> order[k].repo, run |-> order[k].run]]
  BY DEF NewestFirst
<1> HIDE DEF newer, failures
<1>3. Orders(newer, failed)
  <2>1. \A x \in failed : ~ N(x, x)
    BY DEF Collected
  <2>2. \A x, y \in failed : x # y => N(x, y) \/ N(y, x)
    <3> SUFFICES ASSUME NEW x \in failed, NEW y \in failed, x # y PROVE N(x, y) \/ N(y, x)
      OBVIOUS
    <3>1. x.place[1] # y.place[1] \/ x.place[2] # y.place[2]
      BY DEF Collected
    <3>2. /\ x.place[1] \in Nat /\ x.place[2] \in Nat /\ x.run.updated \in Nat
          /\ y.place[1] \in Nat /\ y.place[2] \in Nat /\ y.run.updated \in Nat
      BY DEF Collected
    <3> QED BY <3>1, <3>2
  <2>3. ASSUME NEW x \in failed, NEW y \in failed, NEW z \in failed, N(x, y), N(y, z)
        PROVE  N(x, z)
    <3>1. /\ x.place[1] \in Nat /\ x.place[2] \in Nat /\ x.run.updated \in Nat
          /\ y.place[1] \in Nat /\ y.place[2] \in Nat /\ y.run.updated \in Nat
          /\ z.place[1] \in Nat /\ z.place[2] \in Nat /\ z.run.updated \in Nat
      BY DEF Collected
    <3> QED BY <2>3, <3>1
  <2> HIDE DEF N
  <2>4. \A x, y, z \in failed : <<x, y>> \in newer /\ <<y, z>> \in newer => <<x, z>> \in newer
    BY <1>1, <2>3
  <2> QED BY <1>1, <2>1, <2>2, <2>4 DEF Orders
<1>4. /\ n \in Nat /\ order \in Bijection(1 .. n, failed)
      /\ \A i, j \in 1 .. n : i < j => <<order[i], order[j]>> \in newer
  <2>1. IsFiniteSet(failed)
    BY DEF Collected
  <2> QED BY <1>3, <2>1, InOrderIs
<1> HIDE DEF order, n
<1>5. /\ order \in [1 .. n -> failed]
      /\ \A x \in failed : \E i \in 1 .. n : order[i] = x
  BY <1>4 DEF Bijection, Injection, Surjection
<1>6. /\ DOMAIN failures = 1 .. n
      /\ \A k \in 1 .. n : /\ order[k] \in failed
                           /\ failures[k] = [repo |-> order[k].repo, run |-> order[k].run]
                           /\ failures[k].repo = order[k].repo /\ failures[k].run = order[k].run
  BY <1>2, <1>5
<1>7. Len(failures) = n
  <2>1. failures = [k \in 1 .. n |-> failures[k]]
    BY <1>2, <1>6
  <2> QED BY <1>4, <2>1, ListOfLength
<1>8. {failures[i] : i \in DOMAIN failures} = {[repo |-> x.repo, run |-> x.run] : x \in failed}
  BY <1>5, <1>6
<1>9. {failures[i].repo : i \in DOMAIN failures} = {x.repo : x \in failed}
  BY <1>5, <1>6
<1>10. ASSUME NEW i \in 1 .. n, NEW j \in 1 .. n, i < j
       PROVE  failures[i].run.updated >= failures[j].run.updated
  <2>1. N(order[i], order[j])
    BY <1>1, <1>4, <1>6, <1>10
  <2>2. order[i].run.updated \in Nat /\ order[j].run.updated \in Nat
    BY <1>6 DEF Collected
  <2>3. order[i].run.updated >= order[j].run.updated
    BY <2>1, <2>2
  <2> QED BY <1>6, <2>3
<1> QED BY <1>4, <1>6, <1>7, <1>8, <1>9, <1>10 DEF failures, n

\* The places of a repository's failed runs, and all of them.
FailedAt(s, name) ==
    LET runs == Shown(s, name).ci.runs IN {k \in DOMAIN runs : Failed(runs[k])}

FailedFamily(s) == [i \in DOMAIN ListedRepos |-> FailedAt(s, ListedRepos[i])]

FailedRunAt(s, i, k) ==
    [place |-> <<i, k>>, repo |-> ListedRepos[i], run |-> Shown(s, ListedRepos[i]).ci.runs[k]]

LEMMA FailedRunsAre ==
    ASSUME NEW s, Proper(s)
    PROVE  /\ \A x : x \in FailedRuns(ListedIn(s)) <=>
                 \E i \in DOMAIN ListedRepos : \E k \in FailedAt(s, ListedRepos[i]) :
                    x = FailedRunAt(s, i, k)
           /\ \A name \in Names : FailedAt(s, name) \subseteq Nat /\ IsFiniteSet(FailedAt(s, name))
           /\ \A name \in Names : FailedAt(s, name) =
                 {k \in RunsTold(s, name) : s.answer[name].runs[k].conclusion \in FailedStatuses}
           /\ \A name \in Names : Shown(s, name).ci.failed = Cardinality(FailedAt(s, name))
           /\ \A name \in Names : Shown(s, name).ci.state = "failing" <=> FailedAt(s, name) # {}
           /\ \A name \in Names : \A k \in FailedAt(s, name) : Shown(s, name).ci.runs[k].updated \in Nat
<1> DEFINE listed == ListedIn(s)
<1>1. \A i \in DOMAIN ListedRepos : ListedRepos[i] \in Names
  BY ListedAreNames
<1>2. \A i \in DOMAIN ListedRepos : listed[i].repository.name = ListedRepos[i]
  <2> TAKE i \in DOMAIN ListedRepos
  <2>1. listed[i] = Shown(s, ListedRepos[i])
    BY DEF ListedIn
  <2> QED BY <1>1, <2>1, RepositoryIs
<1>3. /\ DOMAIN listed = DOMAIN ListedRepos
      /\ \A i \in DOMAIN ListedRepos : listed[i].ci.runs = Shown(s, ListedRepos[i]).ci.runs
  BY DEF ListedIn
<1>4. \A x : x \in FailedRuns(listed) <=>
         \E i \in DOMAIN ListedRepos : \E k \in FailedAt(s, ListedRepos[i]) : x = FailedRunAt(s, i, k)
  <2> HIDE DEF listed
  <2>1. \A x : x \in FailedRuns(listed) <=>
           \E i \in DOMAIN listed :
              \E k \in {j \in DOMAIN listed[i].ci.runs : Failed(listed[i].ci.runs[j])} :
                 x = [place |-> <<i, k>>, repo |-> listed[i].repository.name, run |-> listed[i].ci.runs[k]]
    BY DEF FailedRuns
  <2> QED BY <1>2, <1>3, <2>1 DEF FailedAt, FailedRunAt
<1>5. ASSUME NEW name \in Names
      PROVE  /\ FailedAt(s, name) \subseteq Nat /\ IsFiniteSet(FailedAt(s, name))
             /\ FailedAt(s, name) =
                   {k \in RunsTold(s, name) : s.answer[name].runs[k].conclusion \in FailedStatuses}
             /\ Shown(s, name).ci.failed = Cardinality(FailedAt(s, name))
             /\ Shown(s, name).ci.state = "failing" <=> FailedAt(s, name) # {}
             /\ \A k \in FailedAt(s, name) : Shown(s, name).ci.runs[k].updated \in Nat
  <2> DEFINE ci == Shown(s, name).ci
  <2>1. /\ DOMAIN ci.runs = RunsTold(s, name)
        /\ \A i \in DOMAIN ci.runs :
              /\ Failed(ci.runs[i]) <=> s.answer[name].runs[i].conclusion \in FailedStatuses
              /\ ci.runs[i].updated \in Nat
        /\ IsFiniteSet(DOMAIN ci.runs)
        /\ ci.failed = Cardinality({i \in DOMAIN ci.runs : Failed(ci.runs[i])})
        /\ ci.state = "failing" <=> \E i \in DOMAIN ci.runs : Failed(ci.runs[i])
    BY RunsAreShown
  <2>2. FailedAt(s, name) = {k \in DOMAIN ci.runs : Failed(ci.runs[k])}
    BY DEF FailedAt
  <2>3. RunsTold(s, name) \subseteq Nat
    <3>1. IsList(s.answer[name].runs)
      BY AnswerAssumption DEF Proper, RunsAssumption
    <3> QED BY <3>1 DEF RunsTold, IsList
  <2> HIDE DEF ci
  <2>4. IsFiniteSet(FailedAt(s, name))
    BY <2>1, <2>2, FS_Subset
  <2>5. FailedAt(s, name) =
           {k \in RunsTold(s, name) : s.answer[name].runs[k].conclusion \in FailedStatuses}
    BY <2>1, <2>2
  <2>6. ci.state = "failing" <=> FailedAt(s, name) # {}
    BY <2>1, <2>2
  <2>7. \A k \in FailedAt(s, name) : ci.runs[k].updated \in Nat
    BY <2>1, <2>2
  <2> QED BY <2>1, <2>2, <2>3, <2>4, <2>5, <2>6, <2>7 DEF ci
<1> QED BY <1>4, <1>5

LEMMA FailuresAre ==
    ASSUME NEW s, Proper(s)
    PROVE  LET failed == FailedRuns(ListedIn(s))
           IN  /\ Collected(failed)
               /\ Cardinality(failed) = Added(ListedIn(s), "failed_runs")
               /\ Cardinality(failed) = Cardinality(ToldOf(s))
               /\ {x.repo : x \in failed} = {name \in Names : Shown(s, name).ci.state = "failing"}
<1> DEFINE D == DOMAIN ListedRepos
           failed == FailedRuns(ListedIn(s))
           A == FailedFamily(s)
           pairs == Spread(A)
           told == ToldOf(s)
<1>1. /\ \A i \in D : ListedRepos[i] \in Names
      /\ \A i, j \in D : ListedRepos[i] = ListedRepos[j] => i = j
      /\ \A name \in Names : \E i \in D : ListedRepos[i] = name
      /\ IsFiniteSet(D) /\ D \subseteq Nat
  BY ListedAreNames DEF Listlike
<1>2. /\ \A x : x \in failed <=> \E i \in D : \E k \in FailedAt(s, ListedRepos[i]) : x = FailedRunAt(s, i, k)
      /\ \A name \in Names : FailedAt(s, name) \subseteq Nat /\ IsFiniteSet(FailedAt(s, name))
      /\ \A name \in Names : Shown(s, name).ci.failed = Cardinality(FailedAt(s, name))
      /\ \A name \in Names : Shown(s, name).ci.state = "failing" <=> FailedAt(s, name) # {}
      /\ \A name \in Names : \A k \in FailedAt(s, name) : Shown(s, name).ci.runs[k].updated \in Nat
  BY FailedRunsAre
<1>3. /\ DOMAIN A = D /\ \A i \in D : A[i] = FailedAt(s, ListedRepos[i])
      /\ FiniteFamily(A)
  <2>1. DOMAIN A = D /\ \A i \in D : A[i] = FailedAt(s, ListedRepos[i])
    BY DEF FailedFamily
  <2> HIDE DEF A
  <2> QED BY <1>1, <1>2, <2>1 DEF FiniteFamily
<1>4. \A p : p \in pairs <=> \E i \in D : \E k \in FailedAt(s, ListedRepos[i]) : p = <<i, k>>
  <2> HIDE DEF A
  <2> QED BY <1>3 DEF Spread
<1>5. IsFiniteSet(pairs)
  <2>1. pairs = Part(A, DOMAIN A)
    BY DEF Spread, Part
  <2> QED BY <1>3, <2>1, SpreadIsFinite DEF FiniteFamily
<1>6. \A name : \A k : <<name, k>> \in told <=> name \in Names /\ k \in FailedAt(s, name)
  <2> SUFFICES ASSUME NEW name, NEW k
               PROVE  <<name, k>> \in told <=> name \in Names /\ k \in FailedAt(s, name)
    OBVIOUS
  <2>1. <<name, k>> \in told <=>
           /\ name \in Arrived(s, "runs") /\ s.answer[name].error = Nothing
           /\ k \in DOMAIN s.answer[name].runs
           /\ s.answer[name].runs[k].conclusion \in FailedStatuses
    BY DEF ToldOf
  <2>2. name \in Names => FailedAt(s, name) =
           {j \in RunsTold(s, name) : s.answer[name].runs[j].conclusion \in FailedStatuses}
    BY FailedRunsAre
  <2>3. name \in Names => s.answer[name] \in RepoAnswers
    BY DEF Proper
  <2>4. name \in Names /\ s.answer[name].error # Nothing => DOMAIN s.answer[name].runs = {}
    BY <2>3, RunsAreRead
  <2>5. Arrived(s, "runs") \subseteq Names
    BY DEF Arrived
  <2> HIDE DEF told
  <2> QED BY <2>1, <2>2, <2>4, <2>5 DEF RunsTold
<1>7. \A x \in told : \E name \in Names : \E k \in FailedAt(s, name) : x = <<name, k>>
  <2>1. \A x \in told : \E name, k : x = <<name, k>>
    BY DEF ToldOf
  <2> HIDE DEF told
  <2> QED BY <1>6, <2>1
<1> HIDE DEF D, A, pairs, told, failed
<1>8. IsFiniteSet(failed) /\ Cardinality(failed) = Cardinality(pairs)
  <2> DEFINE f == [p \in pairs |-> FailedRunAt(s, p[1], p[2])]
  <2>1. \A p \in pairs : f[p] \in failed /\ f[p].place = p
    <3> TAKE p \in pairs
    <3>1. PICK i \in D : \E k \in FailedAt(s, ListedRepos[i]) : p = <<i, k>>
      BY <1>4
    <3>2. PICK k \in FailedAt(s, ListedRepos[i]) : p = <<i, k>>
      BY <3>1
    <3>3. f[p] = FailedRunAt(s, i, k) /\ FailedRunAt(s, i, k).place = <<i, k>>
      BY <3>2 DEF FailedRunAt
    <3> QED BY <1>2, <3>2, <3>3
  <2>2. \A x \in failed : \E p \in pairs : f[p] = x
    <3> TAKE x \in failed
    <3>1. PICK i \in D : \E k \in FailedAt(s, ListedRepos[i]) : x = FailedRunAt(s, i, k)
      BY <1>2
    <3>2. PICK k \in FailedAt(s, ListedRepos[i]) : x = FailedRunAt(s, i, k)
      BY <3>1
    <3>3. <<i, k>> \in pairs
      BY <1>4, <3>2
    <3> QED BY <3>2, <3>3
  <2>3. f \in [pairs -> failed]
    BY <2>1
  <2>4. \A p, q \in pairs : f[p] = f[q] => p = q
    BY <2>1
  <2> HIDE DEF f
  <2> QED BY <1>5, <2>2, <2>3, <2>4, OneToOne
<1>9. IsFiniteSet(told) /\ Cardinality(told) = Cardinality(pairs)
  <2> DEFINE f == [p \in pairs |-> <<ListedRepos[p[1]], p[2]>>]
  <2>1. \A i \in D : \A k \in FailedAt(s, ListedRepos[i]) :
           /\ <<i, k>> \in pairs /\ f[<<i, k>>] = <<ListedRepos[i], k>>
           /\ f[<<i, k>>] \in told
    BY <1>1, <1>4, <1>6
  <2>2. \A x \in told : \E p \in pairs : f[p] = x
    <3> TAKE x \in told
    <3>1. PICK name \in Names : \E k \in FailedAt(s, name) : x = <<name, k>>
      BY <1>7
    <3>2. PICK k \in FailedAt(s, name) : x = <<name, k>>
      BY <3>1
    <3>3. PICK i \in D : ListedRepos[i] = name
      BY <1>1
    <3> HIDE DEF f
    <3> QED BY <2>1, <3>2, <3>3
  <2>3. DOMAIN f = pairs /\ f = [p \in pairs |-> f[p]]
    OBVIOUS
  <2>4. \A p, q \in pairs : f[p] = f[q] => p = q
    <3> SUFFICES ASSUME NEW p \in pairs, NEW q \in pairs, f[p] = f[q] PROVE p = q
      OBVIOUS
    <3>1. PICK i \in D : \E k \in FailedAt(s, ListedRepos[i]) : p = <<i, k>>
      BY <1>4
    <3>2. PICK k \in FailedAt(s, ListedRepos[i]) : p = <<i, k>>
      BY <3>1
    <3>3. PICK j \in D : \E l \in FailedAt(s, ListedRepos[j]) : q = <<j, l>>
      BY <1>4
    <3>4. PICK l \in FailedAt(s, ListedRepos[j]) : q = <<j, l>>
      BY <3>3
    <3> HIDE DEF f
    <3>5. <<ListedRepos[i], k>> = <<ListedRepos[j], l>>
      BY <2>1, <3>2, <3>4
    <3> QED BY <1>1, <3>2, <3>4, <3>5
  <2> HIDE DEF f
  <2>5. f \in [pairs -> told]
    <3>1. \A p \in pairs : f[p] \in told
      BY <1>4, <2>1
    <3> QED BY <2>3, <3>1
  <2> QED BY <1>5, <2>2, <2>4, <2>5, OneToOne
<1>10. Cardinality(pairs) = Added(ListedIn(s), "failed_runs")
  <2> DEFINE f == [i \in D |-> Cardinality(A[i])]
  <2>1. SumFunction(f) = Cardinality(pairs)
    <3>1. DOMAIN f = DOMAIN A /\ \A i \in DOMAIN A : f[i] = Cardinality(A[i])
      BY <1>3
    <3> HIDE DEF f
    <3> QED BY <1>3, <3>1, SumIsSize DEF pairs
  <2>2. \A i \in D : Figures(ListedIn(s)[i]).failed_runs = Cardinality(A[i])
    <3> TAKE i \in D
    <3>1. Figures(ListedIn(s)[i]).failed_runs = Shown(s, ListedRepos[i]).ci.failed
      BY DEF Figures, ListedIn, D
    <3> QED BY <1>1, <1>2, <1>3, <3>1
  <2>3. DOMAIN ListedIn(s) = D
    BY DEF ListedIn, D
  <2>4. [i \in DOMAIN ListedIn(s) |-> Figures(ListedIn(s)[i])["failed_runs"]] = f
    BY <2>2, <2>3
  <2> QED BY <2>1, <2>4 DEF Added
<1>11. Collected(failed)
  <2>1. \A x \in failed : \E i \in D : \E k \in FailedAt(s, ListedRepos[i]) :
           /\ x = FailedRunAt(s, i, k) /\ x.place = <<i, k>> /\ i \in Nat /\ k \in Nat
           /\ x.run.updated \in Nat
    <3> TAKE x \in failed
    <3>1. PICK i \in D : \E k \in FailedAt(s, ListedRepos[i]) : x = FailedRunAt(s, i, k)
      BY <1>2
    <3>2. PICK k \in FailedAt(s, ListedRepos[i]) : x = FailedRunAt(s, i, k)
      BY <3>1
    <3>3. x.place = <<i, k>> /\ x.run = Shown(s, ListedRepos[i]).ci.runs[k]
      BY <3>2 DEF FailedRunAt
    <3> QED BY <1>1, <1>2, <3>2, <3>3
  <2>2. \A x \in failed : x.place = <<x.place[1], x.place[2]>> /\ x.place[1] \in Nat
                            /\ x.place[2] \in Nat /\ x.run.updated \in Nat
    BY <2>1
  <2>3. \A x, y \in failed : x.place = y.place => x = y
    BY <2>1
  <2> QED BY <1>8, <2>2, <2>3 DEF Collected
<1>12. {x.repo : x \in failed} = {name \in Names : Shown(s, name).ci.state = "failing"}
  <2>1. \A x \in failed : x.repo \in Names /\ FailedAt(s, x.repo) # {}
    <3> TAKE x \in failed
    <3>1. PICK i \in D : \E k \in FailedAt(s, ListedRepos[i]) : x = FailedRunAt(s, i, k)
      BY <1>2
    <3>2. x.repo = ListedRepos[i]
      BY <3>1 DEF FailedRunAt
    <3> QED BY <1>1, <3>1, <3>2
  <2>2. \A name \in Names : FailedAt(s, name) # {} => \E x \in failed : x.repo = name
    <3> SUFFICES ASSUME NEW name \in Names, NEW k \in FailedAt(s, name)
                 PROVE  \E x \in failed : x.repo = name
      OBVIOUS
    <3>1. PICK i \in D : ListedRepos[i] = name
      BY <1>1
    <3>2. FailedRunAt(s, i, k) \in failed
      BY <1>2, <3>1
    <3>3. FailedRunAt(s, i, k).repo = name
      BY <3>1 DEF FailedRunAt
    <3> QED BY <3>2, <3>3
  <2> QED BY <1>2, <2>1, <2>2
<1> QED BY <1>8, <1>9, <1>10, <1>11, <1>12 DEF failed, told

-----------------------------------------------------------------------------
(* Totals and lists agree                                                  *)

LEMMA AssembleIs ==
    ASSUME NEW s
    PROVE  LET o == Assemble(s, Now)
           IN  /\ o.repos = ShownIn(s)
               /\ o.totals = TotalsOf(ShownIn(s), Parts(s, PageOf(s)).inbox)
               /\ o.failures = NewestFirst(FailedRuns(ListedIn(s)))
<1> DEFINE page == PageOf(s)
           parts == Parts(s, page)
           repositories == [i \in DOMAIN ListedRepos |-> RepositoryOf(s, page, ListedRepos[i])]
           listed == [i \in DOMAIN repositories |-> RepoOverview(repositories[i], parts, Now)]
<1>1. listed = ListedIn(s)
  BY DEF ListedIn, Shown
<1>2. Assemble(s, Now) = BuildOverview(repositories, parts, Now)
  BY DEF Assemble
<1>3. BuildOverview(repositories, parts, Now) =
         [totals   |-> TotalsOf(SortedBy(listed, ShownBefore), parts.inbox),
          repos    |-> SortedBy(listed, ShownBefore),
          failures |-> Failures(listed),
          inbox    |-> parts.inbox]
  BY DEF BuildOverview
<1>4. SortedBy(listed, ShownBefore) = ShownIn(s)
  <2> HIDE DEF listed
  <2> QED BY <1>1 DEF ShownIn
<1> HIDE DEF listed, repositories, parts, page
<1> QED BY <1>1, <1>2, <1>3, <1>4 DEF Failures, parts, page

\* The totals do not depend on the order in which repositories are shown.
LEMMA AddedIsPermuted ==
    ASSUME NEW s, Proper(s), NEW key \in SummedKeys \cup {"listed"}
    PROVE  /\ Counts([i \in DOMAIN ListedIn(s) |-> Figures(ListedIn(s)[i])[key]])
           /\ Counts([i \in DOMAIN ShownIn(s) |-> Figures(ShownIn(s)[i])[key]])
           /\ Added(ShownIn(s), key) = Added(ListedIn(s), key)
<1> DEFINE D == DOMAIN ListedRepos
           f == [i \in DOMAIN ShownIn(s) |-> Figures(ShownIn(s)[i])[key]]
           g == [i \in DOMAIN ListedIn(s) |-> Figures(ListedIn(s)[i])[key]]
<1>1. PICK b \in Bijection(D, D) :
         ShownIn(s) = [i \in D |-> Shown(s, ListedRepos[b[i]])]
  BY ShownIsPermuted
<1>2. DOMAIN g = D /\ \A i \in D : g[i] = Figures(Shown(s, ListedRepos[i]))[key]
  BY DEF ListedIn
<1>3. DOMAIN f = D /\ \A i \in D : f[i] = Figures(Shown(s, ListedRepos[b[i]]))[key]
  BY <1>1
<1>4. b \in [D -> D]
  BY <1>1 DEF Bijection, Injection
<1>5. IsFiniteSet(D) /\ \A i \in D : ListedRepos[i] \in Names
  BY ListedAreNames
<1> HIDE DEF f, g
<1>6. Counts(g)
  <2>1. \A i \in D : g[i] \in Nat
    BY <1>2, <1>5, FiguresAreNumbers
  <2> QED BY <1>2, <1>5, <2>1 DEF Counts
<1>7. b \in Bijection(DOMAIN f, DOMAIN g) /\ \A i \in DOMAIN f : f[i] = g[b[i]]
  <2>1. DOMAIN f = D /\ DOMAIN g = D
    BY <1>2, <1>3
  <2> HIDE DEF D
  <2> QED BY <1>1, <1>2, <1>3, <1>4, <2>1
<1>8. SumFunction(f) = SumFunction(g) /\ Counts(f)
  BY <1>6, <1>7, SumIsPermuted
<1> QED BY <1>6, <1>8 DEF Added, f, g

\* Every repository that is shown is one of the listed ones.
LEMMA ShownAreListed ==
    ASSUME NEW s, Proper(s)
    PROVE  /\ DOMAIN ShownIn(s) = DOMAIN ListedRepos
           /\ \A i \in DOMAIN ShownIn(s) : \E name \in Names : ShownIn(s)[i] = Shown(s, name)
           /\ \A name \in Names : \E i \in DOMAIN ShownIn(s) : ShownIn(s)[i] = Shown(s, name)
<1> DEFINE D == DOMAIN ListedRepos
<1>1. PICK b \in Bijection(D, D) :
         ShownIn(s) = [i \in D |-> Shown(s, ListedRepos[b[i]])]
  BY ShownIsPermuted
<1>2. b \in [D -> D] /\ \A j \in D : \E i \in D : b[i] = j
  BY <1>1 DEF Bijection, Injection, Surjection
<1>3. /\ \A i \in D : ListedRepos[i] \in Names
      /\ \A name \in Names : \E i \in D : ListedRepos[i] = name
  BY ListedAreNames
<1>4. DOMAIN ShownIn(s) = D /\ \A i \in D : ShownIn(s)[i] = Shown(s, ListedRepos[b[i]])
  BY <1>1
<1> HIDE DEF D
<1>5. \A i \in D : \E name \in Names : ShownIn(s)[i] = Shown(s, name)
  BY <1>2, <1>3, <1>4
<1>6. \A name \in Names : \E i \in D : ShownIn(s)[i] = Shown(s, name)
  <2> TAKE name \in Names
  <2>1. PICK j \in D : ListedRepos[j] = name
    BY <1>3
  <2>2. PICK i \in D : b[i] = j
    BY <1>2
  <2> QED BY <1>4, <2>1, <2>2
<1> QED BY <1>4, <1>5, <1>6 DEF D

LEMMA FailingAreCounted ==
    ASSUME NEW s, Proper(s)
    PROVE  LET failing == {name \in Names : Shown(s, name).ci.state = "failing"}
           IN  /\ IsFiniteSet(failing)
               /\ Cardinality(FailingPlaces(ShownIn(s))) = Cardinality(failing)
<1> DEFINE D == DOMAIN ListedRepos
           failing == {name \in Names : Shown(s, name).ci.state = "failing"}
           places == {i \in D : Shown(s, ListedRepos[i]).ci.state = "failing"}
           seen == {i \in D : ShownIn(s)[i].ci.state = "failing"}
<1>1. PICK b \in Bijection(D, D) :
         ShownIn(s) = [i \in D |-> Shown(s, ListedRepos[b[i]])]
  BY ShownIsPermuted
<1>2. /\ IsFiniteSet(D)
      /\ \A i \in D : ListedRepos[i] \in Names
      /\ \A i, j \in D : ListedRepos[i] = ListedRepos[j] => i = j
      /\ \A name \in Names : \E i \in D : ListedRepos[i] = name
      /\ IsFiniteSet(Names)
  BY ListedAreNames
<1>3. \A i \in D : b[i] \in D /\ ShownIn(s)[i] = Shown(s, ListedRepos[b[i]])
  BY <1>1 DEF Bijection, Injection
<1> HIDE DEF D
<1>4. Cardinality(seen) = Cardinality(places)
  <2>1. seen \in SUBSET D /\ places \in SUBSET D /\ \A i \in D : i \in seen <=> b[i] \in places
    BY <1>3
  <2> HIDE DEF seen, places
  <2> QED BY <1>1, <1>2, <2>1, CountIsPermuted
<1>5. Cardinality(failing) = Cardinality(places)
  <2> DEFINE f == [i \in places |-> ListedRepos[i]]
  <2>1. f \in [places -> failing]
    BY <1>2
  <2>2. \A i, j \in places : f[i] = f[j] => i = j
    BY <1>2
  <2>3. \A name \in failing : \E i \in places : f[i] = name
    BY <1>2
  <2>4. IsFiniteSet(places)
    BY <1>2, FS_Subset
  <2> HIDE DEF f, places, failing
  <2>5. IsFiniteSet(places) => IsFiniteSet(failing) /\ Cardinality(failing) = Cardinality(places)
    BY <2>1, <2>2, <2>3, OneToOne
  <2> QED BY <2>4, <2>5
<1>6. IsFiniteSet(failing)
  BY <1>2, FS_Subset
<1>7. DOMAIN ShownIn(s) = D
  BY <1>1
<1>8. FailingPlaces(ShownIn(s)) = seen
  BY <1>7 DEF FailingPlaces
<1> HIDE DEF seen, places
<1> QED BY <1>4, <1>5, <1>6, <1>8

LEMMA ListsDoAgree ==
    ASSUME NEW s, Proper(s)
    PROVE  ListsAgree(Assemble(s, Now), Cardinality(ToldOf(s)))
<1> DEFINE o == Assemble(s, Now)
           told == Cardinality(ToldOf(s))
           failed == FailedRuns(ListedIn(s))
           failing == {name \in Names : Shown(s, name).ci.state = "failing"}
<1>1. /\ o.repos = ShownIn(s)
      /\ o.totals = TotalsOf(ShownIn(s), Parts(s, PageOf(s)).inbox)
      /\ o.failures = NewestFirst(failed)
  BY AssembleIs
<1>2. /\ Collected(failed) /\ Cardinality(failed) = Added(ListedIn(s), "failed_runs")
      /\ Cardinality(failed) = told /\ {x.repo : x \in failed} = failing
  BY FailuresAre
<1>3. /\ o.totals.failed_runs = Added(ShownIn(s), "failed_runs")
      /\ o.totals.repos_failing = Cardinality(FailingPlaces(ShownIn(s)))
  <2> DEFINE inbox == Parts(s, PageOf(s)).inbox
             t == TotalsOf(ShownIn(s), inbox)
  <2>1. /\ \A key \in SummedKeys : t[key] = Added(ShownIn(s), key)
        /\ t.repos_failing = Cardinality(FailingPlaces(ShownIn(s)))
    BY TotalsAreSums
  <2>2. "failed_runs" \in SummedKeys /\ o.totals = t
    BY <1>1 DEF SummedKeys
  <2> HIDE DEF t, o
  <2> QED BY <2>1, <2>2
<1>4. Added(ShownIn(s), "failed_runs") = Added(ListedIn(s), "failed_runs")
  BY AddedIsPermuted DEF SummedKeys
<1>5. Cardinality(FailingPlaces(ShownIn(s))) = Cardinality(failing)
  BY FailingAreCounted
<1> HIDE DEF o, told, failed
<1>6. /\ Len(o.failures) = told
      /\ {o.failures[i].repo : i \in DOMAIN o.failures} = failing
      /\ \A i, j \in DOMAIN o.failures : i < j => o.failures[i].run.updated >= o.failures[j].run.updated
  <2>1. LET failures == NewestFirst(failed)
        IN  /\ Len(failures) = Cardinality(failed)
            /\ {failures[i].repo : i \in DOMAIN failures} = {x.repo : x \in failed}
            /\ \A i, j \in DOMAIN failures : i < j => failures[i].run.updated >= failures[j].run.updated
    BY <1>2, NewestFirstIs
  <2> HIDE DEF failing
  <2> QED BY <1>1, <1>2, <2>1
<1>7. {o.repos[i].repository.name : i \in DOMAIN o.repos} = Names
  <2>1. /\ \A i \in DOMAIN ShownIn(s) : \E name \in Names : ShownIn(s)[i] = Shown(s, name)
        /\ \A name \in Names : \E i \in DOMAIN ShownIn(s) : ShownIn(s)[i] = Shown(s, name)
    BY ShownAreListed
  <2>2. \A name \in Names : Shown(s, name).repository.name = name
    BY RepositoryIs
  <2> QED BY <1>1, <2>1, <2>2
<1>8. \A i, j \in DOMAIN o.repos :
         i < j /\ o.repos[j].ci.state = "failing" => o.repos[i].ci.state = "failing"
  BY <1>1, ShownIsPermuted, ShownAreListed
<1> HIDE DEF failing
<1>9. o.totals.failed_runs = told /\ o.totals.repos_failing =
         Cardinality({o.failures[i].repo : i \in DOMAIN o.failures})
  BY <1>2, <1>3, <1>4, <1>5, <1>6
<1> QED BY <1>6, <1>7, <1>8, <1>9 DEF ListsAgree, o, told

\* What holds of every repository's figures holds of the totals.
FiguresOf(s, key) == [i \in DOMAIN ShownIn(s) |-> Figures(ShownIn(s)[i])[key]]

LEMMA FiguresAreCounts ==
    ASSUME NEW s, Proper(s), NEW key \in SummedKeys \cup {"listed"}
    PROVE  /\ Counts(FiguresOf(s, key)) /\ DOMAIN FiguresOf(s, key) = DOMAIN ShownIn(s)
           /\ Added(ShownIn(s), key) = SumFunction(FiguresOf(s, key))
           /\ Added(ShownIn(s), key) \in Nat
<1>1. /\ Counts(FiguresOf(s, key)) /\ DOMAIN FiguresOf(s, key) = DOMAIN ShownIn(s)
      /\ Added(ShownIn(s), key) = SumFunction(FiguresOf(s, key))
  BY AddedIsPermuted DEF FiguresOf, Added
<1> QED BY <1>1, SumIsSpread

LEMMA TwoAddUp ==
    ASSUME NEW s, Proper(s), NEW a \in SummedKeys, NEW b \in SummedKeys,
           NEW c \in SummedKeys \cup {"listed"}
    PROVE  /\ (\A name \in Names : LET f == Figures(Shown(s, name)) IN f[c] <= f[a] + f[b]) =>
                 Added(ShownIn(s), c) <= Added(ShownIn(s), a) + Added(ShownIn(s), b)
           /\ (\A name \in Names : LET f == Figures(Shown(s, name)) IN f[c] = f[a] + f[b]) =>
                 Added(ShownIn(s), c) = Added(ShownIn(s), a) + Added(ShownIn(s), b)
<1> DEFINE D == DOMAIN ShownIn(s)
           fa == FiguresOf(s, a)
           fb == FiguresOf(s, b)
           fc == FiguresOf(s, c)
           h == [i \in D |-> fa[i] + fb[i]]
<1>1. /\ Counts(fa) /\ Counts(fb) /\ Counts(fc)
      /\ DOMAIN fa = D /\ DOMAIN fb = D /\ DOMAIN fc = D
      /\ Added(ShownIn(s), a) = SumFunction(fa) /\ Added(ShownIn(s), b) = SumFunction(fb)
      /\ Added(ShownIn(s), c) = SumFunction(fc)
  BY FiguresAreCounts
<1>2. \A i \in D : \E name \in Names :
         LET f == Figures(Shown(s, name)) IN fa[i] = f[a] /\ fb[i] = f[b] /\ fc[i] = f[c]
  BY ShownAreListed DEF FiguresOf
<1>3. DOMAIN h = D /\ \A i \in D : h[i] = fa[i] + fb[i]
  OBVIOUS
<1> HIDE DEF fa, fb, fc, h, D
<1>4. SumFunction(h) = SumFunction(fa) + SumFunction(fb) /\ Counts(h)
  BY <1>1, <1>3, SumsAdd
<1>5. ASSUME \A name \in Names : LET f == Figures(Shown(s, name)) IN f[c] <= f[a] + f[b]
      PROVE  Added(ShownIn(s), c) <= Added(ShownIn(s), a) + Added(ShownIn(s), b)
  <2>1. \A i \in D : fc[i] <= h[i]
    BY <1>2, <1>3, <1>5
  <2>2. SumFunction(fc) <= SumFunction(h)
    BY <1>1, <1>3, <1>4, <2>1, SumsCompare
  <2> QED BY <1>1, <1>4, <2>2
<1>6. ASSUME \A name \in Names : LET f == Figures(Shown(s, name)) IN f[c] = f[a] + f[b]
      PROVE  Added(ShownIn(s), c) = Added(ShownIn(s), a) + Added(ShownIn(s), b)
  <2>1. \A i \in D : fc[i] = fa[i] + fb[i]
    BY <1>2, <1>6
  <2> QED BY <1>1, <2>1, SumsAdd
<1> QED BY <1>5, <1>6

LEMMA ThreeAddUp ==
    ASSUME NEW s, Proper(s), NEW a \in SummedKeys, NEW b \in SummedKeys, NEW c \in SummedKeys,
           NEW all \in SummedKeys \cup {"listed"},
           \A name \in Names : LET f == Figures(Shown(s, name)) IN f[a] + f[b] + f[c] <= f[all]
    PROVE  Added(ShownIn(s), a) + Added(ShownIn(s), b) + Added(ShownIn(s), c) <= Added(ShownIn(s), all)
<1> DEFINE D == DOMAIN ShownIn(s)
           fa == FiguresOf(s, a)
           fb == FiguresOf(s, b)
           fc == FiguresOf(s, c)
           fall == FiguresOf(s, all)
           h == [i \in D |-> fa[i] + fb[i]]
           g == [i \in D |-> h[i] + fc[i]]
<1>1. /\ Counts(fa) /\ Counts(fb) /\ Counts(fc) /\ Counts(fall)
      /\ DOMAIN fa = D /\ DOMAIN fb = D /\ DOMAIN fc = D /\ DOMAIN fall = D
      /\ Added(ShownIn(s), a) = SumFunction(fa) /\ Added(ShownIn(s), b) = SumFunction(fb)
      /\ Added(ShownIn(s), c) = SumFunction(fc) /\ Added(ShownIn(s), all) = SumFunction(fall)
  BY FiguresAreCounts
<1>2. \A i \in D : fa[i] + fb[i] + fc[i] <= fall[i]
  <2>1. \A i \in D : \E name \in Names :
           LET f == Figures(Shown(s, name))
           IN  fa[i] = f[a] /\ fb[i] = f[b] /\ fc[i] = f[c] /\ fall[i] = f[all]
    BY ShownAreListed DEF FiguresOf
  <2> HIDE DEF fa, fb, fc, fall, D
  <2> QED BY <2>1
<1>3. /\ DOMAIN h = D /\ \A i \in D : h[i] = fa[i] + fb[i]
      /\ DOMAIN g = D /\ \A i \in D : g[i] = h[i] + fc[i]
  OBVIOUS
<1> HIDE DEF fa, fb, fc, fall, h, g, D
<1>4. SumFunction(h) = SumFunction(fa) + SumFunction(fb) /\ Counts(h)
  BY <1>1, <1>3, SumsAdd
<1>5. SumFunction(g) = SumFunction(h) + SumFunction(fc) /\ Counts(g)
  BY <1>1, <1>3, <1>4, SumsAdd
<1>6. SumFunction(g) <= SumFunction(fall)
  <2>1. \A i \in D : g[i] <= fall[i]
    BY <1>2, <1>3
  <2> QED BY <1>1, <1>3, <1>5, <2>1, SumsCompare
<1> QED BY <1>1, <1>4, <1>5, <1>6

LEMMA OneAddsUp ==
    ASSUME NEW s, Proper(s), NEW a \in SummedKeys, NEW b \in SummedKeys,
           \A name \in Names : LET f == Figures(Shown(s, name)) IN f[a] <= f[b]
    PROVE  Added(ShownIn(s), a) <= Added(ShownIn(s), b)
<1> DEFINE fa == FiguresOf(s, a)
           fb == FiguresOf(s, b)
<1>1. /\ Counts(fa) /\ Counts(fb) /\ DOMAIN fa = DOMAIN fb
      /\ Added(ShownIn(s), a) = SumFunction(fa) /\ Added(ShownIn(s), b) = SumFunction(fb)
  BY FiguresAreCounts
<1>2. \A i \in DOMAIN fa : fa[i] <= fb[i]
  BY ShownAreListed DEF FiguresOf
<1> HIDE DEF fa, fb
<1> QED BY <1>1, <1>2, SumsCompare

LEMMA TotalsAddUp ==
    ASSUME NEW s, Proper(s)
    PROVE  LET t == Assemble(s, Now).totals
               listed == SumOf(Assemble(s, Now).repos, LAMBDA r : Len(r.repository.prs))
           IN  /\ t.human_prs + t.bot_prs >= Max({t.open_prs, listed})
               /\ t.prs_ready + t.prs_changes_requested + t.prs_failing <= listed
               /\ t.security_critical + t.security_high + t.secret_alerts <= t.security_total
               /\ t.ci_seconds_month = t.ci_seconds_month_private + t.ci_seconds_month_public
               /\ t.stale_branches <= t.branches_without_pr
<1> DEFINE o == Assemble(s, Now)
           t == o.totals
           listed == SumOf(o.repos, LAMBDA r : Len(r.repository.prs))
           At(key) == Added(ShownIn(s), key)
<1>1. (\A key \in SummedKeys : t[key] = At(key)) /\ listed = At("listed")
  <2> DEFINE inbox == Parts(s, PageOf(s)).inbox
             totals == TotalsOf(ShownIn(s), inbox)
  <2>1. /\ \A key \in SummedKeys : totals[key] = At(key)
        /\ SumOf(ShownIn(s), LAMBDA r : Len(r.repository.prs)) = At("listed")
    BY TotalsAreSums
  <2>2. o.repos = ShownIn(s) /\ t = totals
    BY AssembleIs
  <2> HIDE DEF totals, o
  <2> QED BY <2>1, <2>2
<1>2. \A key \in SummedKeys \cup {"listed"} : At(key) \in Nat
  BY FiguresAreCounts
<1>3. At("open_prs") <= At("human_prs") + At("bot_prs") /\ At("listed") <= At("human_prs") + At("bot_prs")
  <2>1. \A name \in Names : LET f == Figures(Shown(s, name)) IN
           f.open_prs <= f.human_prs + f.bot_prs /\ f.listed <= f.human_prs + f.bot_prs
    <3> TAKE name \in Names
    <3> DEFINE f == Figures(Shown(s, name))
    <3>1. /\ f.listed \in Nat /\ f.open_prs \in Nat /\ f.human_prs \in Nat /\ f.bot_prs \in Nat
          /\ f.human_prs + f.bot_prs >= f.open_prs /\ f.human_prs + f.bot_prs >= f.listed
      BY PrsAddUp
    <3> HIDE DEF f
    <3>2. f.open_prs <= f.human_prs + f.bot_prs /\ f.listed <= f.human_prs + f.bot_prs
      BY <3>1
    <3> QED BY <3>2 DEF f
  <2>2. "human_prs" \in SummedKeys /\ "bot_prs" \in SummedKeys /\ "open_prs" \in SummedKeys
    BY DEF SummedKeys
  <2> QED BY <2>1, <2>2, TwoAddUp
<1>4. At("prs_ready") + At("prs_changes_requested") + At("prs_failing") <= At("listed")
  <2>1. \A name \in Names : LET f == Figures(Shown(s, name)) IN
           f.prs_ready + f.prs_changes_requested + f.prs_failing <= f.listed
    BY PrsAddUp
  <2>2. "prs_ready" \in SummedKeys /\ "prs_changes_requested" \in SummedKeys /\ "prs_failing" \in SummedKeys
    BY DEF SummedKeys
  <2> QED BY <2>1, <2>2, ThreeAddUp
<1>5. At("security_critical") + At("security_high") + At("secret_alerts") <= At("security_total")
  <2>1. \A name \in Names : LET f == Figures(Shown(s, name)) IN
           f.security_critical + f.security_high + f.secret_alerts <= f.security_total
    BY SecurityAddsUp
  <2>2. /\ "security_critical" \in SummedKeys /\ "security_high" \in SummedKeys
        /\ "secret_alerts" \in SummedKeys /\ "security_total" \in SummedKeys
    BY DEF SummedKeys
  <2> QED BY <2>1, <2>2, ThreeAddUp
<1>6. At("ci_seconds_month") = At("ci_seconds_month_private") + At("ci_seconds_month_public")
  <2>1. \A name \in Names : LET f == Figures(Shown(s, name)) IN
           f.ci_seconds_month = f.ci_seconds_month_private + f.ci_seconds_month_public
    BY LaterPartsAddUp
  <2>2. /\ "ci_seconds_month" \in SummedKeys /\ "ci_seconds_month_private" \in SummedKeys
        /\ "ci_seconds_month_public" \in SummedKeys
    BY DEF SummedKeys
  <2> QED BY <2>1, <2>2, TwoAddUp
<1>7. At("stale_branches") <= At("branches_without_pr")
  <2>1. \A name \in Names : LET f == Figures(Shown(s, name)) IN f.stale_branches <= f.branches_without_pr
    BY BranchesAddUp
  <2>2. "stale_branches" \in SummedKeys /\ "branches_without_pr" \in SummedKeys
    BY DEF SummedKeys
  <2> QED BY <2>1, <2>2, OneAddsUp
<1> HIDE DEF o, t, listed, At
<1>8. /\ t.human_prs = At("human_prs") /\ t.bot_prs = At("bot_prs") /\ t.open_prs = At("open_prs")
      /\ t.prs_ready = At("prs_ready") /\ t.prs_changes_requested = At("prs_changes_requested")
      /\ t.prs_failing = At("prs_failing") /\ t.security_critical = At("security_critical")
      /\ t.security_high = At("security_high") /\ t.secret_alerts = At("secret_alerts")
      /\ t.security_total = At("security_total") /\ t.ci_seconds_month = At("ci_seconds_month")
      /\ t.ci_seconds_month_private = At("ci_seconds_month_private")
      /\ t.ci_seconds_month_public = At("ci_seconds_month_public")
      /\ t.stale_branches = At("stale_branches") /\ t.branches_without_pr = At("branches_without_pr")
  BY <1>1 DEF SummedKeys
<1>9. t.human_prs + t.bot_prs >= Max({t.open_prs, listed})
  <2>1. /\ At("human_prs") \in Nat /\ At("bot_prs") \in Nat /\ At("open_prs") \in Nat
        /\ At("listed") \in Nat
    BY <1>2 DEF SummedKeys
  <2>2. Max({t.open_prs, listed}) = IF t.open_prs >= listed THEN t.open_prs ELSE listed
    BY <1>1, <1>8, <2>1, MaxOfTwo
  <2> QED BY <1>1, <1>3, <1>8, <2>1, <2>2
<1> QED BY <1>1, <1>4, <1>5, <1>6, <1>7, <1>8, <1>9 DEF o, t, listed

LEMMA ExtremesAre ==
    ASSUME NEW S \in SUBSET (0 .. 100), S # {}
    PROVE  /\ Min(S) \in S /\ \A x \in S : Min(S) <= x
           /\ Max(S) \in S /\ \A x \in S : x <= Max(S)
<1>1. \E m \in S : \A x \in S : m <= x
  <2>1. PICK a \in S : TRUE
    OBVIOUS
  <2>2. S \in SUBSET Nat
    OBVIOUS
  <2> QED BY <2>1, <2>2, LeastOf
<1>2. \E m \in S : \A x \in S : x <= m
  <2> DEFINE T == {100 - x : x \in S}
  <2>1. PICK a \in S : TRUE
    OBVIOUS
  <2>2. T \in SUBSET Nat /\ 100 - a \in T
    OBVIOUS
  <2>3. PICK n \in T : \A k \in T : n <= k
    BY <2>2, LeastOf
  <2>4. PICK m \in S : n = 100 - m
    BY <2>3
  <2>5. \A x \in S : 100 - m <= 100 - x
    BY <2>3, <2>4
  <2>6. \A x \in S : x <= m
    BY <2>5
  <2> QED BY <2>6
<1>3. Min(S) \in S /\ \A x \in S : Min(S) <= x
  BY <1>1 DEF Min
<1>4. Max(S) \in S /\ \A x \in S : x <= Max(S)
  <2>1. Max(S) \in S /\ \A x \in S : Max(S) >= x
    BY <1>2 DEF Max
  <2> QED BY <2>1
<1> QED BY <1>3, <1>4

\* The average score is between the lowest and the highest.
LEMMA AverageIsBetween ==
    ASSUME NEW s, Proper(s)
    PROVE  LET o == Assemble(s, Now)
               scores == Scores(o)
               average == o.totals.hygiene_average
           IN  /\ scores = {} => average = 100
               /\ scores # {} => average \in Min(scores) .. Max(scores)
<1> DEFINE o == Assemble(s, Now)
           repos == ShownIn(s)
           scored == {i \in DOMAIN repos : repos[i].hygiene.applicable}
           f == [i \in scored |-> Score(repos[i].hygiene)]
           scores == {Score(repos[i].hygiene) : i \in scored}
<1>1. o.repos = repos /\ o.totals.hygiene_average = HygieneAverage(repos)
  <2> DEFINE totals == TotalsOf(repos, Parts(s, PageOf(s)).inbox)
  <2>1. o.repos = repos /\ o.totals = totals
    BY AssembleIs
  <2>2. totals.hygiene_average = HygieneAverage(repos)
    BY TotalsAreSums
  <2> HIDE DEF o, totals, repos
  <2> QED BY <2>1, <2>2
<1>2. Scores(o) = scores
  <2> HIDE DEF o, repos
  <2> QED BY <1>1 DEF Scores
<1>3. HygieneAverage(repos) = IF scored = {} THEN 100 ELSE Round(SumFunction(f), Cardinality(scored))
  BY DEF HygieneAverage
<1>4. \A i \in scored : Score(repos[i].hygiene) \in 0 .. 100
  <2> TAKE i \in scored
  <2>1. PICK name \in Names : repos[i] = Shown(s, name)
    BY ShownAreListed
  <2> DEFINE facts == HygieneFactsFromNode(HygieneNode(s.answer[name], name))
  <2>2. repos[i].hygiene \in {AssessHygiene(facts), NoHygiene}
    BY <2>1, PartsAre
  <2>3. repos[i].hygiene.applicable /\ ~ NoHygiene.applicable
    BY DEF NoHygiene
  <2> HIDE DEF facts, repos, scored
  <2>4. repos[i].hygiene = AssessHygiene(facts)
    BY <2>2, <2>3
  <2> QED BY <2>4, ScoreIsPercent
<1>5. IsFiniteSet(scored) /\ Cardinality(scored) \in Nat /\ (scored # {} => Cardinality(scored) # 0)
  <2>1. IsFiniteSet(DOMAIN repos)
    BY ShownAreListed, ListedAreNames
  <2>2. IsFiniteSet(scored)
    BY <2>1, FS_Subset
  <2> QED BY <2>2, FS_CardinalityType, FS_EmptySet
<1> HIDE DEF repos, o
<1>6. /\ DOMAIN f = scored /\ \A i \in scored : f[i] = Score(repos[i].hygiene) /\ f[i] \in scores
      /\ scores \in SUBSET (0 .. 100) /\ (scores = {} <=> scored = {})
  BY <1>4
<1> HIDE DEF scores, scored, f
<1>7. ASSUME scores # {} PROVE HygieneAverage(repos) \in Min(scores) .. Max(scores)
  <2> DEFINE lo == Min(scores)
             hi == Max(scores)
  <2>1. /\ lo \in scores /\ hi \in scores
        /\ \A x \in scores : lo <= x
        /\ \A x \in scores : x <= hi
    BY <1>6, <1>7, ExtremesAre
  <2> HIDE DEF lo, hi
  <2>2. lo \in Nat /\ hi \in Nat
    BY <1>6, <2>1
  <2>3. Counts(f) /\ \A i \in DOMAIN f : lo <= f[i] /\ f[i] <= hi
    <3>1. \A i \in DOMAIN f : f[i] \in Nat
      BY <1>6
    <3> QED BY <1>5, <1>6, <2>1, <3>1 DEF Counts
  <2>4. /\ Cardinality(scored) * lo <= SumFunction(f)
        /\ SumFunction(f) <= Cardinality(scored) * hi
    <3>1. /\ Cardinality(DOMAIN f) * lo <= SumFunction(f)
          /\ SumFunction(f) <= Cardinality(DOMAIN f) * hi
      BY <2>2, <2>3, SumIsBetween
    <3> QED BY <1>6, <3>1
  <2>5. SumFunction(f) \in Nat /\ Cardinality(scored) \in Nat \ {0} /\ scored # {}
    BY <1>5, <1>6, <1>7, <2>3, SumIsSpread
  <2>6. Round(SumFunction(f), Cardinality(scored)) \in lo .. hi
    BY <2>2, <2>4, <2>5, RoundIsBetween
  <2> QED BY <1>3, <2>5, <2>6 DEF lo, hi
<1>8. scores = {} => HygieneAverage(repos) = 100
  BY <1>3, <1>6
<1> QED BY <1>1, <1>2, <1>7, <1>8 DEF o

LEMMA CountsOfReposAgree ==
    ASSUME NEW s, Proper(s)
    PROVE  LET t == Assemble(s, Now).totals
           IN  /\ t.repos_with_alerts > 0 <=> t.security_total > 0
               /\ \A key \in CountedKeys : t.repos_without[key] <= Cardinality(Names)
<1> DEFINE t == Assemble(s, Now).totals
           repos == ShownIn(s)
           f == FiguresOf(s, "security_total")
           alerted == AlertedPlaces(repos)
<1>1. /\ \A key \in SummedKeys : t[key] = Added(repos, key)
      /\ t.repos_with_alerts = Cardinality(alerted)
      /\ t.repos_without = [key \in CountedKeys |-> ReposMissing(repos, key)]
  <2> DEFINE inbox == Parts(s, PageOf(s)).inbox
             totals == TotalsOf(repos, inbox)
  <2>1. /\ \A key \in SummedKeys : totals[key] = Added(repos, key)
        /\ totals.repos_with_alerts = Cardinality(alerted)
        /\ totals.repos_without = [key \in CountedKeys |-> ReposMissing(repos, key)]
    BY TotalsAreSums
  <2>2. t = totals
    BY AssembleIs
  <2> HIDE DEF totals, t
  <2> QED BY <2>1, <2>2
<1>2. /\ IsFiniteSet(DOMAIN repos) /\ Cardinality(DOMAIN repos) = Cardinality(Names)
      /\ \A S \in SUBSET DOMAIN repos :
            IsFiniteSet(S) /\ Cardinality(S) \in Nat /\ Cardinality(S) <= Cardinality(Names)
  BY ShownAreListed, ListedAreNames, PlacesCount
<1>3. "security_total" \in SummedKeys
  BY DEF SummedKeys
<1>4. /\ Counts(f) /\ DOMAIN f = DOMAIN repos /\ Added(repos, "security_total") = SumFunction(f)
  BY <1>3, FiguresAreCounts
<1>5. \A i \in DOMAIN repos : f[i] = SecurityTotal(repos[i].security)
  BY DEF FiguresOf, Figures
<1> HIDE DEF t, repos, f
<1>6. Cardinality(alerted) > 0 <=> \E i \in DOMAIN f : f[i] > 0
  <2>1. alerted \in SUBSET DOMAIN repos
    BY DEF AlertedPlaces
  <2>2. alerted # {} <=> \E i \in DOMAIN f : f[i] > 0
    BY <1>4, <1>5 DEF AlertedPlaces
  <2> HIDE DEF alerted
  <2>3. IsFiniteSet(alerted) /\ Cardinality(alerted) \in Nat
    BY <1>2, <2>1
  <2>4. Cardinality(alerted) = 0 <=> alerted = {}
    BY <2>3, FS_EmptySet
  <2> QED BY <2>2, <2>3, <2>4
<1>7. t.repos_with_alerts > 0 <=> t.security_total > 0
  <2>1. SumFunction(f) > 0 <=> \E i \in DOMAIN f : f[i] > 0
    BY <1>4, SumIsPositive
  <2>2. t.security_total = SumFunction(f)
    BY <1>1, <1>3, <1>4
  <2> HIDE DEF alerted
  <2> QED BY <1>1, <1>6, <2>1, <2>2
<1>8. \A key \in CountedKeys : t.repos_without[key] <= Cardinality(Names)
  <2> TAKE key \in CountedKeys
  <2> DEFINE missing == {i \in DOMAIN repos : repos[i].hygiene.applicable
                                                 /\ key \in FailingKeys(repos[i].hygiene)}
  <2>1. ReposMissing(repos, key) = Cardinality(missing)
    BY DEF ReposMissing, CountOf
  <2>2. missing \in SUBSET DOMAIN repos
    OBVIOUS
  <2> HIDE DEF missing, alerted
  <2>3. Cardinality(missing) <= Cardinality(Names)
    BY <1>2, <2>2
  <2>4. t.repos_without[key] = ReposMissing(repos, key)
    BY <1>1
  <2> QED BY <2>1, <2>3, <2>4
<1> QED BY <1>7, <1>8 DEF t

LEMMA OverviewDoesAgree ==
    ASSUME NEW s, Proper(s)
    PROVE  Agrees(Assemble(s, Now), s)
<1>1. ListsAgree(Assemble(s, Now), Cardinality(ToldOf(s)))
  BY ListsDoAgree
<1> DEFINE o == Assemble(s, Now)
           listed == SumOf(o.repos, LAMBDA r : Len(r.repository.prs))
<1>2. /\ o.totals.human_prs + o.totals.bot_prs >= Max({o.totals.open_prs, listed})
      /\ o.totals.prs_ready + o.totals.prs_changes_requested + o.totals.prs_failing <= listed
      /\ o.totals.security_critical + o.totals.security_high + o.totals.secret_alerts
            <= o.totals.security_total
      /\ o.totals.ci_seconds_month =
            o.totals.ci_seconds_month_private + o.totals.ci_seconds_month_public
      /\ o.totals.stale_branches <= o.totals.branches_without_pr
  BY TotalsAddUp
<1>3. /\ Scores(o) = {} => o.totals.hygiene_average = 100
      /\ Scores(o) # {} => o.totals.hygiene_average \in Min(Scores(o)) .. Max(Scores(o))
  BY AverageIsBetween
<1>4. /\ o.totals.repos_with_alerts > 0 <=> o.totals.security_total > 0
      /\ \A key \in CountedKeys : o.totals.repos_without[key] <= Cardinality(Names)
  BY CountsOfReposAgree
<1>5. TotalsAgree(o.totals, listed, Scores(o))
  <2> HIDE DEF o, listed
  <2> QED BY <1>2, <1>3, <1>4 DEF TotalsAgree
<1> QED BY <1>1, <1>5 DEF Agrees

-----------------------------------------------------------------------------
(* A part that arrives                                                     *)

LEMMA InboxIsListlike ==
    ASSUME NEW nodes, ListOrNull(nodes) PROVE Len(InboxFromNodes(nodes)) \in Nat
<1> DEFINE s == Known(nodes)
           picked == {i \in DOMAIN s : s[i].repository # Nothing /\ s[i].updatedAt # Nothing}
<1>1. s \in Seq(ToSet(s))
  BY KnownIsListlike DEF IsList
<1>2. InboxFromNodes(nodes) = FlattenSeq([i \in DOMAIN s |-> IF i \in picked THEN << s[i] >> ELSE << >>])
  <2>1. \A i \in DOMAIN s : i \in picked <=> s[i].repository # Nothing /\ s[i].updatedAt # Nothing
    OBVIOUS
  <2> HIDE DEF picked, s
  <2>2. [i \in DOMAIN s |-> IF i \in picked THEN << s[i] >> ELSE << >>]
          = [i \in DOMAIN s |-> IF s[i].repository # Nothing /\ s[i].updatedAt # Nothing
                                THEN << s[i] >> ELSE << >>]
    BY <2>1
  <2>3. InboxFromNodes(nodes) = Those(s, LAMBDA n : n.repository # Nothing /\ n.updatedAt # Nothing)
    BY DEF InboxFromNodes, s
  <2> QED BY <2>2, <2>3 DEF Those
<1> HIDE DEF s, picked
<1>3. InboxFromNodes(nodes) \in Seq(ToSet(s))
  BY <1>1, <1>2, PickedIsList
<1> QED BY <1>3

InboxIn(s) == Parts(s, PageOf(s)).inbox

LEMMA InboxGrows ==
    ASSUME NEW s, NEW t, More(s, t)
    PROVE  Assemble(s, Now).totals.inbox_total <= Assemble(t, Now).totals.inbox_total
<1> DEFINE lens(u) == [i \in DOMAIN InboxIn(u) |-> Len(InboxIn(u)[i])]
           D == DOMAIN InboxNodes
<1>1. ASSUME NEW u
      PROVE  /\ Assemble(u, Now).totals.inbox_total = SumFunction(lens(u))
             /\ DOMAIN lens(u) = D
             /\ \A i \in D : lens(u)[i] = IF u.inbox THEN Len(InboxFromNodes(InboxNodes[i])) ELSE 0
  <2>1. Assemble(u, Now).totals = TotalsOf(ShownIn(u), InboxIn(u))
    BY AssembleIs DEF InboxIn
  <2>2. TotalsOf(ShownIn(u), InboxIn(u)).inbox_total = SumFunction(lens(u))
    <3> DEFINE inbox == InboxIn(u)
    <3>1. TotalsOf(ShownIn(u), inbox).inbox_total = SumFunction([i \in DOMAIN inbox |-> Len(inbox[i])])
      <4> HIDE DEF inbox
      <4> QED BY DEF TotalsOf, SumOf
    <3> QED BY <3>1
  <2>3. InboxIn(u) = [i \in D |-> IF u.inbox THEN InboxFromNodes(InboxNodes[i]) ELSE << >>]
    BY DEF InboxIn, Parts
  <2>4. Len(<< >>) = 0
    OBVIOUS
  <2>5. DOMAIN lens(u) = D /\ \A i \in D :
           lens(u)[i] = IF u.inbox THEN Len(InboxFromNodes(InboxNodes[i])) ELSE 0
    <3> HIDE DEF D
    <3> QED BY <2>3, <2>4
  <2> HIDE DEF lens
  <2> QED BY <2>1, <2>2, <2>5
<1>2. IsFiniteSet(D) /\ \A i \in D : Len(InboxFromNodes(InboxNodes[i])) \in Nat
  <2>1. Listlike(InboxNodes)
    BY InboxAssumption DEF IsList, Listlike
  <2> QED BY <2>1, InboxAssumption, InboxIsListlike, PlacesCount
<1> DEFINE a == lens(s)
           b == lens(t)
<1>3. /\ DOMAIN a = D /\ DOMAIN b = D
      /\ \A i \in D : a[i] = IF s.inbox THEN Len(InboxFromNodes(InboxNodes[i])) ELSE 0
      /\ \A i \in D : b[i] = IF t.inbox THEN Len(InboxFromNodes(InboxNodes[i])) ELSE 0
      /\ Assemble(s, Now).totals.inbox_total = SumFunction(a)
      /\ Assemble(t, Now).totals.inbox_total = SumFunction(b)
  BY <1>1
<1> HIDE DEF lens, a, b, D
<1>4. \A i \in D : a[i] \in Nat /\ b[i] \in Nat /\ a[i] <= b[i]
  <2> TAKE i \in D
  <2> DEFINE n == Len(InboxFromNodes(InboxNodes[i]))
  <2>1. n \in Nat /\ (s.inbox => t.inbox)
    BY <1>2 DEF More
  <2>2. a[i] = (IF s.inbox THEN n ELSE 0) /\ b[i] = (IF t.inbox THEN n ELSE 0)
    BY <1>3
  <2> HIDE DEF n
  <2> QED BY <2>1, <2>2
<1>5. Counts(a) /\ Counts(b)
  BY <1>2, <1>3, <1>4 DEF Counts
<1>6. SumFunction(a) <= SumFunction(b)
  BY <1>3, <1>4, <1>5, SumsCompare
<1> QED BY <1>3, <1>6

LEMMA MoreAddsMore ==
    ASSUME NEW s, Proper(s), NEW t, Proper(t), More(s, t),
           NEW key \in Attention \ {"repos_failing", "inbox_total"}
    PROVE  Assemble(s, Now).totals[key] <= Assemble(t, Now).totals[key]
<1> DEFINE f == [i \in DOMAIN ListedIn(s) |-> Figures(ListedIn(s)[i])[key]]
           g == [i \in DOMAIN ListedIn(t) |-> Figures(ListedIn(t)[i])[key]]
           D == DOMAIN ListedRepos
<1>1. key \in SummedKeys
  BY DEF Attention, SummedKeys
<1>2. ASSUME NEW u PROVE Assemble(u, Now).totals[key] = Added(ShownIn(u), key)
  <2>1. Assemble(u, Now).totals = TotalsOf(ShownIn(u), InboxIn(u))
    BY AssembleIs DEF InboxIn
  <2>2. TotalsOf(ShownIn(u), InboxIn(u))[key] = Added(ShownIn(u), key)
    BY <1>1, TotalsAreSums
  <2> QED BY <2>1, <2>2
<1>3. /\ Counts(f) /\ Counts(g)
      /\ Added(ShownIn(s), key) = SumFunction(f) /\ Added(ShownIn(t), key) = SumFunction(g)
  <2>1. Counts(f) /\ Added(ShownIn(s), key) = Added(ListedIn(s), key)
    BY <1>1, AddedIsPermuted
  <2>2. Counts(g) /\ Added(ShownIn(t), key) = Added(ListedIn(t), key)
    BY <1>1, AddedIsPermuted
  <2> QED BY <2>1, <2>2 DEF Added
<1>4. /\ DOMAIN f = D /\ DOMAIN g = D
      /\ \A i \in D : f[i] = Figures(Shown(s, ListedRepos[i]))[key]
      /\ \A i \in D : g[i] = Figures(Shown(t, ListedRepos[i]))[key]
  BY DEF ListedIn
<1> HIDE DEF f, g
<1>5. \A i \in D : f[i] <= g[i]
  <2> TAKE i \in D
  <2>1. ListedRepos[i] \in Names
    BY ListedAreNames
  <2> QED BY <1>4, <2>1, MoreOfOneAddsMore
<1> HIDE DEF D
<1>6. SumFunction(f) <= SumFunction(g)
  BY <1>3, <1>4, <1>5, SumsCompare
<1> QED BY <1>2, <1>3, <1>6

LEMMA FailuresStay ==
    ASSUME NEW s, Proper(s), NEW t, Proper(t), More(s, t)
    PROVE  /\ FailedRuns(ListedIn(s)) \subseteq FailedRuns(ListedIn(t))
           /\ ToSet(Assemble(s, Now).failures) \subseteq ToSet(Assemble(t, Now).failures)
           /\ Assemble(s, Now).totals.repos_failing <= Assemble(t, Now).totals.repos_failing
<1> DEFINE F(u) == FailedRuns(ListedIn(u))
           fails(u) == {name \in Names : Shown(u, name).ci.state = "failing"}
<1>1. ASSUME NEW name \in Names, NEW k \in FailedAt(s, name)
      PROVE  k \in FailedAt(t, name) /\ Shown(t, name).ci = Shown(s, name).ci
  <2>1. name \in Arrived(s, "runs")
    <3>1. k \in RunsTold(s, name)
      BY <1>1, FailedRunsAre
    <3> QED BY <3>1 DEF RunsTold
  <2>2. /\ Shown(s, name).ci = MarkLongRunning(CiOfRepo(s, name), Now)
        /\ Shown(t, name).ci = MarkLongRunning(CiOfRepo(t, name), Now)
    BY PartsAre
  <2>3. CiOfRepo(t, name) = CiOfRepo(s, name)
    BY <2>1 DEF More, CiOfRepo, Arrived, Archived
  <2>4. Shown(t, name).ci = Shown(s, name).ci
    BY <2>2, <2>3
  <2> QED BY <1>1, <2>4 DEF FailedAt
<1>2. F(s) \subseteq F(t)
  <2> SUFFICES ASSUME NEW x \in F(s) PROVE x \in F(t)
    OBVIOUS
  <2>1. PICK i \in DOMAIN ListedRepos : \E k \in FailedAt(s, ListedRepos[i]) : x = FailedRunAt(s, i, k)
    BY FailedRunsAre
  <2>2. PICK k \in FailedAt(s, ListedRepos[i]) : x = FailedRunAt(s, i, k)
    BY <2>1
  <2>3. ListedRepos[i] \in Names
    BY ListedAreNames
  <2>4. k \in FailedAt(t, ListedRepos[i]) /\ FailedRunAt(t, i, k) = FailedRunAt(s, i, k)
    BY <1>1, <2>2, <2>3 DEF FailedRunAt
  <2>5. FailedRunAt(t, i, k) \in F(t)
    BY <2>4, FailedRunsAre
  <2> QED BY <2>2, <2>4, <2>5
<1>3. ASSUME NEW u, Proper(u)
      PROVE  /\ ToSet(Assemble(u, Now).failures) = {[repo |-> x.repo, run |-> x.run] : x \in F(u)}
             /\ {x.repo : x \in F(u)} = fails(u)
  <2> DEFINE failures == NewestFirst(F(u))
  <2>1. Collected(F(u)) /\ {x.repo : x \in F(u)} = fails(u)
    BY <1>3, FailuresAre
  <2>2. {failures[i] : i \in DOMAIN failures} = {[repo |-> x.repo, run |-> x.run] : x \in F(u)}
    <3>1. \A failed : Collected(failed) =>
             LET fs == NewestFirst(failed)
             IN  {fs[i] : i \in DOMAIN fs} = {[repo |-> x.repo, run |-> x.run] : x \in failed}
      BY NewestFirstIs
    <3> HIDE DEF F
    <3> QED BY <2>1, <3>1
  <2>3. Assemble(u, Now).failures = failures
    BY AssembleIs
  <2> HIDE DEF failures, F, fails
  <2> QED BY <2>1, <2>2, <2>3 DEF ToSet
<1>4. ASSUME NEW u, Proper(u)
      PROVE  /\ Assemble(u, Now).totals.repos_failing = Cardinality(fails(u))
             /\ IsFiniteSet(fails(u))
  <2> DEFINE seen == FailingPlaces(ShownIn(u))
  <2>1. Assemble(u, Now).totals = TotalsOf(ShownIn(u), InboxIn(u))
    BY AssembleIs DEF InboxIn
  <2>2. TotalsOf(ShownIn(u), InboxIn(u)).repos_failing = Cardinality(seen)
    BY TotalsAreSums
  <2>3. Cardinality(seen) = Cardinality(fails(u)) /\ IsFiniteSet(fails(u))
    BY <1>4, FailingAreCounted
  <2> HIDE DEF seen, fails
  <2> QED BY <2>1, <2>2, <2>3
<1>5. ToSet(Assemble(s, Now).failures) \subseteq ToSet(Assemble(t, Now).failures)
  <2> HIDE DEF F, fails
  <2>1. /\ ToSet(Assemble(s, Now).failures) = {[repo |-> x.repo, run |-> x.run] : x \in F(s)}
        /\ ToSet(Assemble(t, Now).failures) = {[repo |-> x.repo, run |-> x.run] : x \in F(t)}
    BY <1>3
  <2> QED BY <1>2, <2>1
<1>6. Cardinality(fails(s)) <= Cardinality(fails(t))
  <2>1. fails(s) \subseteq fails(t)
    <3> HIDE DEF F, fails
    <3>1. {x.repo : x \in F(s)} = fails(s) /\ {x.repo : x \in F(t)} = fails(t)
      BY <1>3
    <3> QED BY <1>2, <3>1
  <2> HIDE DEF fails
  <2> QED BY <1>4, <2>1, FS_Subset
<1>7. Assemble(s, Now).totals.repos_failing <= Assemble(t, Now).totals.repos_failing
  <2> HIDE DEF fails
  <2> QED BY <1>4, <1>6
<1> QED BY <1>2, <1>5, <1>7

LEMMA ArrivalOnlyAdds ==
    ASSUME NEW s, Proper(s), NEW t, Proper(t), More(s, t)
    PROVE  OnlyAdds(Assemble(s, Now), Assemble(t, Now))
<1>1. \A key \in Attention : Assemble(s, Now).totals[key] <= Assemble(t, Now).totals[key]
  <2> TAKE key \in Attention
  <2>1. CASE key = "repos_failing"
    BY <2>1, FailuresStay
  <2>2. CASE key = "inbox_total"
    BY <2>2, InboxGrows
  <2>3. CASE key \notin {"repos_failing", "inbox_total"}
    BY <2>3, MoreAddsMore
  <2> QED BY <2>1, <2>2, <2>3
<1> QED BY <1>1, FailuresStay DEF OnlyAdds

-----------------------------------------------------------------------------
(* The machine                                                             *)

\* An overview's answers are what GitHub may say, and no runs come of an
\* archived repository.
OverviewInv ==
    /\ "kind" \in DOMAIN subject
    /\ Subject("overview") =>
         /\ subject = [kind |-> "overview", answer |-> subject.answer, arrived |-> subject.arrived,
                       checks |-> subject.checks, hygiene |-> subject.hygiene,
                       page |-> subject.page, inbox |-> subject.inbox]
         /\ Proper(subject)

LEMMA OverviewInit == RulesInit => OverviewInv
<1> SUFFICES ASSUME RulesInit PROVE OverviewInv
  OBVIOUS
<1> USE DEF OverviewInv, Subject
<1>1. CASE \E node \in PrNodes : subject = [kind |-> "pr", node |-> node]
  BY <1>1
<1>2. ASSUME NEW n \in 0 .. 3,
             subject \in [kind : {"runs"},
                          outcomes : [1 .. n -> UNION {Outcomes[bad] : bad \in DOMAIN Outcomes}]]
      PROVE  OverviewInv
  BY <1>2
<1>3. CASE \E node \in HygieneNodes : subject = [kind |-> "hygiene", node |-> node, lost |-> 0]
  BY <1>3
<1>4. CASE subject \in [kind : {"overview"}, answer : [Names -> RepoAnswers], arrived : {{}},
                        checks : BOOLEAN, hygiene : {FALSE}, page : {{}}, inbox : {FALSE}]
  <2>1. subject.answer \in [Names -> RepoAnswers] /\ subject.arrived = {} /\ subject.page = {}
    BY <1>4
  <2>2. Proper(subject)
    BY <2>1 DEF Proper, Arrived
  <2>3. subject = [kind |-> "overview", answer |-> subject.answer, arrived |-> subject.arrived,
                   checks |-> subject.checks, hygiene |-> subject.hygiene,
                   page |-> subject.page, inbox |-> subject.inbox]
    BY <1>4
  <2> QED BY <1>4, <2>2, <2>3
<1>5. ASSUME NEW type \in DOMAIN Docs, NEW nones \in SUBSET Docs[type].writes.maybe,
             subject = [kind |-> "document", type |-> type, written |-> Encode(type, nones),
                        doc |-> Encode(type, nones)]
      PROVE  OverviewInv
  BY <1>5
<1> QED BY <1>1, <1>2, <1>3, <1>4, <1>5 DEF RulesInit

\* What arrives is added to what was there.
LEMMA ArrivalIs ==
    ASSUME OverviewInv, Subject("overview"), RulesNext
    PROVE  OverviewInv' /\ Proper(subject') /\ More(subject, subject')
<1> DEFINE answer == subject.answer
           arrived == subject.arrived
           checks == subject.checks
           hygienic == subject.hygiene
           paged == subject.page
           inboxed == subject.inbox
           ArrivesOne == RunsArrive \/ SecurityArrives \/ ReleaseArrives
                            \/ HygieneArrives \/ UsageArrives \/ InboxArrives
<1>1. /\ subject = [kind |-> "overview", answer |-> answer, arrived |-> arrived, checks |-> checks,
                    hygiene |-> hygienic, page |-> paged, inbox |-> inboxed]
      /\ Proper(subject) /\ subject.kind = "overview"
  BY DEF OverviewInv, Subject
<1>2. "kind" \in DOMAIN subject' /\ subject'.kind = "overview" /\ ArrivesOne
  <2>1. ~ Subject("pr") /\ ~ Subject("runs") /\ ~ Subject("hygiene") /\ ~ Subject("document")
    BY <1>1 DEF Subject
  <2>2. ArrivesOne
    BY <2>1 DEF RulesNext, PrGetsWorse, RunGetsWorse, FactIsLost, ReadOlder, ReadNewer
  <2> HIDE DEF ArrivesOne
  <2> QED BY <1>1, <2>2, StepIs DEF OverviewInv
<1> HIDE DEF answer, arrived, checks, hygienic, paged, inboxed
<1>3. ASSUME NEW now, NEW hygiene, NEW page, NEW inbox,
             subject' = [kind |-> "overview", answer |-> answer, arrived |-> now, checks |-> checks,
                         hygiene |-> hygiene, page |-> page, inbox |-> inbox],
             arrived \subseteq now, paged \subseteq page, inboxed => inbox, page # {} => hygiene,
             \A name \in Names : <<"runs", name>> \in now \ arrived => ~ Archived(subject, name)
      PROVE  OverviewInv' /\ Proper(subject') /\ More(subject, subject')
  <2>1. /\ subject.answer = answer /\ subject.arrived = arrived /\ subject.checks = checks
        /\ subject.page = paged /\ subject.inbox = inboxed
        /\ subject'.answer = answer /\ subject'.arrived = now /\ subject'.checks = checks
        /\ subject'.hygiene = hygiene /\ subject'.page = page /\ subject'.inbox = inbox
    BY <1>3 DEF answer, arrived, checks, paged, inboxed
  <2>2. More(subject, subject')
    BY <1>3, <2>1 DEF More
  <2>3. Proper(subject')
    BY <1>1, <1>3, <2>1 DEF Proper, Arrived, Archived
  <2>4. Proper(subject)'
    BY <2>3 DEF Proper, Arrived, Archived
  <2> QED BY <1>2, <1>3, <2>1, <2>2, <2>3, <2>4 DEF OverviewInv
<1>4. ASSUME NEW part, NEW name, Arrives(part, name),
             part = "runs" => name \in Names /\ ~ Archived(subject, name)
      PROVE  OverviewInv' /\ Proper(subject') /\ More(subject, subject')
  <2> DEFINE now == arrived \cup {<<part, name>>}
  <2>1. subject' = [kind |-> "overview", answer |-> answer, arrived |-> now, checks |-> checks,
                    hygiene |-> hygienic, page |-> paged, inbox |-> inboxed]
    BY <1>1, <1>4 DEF Arrives
  <2>4. paged # {} => hygienic
    BY <1>1 DEF Proper
  <2>2. \A n \in Names : <<"runs", n>> \in now \ arrived => ~ Archived(subject, n)
    <3>1. \A n : <<"runs", n>> = <<part, name>> => n = name /\ part = "runs"
      OBVIOUS
    <3> QED BY <1>4, <3>1
  <2>3. arrived \subseteq now
    OBVIOUS
  <2> HIDE DEF now
  <2> QED BY <1>3, <2>1, <2>2, <2>3, <2>4
<1>5. CASE RunsArrive
  BY <1>4, <1>5 DEF RunsArrive
<1>6. CASE SecurityArrives
  <2>1. PICK name : Arrives("security", name)
    BY <1>6 DEF SecurityArrives
  <2> QED BY <1>4, <2>1
<1>7. CASE ReleaseArrives
  <2>1. PICK name : Arrives("release", name)
    BY <1>7 DEF ReleaseArrives
  <2> QED BY <1>4, <2>1
<1>8. CASE HygieneArrives
  <2>1. PICK page : subject' = [subject EXCEPT !.hygiene = TRUE, !.page = page]
    BY <1>8 DEF HygieneArrives
  <2>2. paged = {}
    BY <1>1, <1>8 DEF HygieneArrives, Proper
  <2>3. subject' = [kind |-> "overview", answer |-> answer, arrived |-> arrived, checks |-> checks,
                    hygiene |-> TRUE, page |-> page, inbox |-> inboxed]
    BY <1>1, <2>1
  <2> QED BY <1>3, <2>2, <2>3
<1>9. CASE UsageArrives
  <2>1. PICK name : Arrives("usage", name)
    BY <1>9 DEF UsageArrives
  <2> QED BY <1>4, <2>1
<1>10. CASE InboxArrives
  <2>1. subject' = [kind |-> "overview", answer |-> answer, arrived |-> arrived, checks |-> checks,
                    hygiene |-> hygienic, page |-> paged, inbox |-> TRUE]
    BY <1>1, <1>10 DEF InboxArrives
  <2>2. paged # {} => hygienic
    BY <1>1 DEF Proper
  <2> QED BY <1>3, <2>1, <2>2
<1> QED BY <1>2, <1>5, <1>6, <1>7, <1>8, <1>9, <1>10

LEMMA OverviewInvariance == RulesSpec => []OverviewInv
<1>1. OverviewInv /\ RulesNext => OverviewInv'
  <2> SUFFICES ASSUME OverviewInv, RulesNext PROVE OverviewInv'
    OBVIOUS
  <2>1. CASE Subject("overview")
    BY <2>1, ArrivalIs
  <2>2. CASE ~ Subject("overview")
    <3>1. "kind" \in DOMAIN subject' /\ subject'.kind = subject.kind
      BY StepIs DEF OverviewInv
    <3>2. CASE subject = Nothing
      <4>1. ~ RulesNext
        BY <3>2 DEF RulesNext, Subject, PrGetsWorse, RunGetsWorse, FactIsLost, RunsArrive,
                    SecurityArrives, ReleaseArrives, HygieneArrives, UsageArrives, InboxArrives,
                    ReadOlder, ReadNewer
      <4> QED BY <4>1
    <3>3. CASE subject.kind # "overview"
      BY <3>1, <3>3 DEF OverviewInv, Subject
    <3> QED BY <2>2, <3>2, <3>3 DEF Subject
  <2> QED BY <2>1, <2>2
<1>2. OverviewInv /\ UNCHANGED subject => OverviewInv'
  BY DEF OverviewInv, Subject, Proper, Arrived, Archived
<1>3. OverviewInv /\ [RulesNext]_subject => OverviewInv'
  BY <1>1, <1>2
<1> QED BY OverviewInit, <1>3, PTL DEF RulesSpec

\* Whatever repositories there are, whatever GitHub says of them and whichever
\* parts of it are in: totals, lists and the failed runs that were told of agree
\* (overview.py build_overview, use_cases.py _assemble).
THEOREM OverviewAgreesAlways == RulesSpec => []OverviewAgrees
<1>1. OverviewInv => OverviewAgrees
  BY OverviewDoesAgree DEF OverviewInv, OverviewAgrees
<1> QED BY <1>1, OverviewInvariance, PTL

\* No arrival takes away a failed run, or anything that wants attention, from what
\* was shown before it (overview.py build_overview, use_cases.py _load and the
\* snapshots it reports).
THEOREM ArrivalsOnlyAddAlways == RulesSpec => ArrivalsOnlyAdd
<1> DEFINE Adds == Subject("overview") => OnlyAdds(Assemble(subject, Now), Assemble(subject', Now))
<1>1. ASSUME OverviewInv, RulesNext
      PROVE  Adds
  <2> SUFFICES ASSUME Subject("overview")
               PROVE  OnlyAdds(Assemble(subject, Now), Assemble(subject', Now))
    OBVIOUS
  <2>1. Proper(subject') /\ More(subject, subject')
    BY <1>1, ArrivalIs
  <2>2. Proper(subject)
    BY <1>1 DEF OverviewInv
  <2> QED BY <2>1, <2>2, ArrivalOnlyAdds
<1>2. OverviewInv /\ [RulesNext]_subject => [Adds]_subject
  BY <1>1
<1> QED BY <1>2, OverviewInvariance, PTL DEF RulesSpec, ArrivalsOnlyAdd
=============================================================================
