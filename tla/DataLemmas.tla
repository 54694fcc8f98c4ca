----------------------------- MODULE DataLemmas -----------------------------
(***************************************************************************)
(* Facts about numbers, recursive functions, folds and sums, powers of     *)
(* two, ranks and ascending sequences, on which the proofs about several   *)
(* components rest.                                                        *)
(*                                                                         *)
(* The induction theorems of the library that take an operator cannot be   *)
(* used; Least is obtained from the one about well-founded relations, and  *)
(* induction is put as a fact about the set of the numbers that have the   *)
(* property.                                                               *)
(***************************************************************************)
EXTENDS Sorting, FiniteSetTheorems, FiniteSetsExt, SequencesExt, SequenceTheorems,
        WellFoundedInduction, NaturalsInduction, TLAPS

\* A set of natural numbers that is not empty has a least element.
LEMMA Least ==
  ASSUME NEW T \in SUBSET Nat, T # {}
  PROVE  \E x \in T : \A y \in T : x <= y
<1> DEFINE R == OpToRel(<, Nat)
<1>1. IsWellFoundedOn(R, Nat)
  BY NatLessThanWellFounded
<1>2. ASSUME NEW x \in Nat, NEW y \in Nat, x < y PROVE <<x, y>> \in R
  <2>1. R = {ss \in Nat \X Nat : ss[1] < ss[2]}
    BY Zenon DEF OpToRel
  <2> QED BY <1>2, <2>1
<1> HIDE DEF R
<1>3. \E x \in T : \A y \in T : ~ (<<y, x>> \in R)
  BY <1>1, WFMin
<1>4. PICK x \in T : \A y \in T : ~ (<<y, x>> \in R)
  BY <1>3
<1>5. ASSUME NEW y \in T PROVE x <= y
  <2>1. ~(y < x)
    BY <1>2, <1>4
  <2> QED
    BY <2>1
<1> QED
  BY <1>5

\* Induction, for a set instead of a predicate.
LEMMA Inductive ==
  ASSUME NEW T, 0 \in T, \A m \in Nat : m \in T => m + 1 \in T
  PROVE  Nat \subseteq T
<1> SUFFICES ASSUME Nat \ T # {} PROVE FALSE
  OBVIOUS
<1>1. PICK x \in Nat \ T : \A y \in Nat \ T : x <= y
  BY Least
<1>2. x # 0 /\ x - 1 \in Nat /\ x - 1 \in T
  BY <1>1
<1> QED
  BY <1>1, <1>2

Follows(f, c, d) == f[0] = c /\ \A m \in Nat : f[m + 1] = d[<<m, f[m]>>]

\* There is a function defined by recursion on the numbers, for every step
\* that is a function.
LEMMA Recursion ==
  ASSUME NEW V, NEW c \in V, NEW d \in [Nat \X V -> V]
  PROVE  \E f \in [Nat -> V] : Follows(f, c, d)
<1> DEFINE Upto(m, f) == /\ f \in [0 .. m -> V] /\ f[0] = c
                         /\ \A k \in 0 .. m - 1 : f[k + 1] = d[<<k, f[k]>>]
           T == {m \in Nat : \E f \in [0 .. m -> V] : Upto(m, f)}
<1>1. Nat \subseteq T
  <2>1. 0 \in T
    <3>1. Upto(0, [i \in 0 .. 0 |-> c])
      OBVIOUS
    <3> QED BY <3>1
  <2>2. ASSUME NEW m \in Nat, m \in T PROVE m + 1 \in T
    <3>1. PICK f \in [0 .. m -> V] : Upto(m, f)
      BY <2>2
    <3> DEFINE g == [i \in 0 .. m + 1 |-> IF i <= m THEN f[i] ELSE d[<<m, f[m]>>]]
    <3>2. f[m] \in V /\ d[<<m, f[m]>>] \in V
      <4>1. f[m] \in V
        BY <3>1
      <4>2. <<m, f[m]>> \in Nat \X V
        BY <4>1
      <4> QED BY <4>1, <4>2
    <3>3. g \in [0 .. m + 1 -> V] /\ g[0] = c
      BY <3>1, <3>2
    <3>4. ASSUME NEW k \in 0 .. m + 1 - 1 PROVE g[k + 1] = d[<<k, g[k]>>]
      <4>1. CASE k = m
        BY <4>1
      <4>2. CASE k # m
        <5>1. k \in 0 .. m - 1 /\ k <= m /\ k + 1 <= m /\ k \in 0 .. m + 1 /\ k + 1 \in 0 .. m + 1
          BY <4>2
        <5>2. g[k] = f[k] /\ g[k + 1] = f[k + 1]
          BY <5>1
        <5>3. f[k + 1] = d[<<k, f[k]>>]
          BY <3>1, <5>1
        <5> QED BY <5>2, <5>3
      <4> QED BY <4>1, <4>2
    <3> HIDE DEF g
    <3>5. Upto(m + 1, g)
      BY <3>3, <3>4
    <3> QED BY <3>3, <3>5
  <2> HIDE DEF T
  <2> QED BY <2>1, <2>2, Inductive
<1>2. ASSUME NEW m \in Nat, NEW k \in Nat, NEW f, NEW g, k <= m, Upto(m, f), Upto(k, g)
      PROVE  \A i \in 0 .. k : f[i] = g[i]
  <2> DEFINE E == {i \in Nat : i <= k => f[i] = g[i]}
  <2>1. 0 \in E
    BY <1>2
  <2>2. ASSUME NEW i \in Nat, i \in E PROVE i + 1 \in E
    <3>1. CASE i + 1 <= k
      <4>1. i <= k /\ i <= m /\ i + 1 <= m /\ i \in 0 .. k - 1 /\ i \in 0 .. m - 1
        BY <1>2, <3>1
      <4>2. f[i] = g[i]
        BY <2>2, <4>1
      <4>3. f[i + 1] = d[<<i, f[i]>>] /\ g[i + 1] = d[<<i, g[i]>>]
        BY <1>2, <4>1
      <4> QED BY <4>2, <4>3
    <3>2. CASE ~(i + 1 <= k)
      BY <3>2
    <3> QED BY <3>1, <3>2
  <2> HIDE DEF E
  <2>3. Nat \subseteq E
    BY <2>1, <2>2, Inductive
  <2> QED BY <2>3 DEF E
<1> DEFINE F(m) == CHOOSE f \in [0 .. m -> V] : Upto(m, f)
           h == [m \in Nat |-> F(m)[m]]
<1>3. \A m \in Nat : Upto(m, F(m)) /\ F(m) \in [0 .. m -> V]
  BY <1>1
<1>4. h \in [Nat -> V]
  <2> HIDE DEF F
  <2>1. \A m \in Nat : F(m)[m] \in V
    BY <1>3
  <2> QED BY <2>1
<1>5. h[0] = c
  BY <1>3
<1>6. ASSUME NEW m \in Nat PROVE h[m + 1] = d[<<m, h[m]>>]
  <2>1. Upto(m + 1, F(m + 1)) /\ Upto(m, F(m))
    <3> HIDE DEF F, Upto
    <3> QED BY <1>3
  <2>2. F(m + 1)[m] = F(m)[m]
    <3>1. m + 1 \in Nat /\ m <= m + 1 /\ m \in 0 .. m
      OBVIOUS
    <3> HIDE DEF F, Upto
    <3>2. \A i \in 0 .. m : F(m + 1)[i] = F(m)[i]
      BY <1>2, <2>1, <3>1
    <3> QED BY <3>1, <3>2
  <2>3. F(m + 1)[m + 1] = d[<<m, F(m + 1)[m]>>]
    <3> HIDE DEF F
    <3> QED BY <2>1
  <2> HIDE DEF F, Upto
  <2> QED BY <2>2, <2>3
<1> QED
  BY <1>4, <1>5, <1>6 DEF Follows

\* Min of FiniteSetsExt gives it.
LEMMA MinOfNats ==
  ASSUME NEW T \in SUBSET Nat, T # {}
  PROVE  Min(T) \in T /\ \A y \in T : Min(T) <= y
<1>1. \E x \in T : \A y \in T : x <= y
  BY Least
<1>2. Min(T) = CHOOSE x \in T : \A y \in T : x <= y
  BY DEF Min
<1> QED
  BY <1>1, <1>2

LEMMA MinOfTwo == ASSUME NEW a \in Int, NEW b \in Int
                  PROVE  Min({a, b}) = IF a <= b THEN a ELSE b
<1> DEFINE P(x) == x \in {a, b} /\ \A y \in {a, b} : x <= y
           m == IF a <= b THEN a ELSE b
<1>1. P(m) /\ \A x : P(x) => x = m
  OBVIOUS
<1>2. Min({a, b}) = CHOOSE x \in {a, b} : \A y \in {a, b} : x <= y
  BY DEF Min
<1> QED
  BY <1>1, <1>2

\* Division with a rest.
LEMMA Division ==
  ASSUME NEW x \in Nat, NEW d \in Nat \ {0}
  PROVE  /\ x \div d \in Nat /\ x % d \in 0 .. d - 1
         /\ d * (x \div d) \in Nat
         /\ x = d * (x \div d) + (x % d)
         /\ d * (x \div d) <= x /\ x < d * (x \div d) + d
<1>1. x \div d \in Nat /\ x % d \in 0 .. d - 1 /\ x = d * (x \div d) + (x % d)
  BY SMT
<1>2. d * (x \div d) = x - (x % d)
  BY <1>1
<1> QED
  BY <1>1, <1>2

\* Quotient and rest are unique, and the quotient grows with the number.
LEMMA DivUnique ==
  ASSUME NEW d \in Nat \ {0}, NEW q \in Nat, NEW r \in 0 .. d - 1
  PROVE  (d * q + r) \div d = q /\ (d * q + r) % d = r
  BY SMT

LEMMA DivMono ==
  ASSUME NEW x \in Nat, NEW y \in Nat, x <= y, NEW d \in Nat \ {0}
  PROVE  x \div d <= y \div d
  BY SMT

LEMMA MulMono ==
  ASSUME NEW x \in Nat, NEW y \in Nat, x <= y, NEW d \in Nat
  PROVE  d * x <= d * y
  BY SMT

\* Products the provers do not see through by themselves.
LEMMA Products ==
  ASSUME NEW a \in Nat, NEW b \in Nat, NEW c \in Nat
  PROVE  a * b \in Nat /\ (a * b) * c = (a * c) * b /\ a * b = b * a
  BY SMT

LEMMA Distributes ==
  ASSUME NEW a \in Nat, NEW b \in Nat, NEW c \in Nat, NEW d \in Nat
  PROVE  (a + b + c) * d = a * d + b * d + c * d
  BY SMT

LEMMA LessOne == ASSUME NEW n \in Nat, NEW d \in Nat PROVE (n - 1) * d = n * d - d
<1>1. CASE n = 0
  <2>1. n * d = 0 /\ n - 1 = -1
    BY <1>1
  <2> QED BY <2>1, SMT
<1>2. CASE n # 0
  <2> DEFINE m == n - 1
  <2>1. m \in Nat /\ n = m + 1 + 0
    BY <1>2
  <2> HIDE DEF m
  <2>2. (m + 1 + 0) * d = m * d + 1 * d + 0 * d /\ m * d \in Nat
    BY <2>1, Distributes, Products
  <2> DEFINE M == m * d
  <2>3. M \in Nat /\ n * d = M + d
    BY <2>1, <2>2
  <2> HIDE DEF M
  <2>4. n * d - d = M
    BY <2>3
  <2> QED BY <2>4 DEF M, m
<1> QED BY <1>1, <1>2

-----------------------------------------------------------------------------
(* Folds over finite sets                                                  *)

IsFold(g, S, c, d, pick) ==
  \A s \in SUBSET S : g[s] = IF s = {} THEN c ELSE d[<<pick[s], g[s \ {pick[s]}]>>]

IsSum(g, f, S) ==
  /\ g[{}] = 0
  /\ \A s \in SUBSET S : s # {} => \E x \in s : g[s] = f[x] + g[s \ {x}]

SumOver(f, S) == MapThenSumSet(LAMBDA x : f[x], S)

\* A fold that takes the elements of a set in the order pick gives them.
LEMMA FoldExists ==
  ASSUME NEW S, IsFiniteSet(S), NEW V, NEW c \in V, NEW d \in [S \X V -> V], NEW pick,
         \A s \in SUBSET S : s # {} => pick[s] \in s
  PROVE  \E g \in [SUBSET S -> V] : IsFold(g, S, c, d, pick)
<1> DEFINE Upto(m, g) ==
             \A s \in SUBSET S : Cardinality(s) <= m =>
               g[s] = IF s = {} THEN c ELSE d[<<pick[s], g[s \ {pick[s]}]>>]
           T == {m \in Nat : \E g \in [SUBSET S -> V] : Upto(m, g)}
<1>1. ASSUME NEW s \in SUBSET S
      PROVE  /\ IsFiniteSet(s) /\ Cardinality(s) \in Nat /\ Cardinality(s) <= Cardinality(S)
             /\ Cardinality(s) = 0 <=> s = {}
             /\ s # {} => /\ pick[s] \in S /\ s \ {pick[s]} \in SUBSET S
                          /\ Cardinality(s \ {pick[s]}) = Cardinality(s) - 1
  BY FS_Subset, FS_CardinalityType, FS_EmptySet, FS_RemoveElement
<1>2. 0 \in T
  <2> DEFINE g == [s \in SUBSET S |-> c]
  <2>1. g \in [SUBSET S -> V] /\ \A s \in SUBSET S : g[s] = c
    OBVIOUS
  <2>2. ASSUME NEW s \in SUBSET S, Cardinality(s) <= 0 PROVE s = {}
    <3>1. Cardinality(s) \in Nat /\ (Cardinality(s) = 0 => s = {})
      BY <1>1
    <3> QED BY <2>2, <3>1
  <2> HIDE DEF g
  <2>3. Upto(0, g)
    BY <2>1, <2>2
  <2> QED BY <2>1, <2>3
<1>3. ASSUME NEW m \in Nat, m \in T PROVE m + 1 \in T
  <2>1. PICK g \in [SUBSET S -> V] : Upto(m, g)
    BY <1>3
  <2> DEFINE h == [s \in SUBSET S |-> IF Cardinality(s) <= m \/ s = {} THEN g[s]
                                      ELSE d[<<pick[s], g[s \ {pick[s]}]>>]]
  <2>2. ASSUME NEW s \in SUBSET S, s # {}
        PROVE  d[<<pick[s], g[s \ {pick[s]}]>>] \in V
    <3>1. <<pick[s], g[s \ {pick[s]}]>> \in S \X V
      BY <1>1, <2>2
    <3> QED BY <3>1
  <2>3. h \in [SUBSET S -> V]
    BY <2>2
  <2>4. ASSUME NEW s \in SUBSET S, Cardinality(s) <= m + 1
        PROVE  h[s] = IF s = {} THEN c ELSE d[<<pick[s], h[s \ {pick[s]}]>>]
    <3>1. CASE s = {}
      <4>1. Cardinality(s) = 0 /\ Cardinality(s) <= m
        <5>1. Cardinality(s) = 0
          BY <3>1, FS_EmptySet
        <5> QED BY <5>1
      <4>2. g[s] = c
        BY <2>1, <3>1, <4>1
      <4> QED BY <3>1, <4>2
    <3>2. CASE s # {}
      <4> DEFINE r == s \ {pick[s]}
      <4>1. r \in SUBSET S /\ Cardinality(r) <= m
        <5>1. /\ Cardinality(s) \in Nat /\ r \in SUBSET S
              /\ Cardinality(r) = Cardinality(s) - 1
          BY <1>1, <3>2
        <5> HIDE DEF r
        <5> QED BY <2>4, <5>1
      <4>2. h[r] = g[r]
        BY <4>1
      <4>3. h[s] = d[<<pick[s], g[r]>>]
        <5>1. CASE Cardinality(s) <= m
          BY <2>1, <3>2, <5>1
        <5>2. CASE ~(Cardinality(s) <= m)
          BY <3>2, <5>2
        <5> QED BY <5>1, <5>2
      <4> QED BY <3>2, <4>2, <4>3
    <3> QED BY <3>1, <3>2
  <2> HIDE DEF h
  <2>5. Upto(m + 1, h)
    BY <2>4
  <2> HIDE DEF Upto
  <2> QED BY <2>3, <2>5
<1> HIDE DEF T
<1>4. Cardinality(S) \in T
  <2>1. Nat \subseteq T
    BY <1>2, <1>3, Inductive
  <2> QED BY <2>1, FS_CardinalityType
<1>5. PICK g \in [SUBSET S -> V] : Upto(Cardinality(S), g)
  BY <1>4 DEF T
<1> QED
  BY <1>1, <1>5 DEF IsFold

\* What is known of a sum over a finite set.
LEMMA SumUnfolds ==
  ASSUME NEW S, IsFiniteSet(S), NEW f, \A x \in S : f[x] \in Nat
  PROVE  \E g : IsSum(g, f, S) /\ SumOver(f, S) = g[S]
<1> DEFINE pick == [s \in SUBSET S |-> CHOOSE x \in s : TRUE]
           d == [p \in S \X Nat |-> f[p[1]] + p[2]]
           Eq(g) == g = [s \in SUBSET S |->
                           IF s = {} THEN 0
                           ELSE f[CHOOSE x \in s : TRUE] + g[s \ {CHOOSE x \in s : TRUE}]]
<1>1. SumOver(f, S) = (CHOOSE g : Eq(g))[S]
  BY DEF SumOver, MapThenSumSet, MapThenFoldSet
<1>2. \A s \in SUBSET S : s # {} => (CHOOSE x \in s : TRUE) \in s
  OBVIOUS
<1>3. \E g : Eq(g)
  <2>1. d \in [S \X Nat -> Nat]
    OBVIOUS
  <2>2. \A s \in SUBSET S : pick[s] = CHOOSE x \in s : TRUE
    OBVIOUS
  <2>3. \A s \in SUBSET S : s # {} => pick[s] \in s
    BY <1>2, <2>2
  <2> HIDE DEF d, pick
  <2>4. PICK g \in [SUBSET S -> Nat] : IsFold(g, S, 0, d, pick)
    BY <2>1, <2>3, FoldExists
  <2>5. ASSUME NEW s \in SUBSET S, s # {}
        PROVE  g[s] = f[CHOOSE x \in s : TRUE] + g[s \ {CHOOSE x \in s : TRUE}]
    <3> DEFINE x == CHOOSE x \in s : TRUE
    <3>1. x \in s /\ pick[s] = x
      BY <1>2, <2>2, <2>5
    <3> HIDE DEF x
    <3>2. s \ {x} \in SUBSET S
      OBVIOUS
    <3>3. <<x, g[s \ {x}]>> \in S \X Nat
      BY <3>1, <3>2
    <3>4. d[<<x, g[s \ {x}]>>] = f[x] + g[s \ {x}]
      BY <3>3 DEF d
    <3>5. g[s] = f[x] + g[s \ {x}]
      BY <2>4, <2>5, <3>1, <3>4 DEF IsFold
    <3> QED BY <3>5 DEF x
  <2>6. Eq(g)
    BY <2>4, <2>5 DEF IsFold
  <2> QED BY <2>6
<1>4. PICK g : Eq(g) /\ SumOver(f, S) = g[S]
  <2> HIDE DEF Eq
  <2>1. Eq(CHOOSE g : Eq(g))
    BY <1>3
  <2> QED BY <1>1, <2>1
<1>5. g[{}] = 0
  BY <1>4
<1>6. ASSUME NEW s \in SUBSET S, s # {} PROVE \E x \in s : g[s] = f[x] + g[s \ {x}]
  BY <1>2, <1>4, <1>6
<1> QED
  BY <1>4, <1>5, <1>6 DEF IsSum

IsCount(f, t, D, S) == \A x \in S : f[x] = Cardinality({j \in D : t[j] = x})

\* The sum of the numbers of times the elements of S occur.
LEMMA SumOfCounts ==
  ASSUME NEW S, IsFiniteSet(S), NEW D, IsFiniteSet(D), NEW t, NEW f, IsCount(f, t, D, S)
  PROVE  SumOver(f, S) = Cardinality({j \in D : t[j] \in S})
<1> DEFINE C(s) == {j \in D : t[j] \in s}
<1>1. \A s : IsFiniteSet(C(s)) /\ Cardinality(C(s)) \in Nat
  BY FS_Subset, FS_CardinalityType
<1>2. \A x \in S : f[x] \in Nat /\ f[x] = Cardinality(C({x}))
  <2>1. \A x : {j \in D : t[j] = x} = C({x})
    OBVIOUS
  <2>2. ASSUME NEW x \in S PROVE f[x] \in Nat /\ f[x] = Cardinality(C({x}))
    <3>1. f[x] = Cardinality({j \in D : t[j] = x}) /\ {j \in D : t[j] = x} = C({x})
      BY <2>1 DEF IsCount
    <3> HIDE DEF C
    <3> QED BY <1>1, <3>1
  <2> QED BY <2>2
<1> HIDE DEF C
<1>3. PICK g : IsSum(g, f, S) /\ SumOver(f, S) = g[S]
  <2>1. \A x \in S : f[x] \in Nat
    BY <1>2
  <2> QED BY <2>1, SumUnfolds
<1> DEFINE T == {m \in Nat : \A s \in SUBSET S : Cardinality(s) = m => g[s] = Cardinality(C(s))}
<1>4. 0 \in T
  <2>1. ASSUME NEW s \in SUBSET S, Cardinality(s) = 0 PROVE g[s] = Cardinality(C(s))
    <3>1. s = {} /\ C({}) = {}
      BY <2>1, FS_EmptySet, FS_Subset DEF C
    <3> QED BY <1>3, <3>1, FS_EmptySet DEF IsSum
  <2> QED BY <2>1
<1>5. ASSUME NEW m \in Nat, m \in T PROVE m + 1 \in T
  <2> SUFFICES ASSUME NEW s \in SUBSET S, Cardinality(s) = m + 1
               PROVE  g[s] = Cardinality(C(s))
    OBVIOUS
  <2>1. IsFiniteSet(s) /\ s # {}
    BY FS_Subset, FS_EmptySet
  <2>2. PICK x \in s : g[s] = f[x] + g[s \ {x}]
    BY <1>3, <2>1 DEF IsSum
  <2>3. Cardinality(s \ {x}) = m /\ s \ {x} \in SUBSET S
    <3>1. Cardinality(s \ {x}) = Cardinality(s) - 1
      BY <2>1, FS_RemoveElement
    <3> QED BY <3>1
  <2>4. g[s \ {x}] = Cardinality(C(s \ {x}))
    BY <1>5, <2>3
  <2>5. C(s) = C({x}) \cup C(s \ {x}) /\ C({x}) \cap C(s \ {x}) = {}
    BY DEF C
  <2>6. Cardinality(C(s)) = Cardinality(C({x})) + Cardinality(C(s \ {x})) - Cardinality({})
    <3>1. IsFiniteSet(C({x})) /\ IsFiniteSet(C(s \ {x}))
      BY <1>1
    <3>2. Cardinality(C({x}) \cup C(s \ {x}))
            = Cardinality(C({x})) + Cardinality(C(s \ {x})) - Cardinality(C({x}) \cap C(s \ {x}))
      BY <3>1, FS_Union, Zenon
    <3> QED BY <2>5, <3>2, Zenon
  <2>7. Cardinality({}) = 0
    BY FS_EmptySet
  <2> QED BY <1>1, <1>2, <2>2, <2>4, <2>6, <2>7
<1> HIDE DEF T
<1>6. Cardinality(S) \in T
  BY <1>4, <1>5, Inductive, FS_CardinalityType
<1>7. g[S] = Cardinality(C(S))
  BY <1>6 DEF T
<1> QED
  BY <1>3, <1>7 DEF C

\* g adds the elements of any set up, whichever is taken first.
SumsUp(g, f, S) == \A s \in SUBSET S : g[s] \in Nat /\ \A x \in s : g[s] = f[x] + g[s \ {x}]

\* The order in which a sum takes its elements does not matter.
LEMMA SumAnyOrder ==
  ASSUME NEW S, IsFiniteSet(S), NEW f, \A x \in S : f[x] \in Nat, NEW g, IsSum(g, f, S)
  PROVE  SumsUp(g, f, S)
<1> DEFINE P(s) == g[s] \in Nat /\ \A x \in s : g[s] = f[x] + g[s \ {x}]
           T == {m \in Nat : \A s \in SUBSET S : Cardinality(s) <= m => P(s)}
<1>1. ASSUME NEW s \in SUBSET S
      PROVE  /\ IsFiniteSet(s) /\ Cardinality(s) \in Nat /\ (Cardinality(s) = 0 => s = {})
             /\ \A x \in s : s \ {x} \in SUBSET S /\ Cardinality(s \ {x}) = Cardinality(s) - 1
  BY FS_Subset, FS_CardinalityType, FS_EmptySet, FS_RemoveElement
<1>2. P({})
  BY DEF IsSum
<1>3. 0 \in T
  <2> SUFFICES ASSUME NEW s \in SUBSET S, Cardinality(s) <= 0 PROVE s = {}
    BY <1>2
  <2> QED
    BY <1>1
<1>4. ASSUME NEW m \in Nat, m \in T PROVE m + 1 \in T
  <2> HIDE DEF P
  <2> SUFFICES ASSUME NEW s \in SUBSET S, Cardinality(s) <= m + 1, s # {} PROVE P(s)
    BY <1>2
  <2> USE DEF P
  <2>1. PICK y \in s : g[s] = f[y] + g[s \ {y}]
    BY DEF IsSum
  <2>2. \A x \in s : s \ {x} \in SUBSET S /\ P(s \ {x})
    <3> SUFFICES ASSUME NEW x \in s PROVE s \ {x} \in SUBSET S /\ P(s \ {x})
      OBVIOUS
    <3>1. s \ {x} \in SUBSET S /\ Cardinality(s \ {x}) <= m
      BY <1>1
    <3> QED BY <1>4, <3>1
  <2>3. ASSUME NEW x \in s, x # y PROVE g[s] = f[x] + g[s \ {x}]
    <3> DEFINE r == (s \ {y}) \ {x}
    <3>1. (s \ {x}) \ {y} = r /\ x \in s \ {y} /\ y \in s \ {x} /\ r \in SUBSET S
      BY <2>3
    <3>2. g[s \ {y}] = f[x] + g[r]
      BY <2>2, <3>1
    <3>3. g[s \ {x}] = f[y] + g[r]
      BY <2>2, <3>1
    <3>4. g[r] \in Nat /\ f[x] \in Nat /\ f[y] \in Nat
      <4>1. Cardinality(s \ {y}) <= m /\ Cardinality(r) <= m
        <5>1. Cardinality(s) \in Nat /\ Cardinality(s \ {y}) = Cardinality(s) - 1
          BY <1>1
        <5>2. s \ {y} \in SUBSET S /\ Cardinality(r) = Cardinality(s \ {y}) - 1
          BY <1>1, <3>1
        <5> QED BY <5>1, <5>2
      <4> QED BY <1>4, <3>1, <4>1
    <3> HIDE DEF r
    <3> QED BY <2>1, <3>2, <3>3, <3>4
  <2>4. g[s] \in Nat
    <3>1. f[y] \in Nat /\ g[s \ {y}] \in Nat
      BY <2>2
    <3> QED BY <2>1, <3>1
  <2> QED BY <2>1, <2>3, <2>4
<1> HIDE DEF P
<1>5. Nat \subseteq T
  <2> HIDE DEF T
  <2> QED BY <1>3, <1>4, Inductive
<1>6. Cardinality(S) \in Nat /\ \A s \in SUBSET S : Cardinality(s) <= Cardinality(S)
  BY FS_CardinalityType, FS_Subset
<1>7. \A s \in SUBSET S : P(s)
  BY <1>5, <1>6
<1> QED
  BY <1>7 DEF P, SumsUp

\* The sum of k times the numbers is k times their sum.
LEMMA SumOfSame ==
  ASSUME NEW S, IsFiniteSet(S), NEW f, NEW h, \A x \in S : f[x] \in Nat /\ h[x] \in Nat,
         NEW k \in Nat, \A x \in S : h[x] = f[x] * k,
         NEW g, IsSum(g, f, S), NEW e, IsSum(e, h, S)
  PROVE  \A s \in SUBSET S : e[s] = g[s] * k
<1> DEFINE Q(s) == e[s] = g[s] * k
           T == {m \in Nat : \A s \in SUBSET S : Cardinality(s) <= m => Q(s)}
<1>1. ASSUME NEW s \in SUBSET S
      PROVE  /\ IsFiniteSet(s) /\ Cardinality(s) \in Nat /\ (Cardinality(s) = 0 => s = {})
             /\ \A x \in s : s \ {x} \in SUBSET S /\ Cardinality(s \ {x}) = Cardinality(s) - 1
  BY FS_Subset, FS_CardinalityType, FS_EmptySet, FS_RemoveElement
<1>2. Q({})
  BY DEF IsSum
<1>3. 0 \in T
  <2> SUFFICES ASSUME NEW s \in SUBSET S, Cardinality(s) <= 0 PROVE s = {}
    BY <1>2
  <2> QED
    BY <1>1
<1>4. ASSUME NEW m \in Nat, m \in T PROVE m + 1 \in T
  <2> HIDE DEF Q
  <2> SUFFICES ASSUME NEW s \in SUBSET S, Cardinality(s) <= m + 1, s # {} PROVE Q(s)
    BY <1>2
  <2> USE DEF Q
  <2>1. PICK x \in s : g[s] = f[x] + g[s \ {x}]
    BY DEF IsSum
  <2>2. s \ {x} \in SUBSET S /\ e[s \ {x}] = g[s \ {x}] * k
    <3>1. s \ {x} \in SUBSET S /\ Cardinality(s \ {x}) <= m
      BY <1>1
    <3> QED BY <1>4, <3>1
  <2>3. e[s] = h[x] + e[s \ {x}]
    BY SumAnyOrder DEF SumsUp
  <2>4. g[s \ {x}] \in Nat /\ f[x] \in Nat /\ h[x] = f[x] * k
    BY <2>2, SumAnyOrder DEF SumsUp
  <2>5. (f[x] + g[s \ {x}] + 0) * k = f[x] * k + g[s \ {x}] * k + 0 * k
    BY <2>4, Distributes
  <2>6. f[x] * k \in Nat /\ g[s \ {x}] * k \in Nat
    BY <2>4, Products
  <2> QED
    BY <2>1, <2>2, <2>3, <2>4, <2>5, <2>6
<1>5. Nat \subseteq T
  <2> HIDE DEF T
  <2> QED BY <1>3, <1>4, Inductive
<1>6. Cardinality(S) \in Nat /\ \A s \in SUBSET S : Cardinality(s) <= Cardinality(S)
  BY FS_CardinalityType, FS_Subset
<1> QED
  BY <1>5, <1>6

\* A sum over a finite set, by what is known of it.
LEMMA SumRemoves ==
  ASSUME NEW S, IsFiniteSet(S), NEW f, \A x \in S : f[x] \in Nat
  PROVE  /\ SumOver(f, S) \in Nat /\ SumOver(f, {}) = 0
         /\ \A x \in S : SumOver(f, S) = f[x] + SumOver(f, S \ {x})
<1>1. \A s \in SUBSET S : IsFiniteSet(s) /\ \A x \in s : f[x] \in Nat
  BY FS_Subset
<1>2. PICK g : IsSum(g, f, S) /\ SumOver(f, S) = g[S]
  BY SumUnfolds
<1>3. \A s \in SUBSET S : g[s] \in Nat /\ \A x \in s : g[s] = f[x] + g[s \ {x}]
  <2>1. SumsUp(g, f, S)
    BY <1>2, SumAnyOrder
  <2> QED BY <2>1 DEF SumsUp
<1>4. ASSUME NEW s \in SUBSET S PROVE SumOver(f, s) = g[s]
  <2>1. PICK e : IsSum(e, f, s) /\ SumOver(f, s) = e[s]
    BY <1>1, SumUnfolds
  <2>2. IsSum(g, f, s)
    BY <1>2 DEF IsSum
  <2>3. \A x \in s : f[x] \in Nat /\ f[x] = f[x] * 1
    BY <1>1
  <2>4. e[s] = g[s] * 1
    <3>1. 1 \in Nat /\ IsFiniteSet(s)
      BY <1>1
    <3> QED BY <2>1, <2>2, <2>3, <3>1, SumOfSame
  <2> QED BY <1>3, <2>1, <2>4
<1>5. \A s \in SUBSET S : SumOver(f, s) = g[s]
  BY <1>4
<1>6. g[{}] = 0
  BY <1>2 DEF IsSum
<1> QED
  BY <1>3, <1>5, <1>6

\* The same of two sums over a finite set.
LEMMA SumScales ==
  ASSUME NEW S, IsFiniteSet(S), NEW f, NEW h, \A x \in S : f[x] \in Nat /\ h[x] \in Nat,
         NEW k \in Nat, \A x \in S : h[x] = f[x] * k
  PROVE  SumOver(h, S) = SumOver(f, S) * k
<1>1. PICK g : IsSum(g, f, S) /\ SumOver(f, S) = g[S]
  BY SumUnfolds
<1>2. PICK e : IsSum(e, h, S) /\ SumOver(h, S) = e[S]
  BY SumUnfolds
<1> QED
  BY <1>1, <1>2, SumOfSame

\* Fewer numbers have a smaller sum.
LEMMA SumGrows ==
  ASSUME NEW S, IsFiniteSet(S), NEW f, \A x \in S : f[x] \in Nat, NEW A \in SUBSET S
  PROVE  SumOver(f, A) <= SumOver(f, S)
<1> DEFINE Q(s) == A \subseteq s => SumOver(f, A) <= SumOver(f, s)
           T == {m \in Nat : \A s \in SUBSET S : Cardinality(s) <= m => Q(s)}
<1>1. ASSUME NEW s \in SUBSET S
      PROVE  /\ IsFiniteSet(s) /\ Cardinality(s) \in Nat /\ (Cardinality(s) = 0 => s = {})
             /\ \A x \in s : s \ {x} \in SUBSET S /\ Cardinality(s \ {x}) = Cardinality(s) - 1
  BY FS_Subset, FS_CardinalityType, FS_EmptySet, FS_RemoveElement
<1>2. ASSUME NEW s \in SUBSET S
      PROVE  /\ SumOver(f, s) \in Nat
             /\ \A x \in s : f[x] \in Nat /\ SumOver(f, s) = f[x] + SumOver(f, s \ {x})
  <2>1. IsFiniteSet(s) /\ \A x \in s : f[x] \in Nat
    BY <1>1
  <2> QED BY <2>1, SumRemoves
<1>3. \A s \in SUBSET S : s = A => Q(s)
  BY <1>2
<1>4. 0 \in T
  <2> SUFFICES ASSUME NEW s \in SUBSET S, Cardinality(s) <= 0 PROVE Q(s)
    OBVIOUS
  <2>1. s = {}
    BY <1>1
  <2> QED BY <1>3, <2>1
<1>5. ASSUME NEW m \in Nat, m \in T PROVE m + 1 \in T
  <2> HIDE DEF Q
  <2> SUFFICES ASSUME NEW s \in SUBSET S, Cardinality(s) <= m + 1, s # A, A \subseteq s PROVE Q(s)
    BY <1>3 DEF Q
  <2>1. PICK x \in s : x \notin A
    OBVIOUS
  <2>2. s \ {x} \in SUBSET S /\ Q(s \ {x})
    <3>1. s \ {x} \in SUBSET S /\ Cardinality(s \ {x}) <= m
      BY <1>1
    <3> QED BY <1>5, <3>1
  <2>3. A \subseteq s \ {x}
    BY <2>1
  <2>4. SumOver(f, A) \in Nat /\ SumOver(f, s \ {x}) \in Nat /\ f[x] \in Nat
        /\ SumOver(f, s) = f[x] + SumOver(f, s \ {x})
    BY <1>2, <2>2
  <2> QED BY <2>2, <2>3, <2>4 DEF Q
<1> HIDE DEF Q
<1>6. Nat \subseteq T
  <2> HIDE DEF T
  <2> QED BY <1>4, <1>5, Inductive
<1>7. Cardinality(S) \in Nat /\ \A s \in SUBSET S : Cardinality(s) <= Cardinality(S)
  BY FS_CardinalityType, FS_Subset
<1>8. Q(S)
  BY <1>6, <1>7
<1> QED
  BY <1>8 DEF Q

-----------------------------------------------------------------------------
(* Powers of two and the bits of a number                                  *)

IsPow(p) == p[0] = 1 /\ \A n \in Nat : p[n + 1] = 2 * p[n]

LEMMA PowNat ==
  ASSUME NEW p, IsPow(p)
  PROVE  \A n \in Nat : p[n] \in Nat \ {0}
<1> DEFINE T == {n \in Nat : p[n] \in Nat \ {0}}
<1>1. 0 \in T
  BY DEF IsPow
<1>2. \A n \in Nat : n \in T => n + 1 \in T
  BY DEF IsPow
<1> QED
  <2>1. Nat \subseteq T
    <3> HIDE DEF T
    <3> QED BY <1>1, <1>2, Inductive
  <2> QED BY <2>1

LEMMA PowAdds ==
  ASSUME NEW p, IsPow(p), NEW a \in Nat
  PROVE  \A b \in Nat : p[a + b] = p[a] * p[b]
<1> DEFINE T == {b \in Nat : p[a + b] = p[a] * p[b]}
<1>1. p[a] \in Nat
  BY PowNat
<1>2. 0 \in T
  BY <1>1 DEF IsPow
<1>3. ASSUME NEW b \in Nat, b \in T PROVE b + 1 \in T
  <2>1. p[b] \in Nat /\ p[b + 1] = 2 * p[b] /\ p[(a + b) + 1] = 2 * p[a + b]
    BY PowNat DEF IsPow
  <2>2. p[a + b] = p[a] * p[b] /\ (a + b) + 1 = a + (b + 1)
    BY <1>3
  <2> DEFINE x == p[a]
             y == p[b]
  <2>3. x \in Nat /\ y \in Nat
    BY <1>1, <2>1
  <2> HIDE DEF x, y
  <2>4. 2 * (x * y) = x * (2 * y)
    BY <2>3
  <2> QED BY <2>1, <2>2, <2>4 DEF x, y
<1>4. Nat \subseteq T
  <2> HIDE DEF T
  <2> QED BY <1>2, <1>3, Inductive
<1> QED
  BY <1>4

\* Two divisions are one, by the product.
LEMMA DivTwice ==
  ASSUME NEW x \in Nat, NEW a \in Nat \ {0}, NEW b \in Nat \ {0}
  PROVE  x \div (a * b) = (x \div a) \div b
<1> DEFINE q == x \div a
           r == x % a
           u == q \div b
           t == q % b
<1>1. q \in Nat /\ r \in 0 .. a - 1 /\ x = a * q + r
  BY Division
<1>2. u \in Nat /\ t \in 0 .. b - 1 /\ q = b * u + t
  BY <1>1, Division
<1> HIDE DEF q, r, u, t
<1>3. a * b \in Nat \ {0} /\ a * t \in Nat /\ (a * b) * u \in Nat
  BY <1>2, SMT
<1>4. x = (a * b) * u + (a * t + r)
  <2>1. a * (b * u + t) = (a * b) * u + a * t
    BY <1>2, SMT
  <2> QED BY <1>1, <1>2, <1>3, <2>1
<1>5. a * t + r \in 0 .. a * b - 1
  <2>1. a * t <= a * (b - 1)
    BY <1>2, MulMono
  <2>2. a * (b - 1) = a * b - a
    BY SMT
  <2> QED BY <1>1, <1>3, <2>1, <2>2
<1>6. ((a * b) * u + (a * t + r)) \div (a * b) = u
  BY <1>2, <1>3, <1>5, DivUnique
<1> QED
  BY <1>4, <1>6 DEF u, q

\* Numbers with the same bits above and below position n are equal.
LEMMA BitsTell ==
  ASSUME NEW p, IsPow(p), NEW n \in Nat, NEW x \in Nat, NEW y \in Nat,
         x \div p[n] = y \div p[n],
         \A i \in 1 .. n : (x \div p[n - i]) % 2 = (y \div p[n - i]) % 2
  PROVE  x = y
<1> DEFINE T == {i \in Nat : i <= n => x \div p[n - i] = y \div p[n - i]}
<1>1. 0 \in T
  OBVIOUS
<1>2. ASSUME NEW i \in Nat, i \in T PROVE i + 1 \in T
  <2> SUFFICES ASSUME i + 1 <= n PROVE x \div p[n - (i + 1)] = y \div p[n - (i + 1)]
    OBVIOUS
  <2> DEFINE k == n - (i + 1)
             a == x \div p[k]
             b == y \div p[k]
  <2>1. k \in Nat /\ k + 1 = n - i /\ i + 1 \in 1 .. n
    OBVIOUS
  <2>2. p[k] \in Nat \ {0} /\ p[k + 1] = p[k] * 2
    BY <2>1, PowNat DEF IsPow
  <2>3. x \div p[k + 1] = a \div 2 /\ y \div p[k + 1] = b \div 2
    BY <2>2, DivTwice
  <2>4. a \in Nat /\ b \in Nat
    BY <2>2, Division
  <2>5. a \div 2 = b \div 2
    BY <1>2, <2>1, <2>3
  <2>6. a % 2 = b % 2
    BY <2>1
  <2> HIDE DEF a, b
  <2>7. a = b
    BY <2>4, <2>5, <2>6
  <2> QED BY <2>7 DEF a, b, k
<1>3. Nat \subseteq T
  <2> HIDE DEF T
  <2> QED BY <1>1, <1>2, Inductive
<1>4. x \div p[n - n] = y \div p[n - n]
  BY <1>3
<1> QED
  BY <1>4 DEF IsPow

-----------------------------------------------------------------------------
(* Ranks                                                                   *)

IsStrictOrder(R, S) ==
  /\ \A x \in S : <<x, x>> \notin R
  /\ \A x \in S : \A y \in S : x # y => <<x, y>> \in R \/ <<y, x>> \in R
  /\ \A x \in S : \A y \in S : \A z \in S : <<x, y>> \in R /\ <<y, z>> \in R => <<x, z>> \in R

IsRank(rank, R, S) == \A x \in S : rank[x] = Cardinality({y \in S : <<y, x>> \in R})

\* The ranks are the numbers from 0 on, each once, in the order.
Enumerates(rank, R, S) ==
  /\ \A x \in S : rank[x] \in 0 .. Cardinality(S) - 1
  /\ \A x \in S : \A y \in S : <<x, y>> \in R => rank[x] < rank[y]
  /\ \A k \in 0 .. Cardinality(S) - 1 : \E x \in S : rank[x] = k

\* The ranks of the elements of a finite set in a strict total order are the
\* numbers from 0 on, each once.
LEMMA Ranks ==
  ASSUME NEW S, IsFiniteSet(S), NEW R, IsStrictOrder(R, S), NEW rank, IsRank(rank, R, S)
  PROVE  Enumerates(rank, R, S)
<1> USE DEF IsStrictOrder, IsRank
<1> DEFINE B(x) == {y \in S : <<y, x>> \in R}
<1>0. Cardinality(S) \in Nat
  BY FS_CardinalityType
<1>1. \A x \in S : IsFiniteSet(B(x)) /\ Cardinality(B(x)) \in Nat /\ rank[x] = Cardinality(B(x))
  BY FS_Subset, FS_CardinalityType
<1>2. ASSUME NEW x \in S PROVE rank[x] \in 0 .. Cardinality(S) - 1
  <2>1. B(x) \subseteq S \ {x}
    OBVIOUS
  <2>2. IsFiniteSet(S \ {x}) /\ Cardinality(S \ {x}) = Cardinality(S) - 1
    BY FS_RemoveElement
  <2>3. Cardinality(B(x)) <= Cardinality(S) - 1
    BY <2>1, <2>2, FS_Subset
  <2>4. Cardinality(B(x)) \in Nat /\ rank[x] = Cardinality(B(x))
    BY <1>1
  <2> HIDE DEF B
  <2> QED BY <1>0, <2>3, <2>4
<1>3. ASSUME NEW x \in S, NEW y \in S, <<x, y>> \in R PROVE rank[x] < rank[y]
  <2>1. B(x) \cup {x} \subseteq B(y) /\ x \notin B(x)
    BY <1>3
  <2>2. Cardinality(B(x) \cup {x}) = Cardinality(B(x)) + 1
    BY <1>1, <2>1, FS_AddElement
  <2>3. Cardinality(B(x) \cup {x}) <= Cardinality(B(y))
    BY <1>1, <2>1, FS_Subset
  <2> HIDE DEF B
  <2> QED BY <1>1, <2>2, <2>3
<1> HIDE DEF B
<1> DEFINE N == 0 .. Cardinality(S) - 1
           f == [x \in S |-> rank[x]]
<1>4. f \in [S -> N] /\ \A x \in S : \A y \in S : f[x] = f[y] => x = y
  <2>1. \A x \in S : rank[x] \in Nat
    BY <1>2
  <2>2. \A x \in S : \A y \in S : rank[x] = rank[y] => x = y
    <3>1. ASSUME NEW x \in S, NEW y \in S, rank[x] = rank[y], x # y PROVE FALSE
      <4>1. <<x, y>> \in R \/ <<y, x>> \in R
        BY <3>1
      <4>2. rank[x] < rank[y] \/ rank[y] < rank[x]
        BY <1>3, <4>1
      <4> QED BY <2>1, <3>1, <4>2
    <3> QED BY <3>1
  <2> QED BY <1>2, <2>2
<1>5. IsFiniteSet(N) /\ Cardinality(N) = Cardinality(S)
  <2>1. /\ IsFiniteSet(N)
        /\ Cardinality(N) = IF 0 > Cardinality(S) - 1 THEN 0 ELSE Cardinality(S) - 1 - 0 + 1
    <3>1. 0 \in Int /\ Cardinality(S) - 1 \in Int
      BY <1>0
    <3> QED BY <3>1, FS_Interval
  <2> QED BY <1>0, <2>1
<1>6. f \in Injection(S, N)
  BY <1>4 DEF Injection, IsInjective
<1>7. f \in Surjection(S, N)
  BY <1>5, <1>6, FS_Injection
<1>8. \A k \in N : \E x \in S : rank[x] = k
  BY <1>7 DEF Surjection
<1> QED
  BY <1>2, <1>3, <1>8 DEF Enumerates

-----------------------------------------------------------------------------
(* Orders                                                                  *)

\* A finite set that is not empty has a greatest element in a strict total
\* order.
LEMMA Greatest ==
  ASSUME NEW S, IsFiniteSet(S), S # {}, NEW R, IsStrictOrder(R, S)
  PROVE  \E x \in S : \A y \in S \ {x} : <<y, x>> \in R
<1> DEFINE rank == [x \in S |-> Cardinality({y \in S : <<y, x>> \in R})]
<1>1. Cardinality(S) \in Nat /\ Cardinality(S) # 0
  BY FS_CardinalityType, FS_EmptySet
<1>2. IsRank(rank, R, S)
  BY DEF IsRank
<1> HIDE DEF rank
<1>3. Enumerates(rank, R, S)
  BY <1>2, Ranks
<1>4. PICK x \in S : rank[x] = Cardinality(S) - 1
  BY <1>1, <1>3 DEF Enumerates
<1>5. ASSUME NEW y \in S \ {x}, <<y, x>> \notin R PROVE FALSE
  <2>1. <<x, y>> \in R
    BY <1>5 DEF IsStrictOrder
  <2>2. rank[x] < rank[y] /\ rank[y] \in 0 .. Cardinality(S) - 1
    BY <1>3, <2>1 DEF Enumerates
  <2> QED BY <1>1, <1>4, <2>2
<1> QED BY <1>5

\* Sorted gives each element of a finite set of numbers once, in ascending
\* order.
LEMMA SortedAscends ==
  ASSUME NEW S \in SUBSET Int, IsFiniteSet(S)
  PROVE  /\ Cardinality(S) \in Nat /\ Sorted(S) \in [1 .. Cardinality(S) -> S]
         /\ \A i, j \in 1 .. Cardinality(S) : i < j => Sorted(S)[i] < Sorted(S)[j]
         /\ \A x \in S : \E i \in 1 .. Cardinality(S) : Sorted(S)[i] = x
<1> DEFINE R == {p \in S \X S : p[1] < p[2]}
           rank == [x \in S |-> Cardinality({y \in S : y < x})]
<1>1. \A x \in S : \A y \in S : <<x, y>> \in R <=> x < y
  OBVIOUS
<1>2. \A x \in S : rank[x] = Cardinality({y \in S : y < x})
  OBVIOUS
<1>3. Cardinality(S) \in Nat
  BY FS_CardinalityType
<1> HIDE DEF R, rank
<1>4. Enumerates(rank, R, S)
  <2>1. IsStrictOrder(R, S)
    BY <1>1 DEF IsStrictOrder
  <2>2. ASSUME NEW x \in S PROVE rank[x] = Cardinality({y \in S : <<y, x>> \in R})
    <3>1. {y \in S : <<y, x>> \in R} = {y \in S : y < x}
      BY <1>1
    <3> QED BY <1>2, <3>1
  <2> QED BY <2>1, <2>2, Ranks DEF IsRank
<1>5. ASSUME NEW x \in S, NEW y \in S, rank[x] <= rank[y] PROVE x <= y
  <2>1. rank[x] \in Int /\ rank[y] \in Int
    BY <1>4 DEF Enumerates
  <2>2. CASE y < x
    <3>1. rank[y] < rank[x]
      BY <1>1, <1>4, <2>2 DEF Enumerates
    <3> QED BY <1>5, <2>1, <3>1
  <2> QED BY <2>2
<1>6. ASSUME NEW i \in 1 .. Cardinality(S)
      PROVE  Sorted(S)[i] \in S /\ rank[Sorted(S)[i]] = i - 1
  <2>1. PICK x \in S : rank[x] = i - 1
    <3>1. i - 1 \in 0 .. Cardinality(S) - 1
      BY <1>3
    <3> QED BY <1>4, <3>1 DEF Enumerates
  <2>2. \E y \in S : Cardinality({z \in S : z < y}) = i - 1
    BY <1>2, <2>1
  <2>3. Sorted(S)[i] = CHOOSE y \in S : Cardinality({z \in S : z < y}) = i - 1
    BY DEF Sorted
  <2> QED BY <1>2, <2>2, <2>3
<1>7. Sorted(S) \in [1 .. Cardinality(S) -> S]
  <2> DEFINE e(i) == CHOOSE x \in S : Cardinality({y \in S : y < x}) = i - 1
  <2>1. Sorted(S) = [i \in 1 .. Cardinality(S) |-> e(i)]
    BY DEF Sorted
  <2> HIDE DEF e
  <2>2. \A i \in 1 .. Cardinality(S) : e(i) = Sorted(S)[i]
    BY <2>1
  <2> QED BY <1>6, <2>1, <2>2
<1>8. ASSUME NEW i \in 1 .. Cardinality(S), NEW j \in 1 .. Cardinality(S), i < j
      PROVE  Sorted(S)[i] < Sorted(S)[j]
  <2> DEFINE x == Sorted(S)[i]
             y == Sorted(S)[j]
  <2>1. x \in S /\ y \in S /\ rank[x] = i - 1 /\ rank[y] = j - 1
    BY <1>6
  <2> HIDE DEF x, y
  <2>2. rank[x] < rank[y]
    BY <1>3, <1>8, <2>1
  <2>3. rank[x] \in Int /\ rank[y] \in Int
    BY <1>4, <2>1 DEF Enumerates
  <2>4. x # y /\ x <= y
    BY <1>5, <2>1, <2>2, <2>3
  <2>5. x < y
    BY <2>1, <2>4
  <2> QED BY <2>5 DEF x, y
<1>9. ASSUME NEW x \in S PROVE \E i \in 1 .. Cardinality(S) : Sorted(S)[i] = x
  <2>1. rank[x] \in 0 .. Cardinality(S) - 1
    BY <1>4 DEF Enumerates
  <2> DEFINE i == rank[x] + 1
             y == Sorted(S)[i]
  <2>2. i \in 1 .. Cardinality(S) /\ i - 1 = rank[x]
    BY <1>3, <2>1
  <2>3. y \in S /\ rank[y] = rank[x]
    BY <1>6, <2>2
  <2> HIDE DEF i, y
  <2>4. rank[y] \in Int
    BY <1>4, <2>3 DEF Enumerates
  <2>5. y <= x /\ x <= y
    BY <1>5, <2>3, <2>4
  <2>6. y = x
    BY <2>3, <2>5
  <2> QED BY <2>2, <2>6 DEF y
<1> QED
  BY <1>3, <1>7, <1>8, <1>9

\* Sorting what an ascending sequence enumerates gives the sequence.
LEMMA SortedIs ==
  ASSUME NEW k \in Nat, NEW f \in [1 .. k -> Int], \A i, j \in 1 .. k : i < j => f[i] < f[j],
         NEW S, S = {f[i] : i \in 1 .. k}
  PROVE  /\ IsFiniteSet(S) /\ Sorted(S) = f
<1>1. ASSUME NEW i \in 0 .. k
      PROVE  LET U == {f[j] : j \in 1 .. i} IN IsFiniteSet(U) /\ Cardinality(U) = i
  <2> DEFINE U == {f[j] : j \in 1 .. i}
             g == [j \in 1 .. i |-> f[j]]
  <2>1. IsFiniteSet(1 .. i) /\ Cardinality(1 .. i) = i
    <3>1. /\ IsFiniteSet(1 .. i)
          /\ Cardinality(1 .. i) = IF 1 > i THEN 0 ELSE i - 1 + 1
      BY FS_Interval
    <3> QED BY <3>1
  <2>2. g \in Bijection(1 .. i, U)
    <3>1. \A x, y \in 1 .. i : g[x] = g[y] => x = y
      <4>1. \A x, y \in 1 .. i : x < y => f[x] < f[y]
        OBVIOUS
      <4>2. \A x \in 1 .. i : f[x] \in Int
        OBVIOUS
      <4> QED BY <4>1, <4>2
    <3>2. g \in [1 .. i -> U] /\ \A u \in U : \E x \in 1 .. i : g[x] = u
      OBVIOUS
    <3> HIDE DEF g, U
    <3> QED BY <3>1, <3>2 DEF Bijection, Injection, Surjection, IsInjective
  <2> HIDE DEF g, U
  <2>3. IsFiniteSet(U) /\ Cardinality(U) = Cardinality(1 .. i)
    <3>1. ExistsBijection(1 .. i, U)
      BY <2>2 DEF ExistsBijection
    <3> QED BY <2>1, <3>1, FS_Bijection
  <2> QED BY <2>1, <2>3 DEF U
<1>2. IsFiniteSet(S) /\ Cardinality(S) = k
  <2>1. k \in 0 .. k
    OBVIOUS
  <2> QED BY <1>1, <2>1
<1>3. ASSUME NEW i \in 1 .. k PROVE Cardinality({y \in S : y < f[i]}) = i - 1
  <2>1. {y \in S : y < f[i]} = {f[j] : j \in 1 .. i - 1}
    <3>1. ASSUME NEW j \in 1 .. k PROVE f[j] < f[i] <=> j <= i - 1
      <4>1. CASE j < i
        BY <4>1
      <4>2. CASE j = i
        BY <4>2
      <4>3. CASE i < j
        <5>1. f[i] < f[j] /\ f[i] \in Int /\ f[j] \in Int
          BY <4>3
        <5> QED BY <4>3, <5>1
      <4> QED BY <4>1, <4>2, <4>3
    <3>2. \A y : y \in {z \in S : z < f[i]} <=> \E j \in 1 .. k : y = f[j] /\ f[j] < f[i]
      OBVIOUS
    <3>3. \A y : y \in {f[j] : j \in 1 .. i - 1} <=> \E j \in 1 .. i - 1 : y = f[j]
      OBVIOUS
    <3> QED BY <3>1, <3>2, <3>3
  <2>2. i - 1 \in 0 .. k
    OBVIOUS
  <2>3. Cardinality({f[j] : j \in 1 .. i - 1}) = i - 1
    BY <1>1, <2>2
  <2> QED BY <2>1, <2>3
<1>4. ASSUME NEW i \in 1 .. k PROVE Sorted(S)[i] = f[i]
  <2> DEFINE c(x) == Cardinality({y \in S : y < x})
  <2>1. Sorted(S)[i] = CHOOSE x \in S : c(x) = i - 1
    BY <1>2 DEF Sorted
  <2>2. \A x \in S : \E j \in 1 .. k : x = f[j] /\ c(x) = j - 1
    <3>1. \A x \in S : \E j \in 1 .. k : x = f[j]
      OBVIOUS
    <3>2. \A j \in 1 .. k : c(f[j]) = j - 1
      BY <1>3
    <3> HIDE DEF c
    <3> QED BY <3>1, <3>2
  <2>3. f[i] \in S /\ c(f[i]) = i - 1
    BY <1>3
  <2> HIDE DEF c
  <2>4. \A x \in S : c(x) = i - 1 => x = f[i]
    BY <2>2
  <2> QED BY <2>1, <2>3, <2>4
<1>5. DOMAIN Sorted(S) = 1 .. k /\ Sorted(S) = [i \in 1 .. k |-> Sorted(S)[i]]
  <2> DEFINE e(i) == CHOOSE x \in S : Cardinality({y \in S : y < x}) = i - 1
  <2>1. Sorted(S) = [i \in 1 .. k |-> e(i)]
    BY <1>2 DEF Sorted
  <2> HIDE DEF e
  <2> QED BY <2>1
<1>6. Sorted(S) = f
  BY <1>4, <1>5
<1> QED BY <1>2, <1>6

\* A set of numbers up to n that has with each the ones below it.
LEMMA DownClosed ==
  ASSUME NEW n \in Nat, NEW P \in SUBSET (1 .. n), \A x \in P : \A y \in 1 .. n : y < x => y \in P
  PROVE  \E k \in 0 .. n : P = 1 .. k
<1> DEFINE U == {j \in Nat : j + 1 \notin P}
<1>1. n \in U
  OBVIOUS
<1>2. PICK k \in U : \A j \in U : k <= j
  BY <1>1, Least
<1>3. k \in 0 .. n /\ k + 1 \notin P
  BY <1>1, <1>2
<1>4. ASSUME NEW x \in 1 .. k PROVE x \in P
  <2>1. x - 1 \in Nat /\ ~(k <= x - 1) /\ x - 1 + 1 = x
    OBVIOUS
  <2> QED BY <1>2, <2>1
<1>5. ASSUME NEW x \in P PROVE x \in 1 .. k
  BY <1>3
<1>6. P = 1 .. k
  BY <1>4, <1>5
<1> QED BY <1>3, <1>6

\* The part of a sequence from one index to another.
LEMMA Stretch ==
  ASSUME NEW s, NEW a \in Nat, NEW b \in Nat, a <= b + 1
  PROVE  SubSeq(s, a, b) = [i \in 1 .. b - a + 1 |-> s[a + i - 1]]
<1> DEFINE S == {s[i] : i \in a .. b}
<1>1. \A i \in a .. b : s[i] \in S
  OBVIOUS
<1> HIDE DEF S
<1>2. /\ SubSeq(s, a, b) \in Seq(S)
      /\ Len(SubSeq(s, a, b)) = IF a <= b THEN b - a + 1 ELSE 0
      /\ \A i \in 1 .. b - a + 1 : SubSeq(s, a, b)[i] = s[a + i - 1]
  BY <1>1, SubSeqProperties
<1>3. Len(SubSeq(s, a, b)) = b - a + 1
  BY <1>2
<1> QED
  BY <1>2, <1>3, LenProperties

\* Copying m elements from a stretch u of p that ends at e hands out what comes
\* next.
Continues(p, e, u, from, m) ==
  SubSeq(p, 1, e - Len(u) + from) \o SubSeq(u, from + 1, from + m)
    = SubSeq(p, 1, e - Len(u) + (from + m))

LEMMA HandsOn ==
  ASSUME NEW R, NEW p \in Seq(R), NEW e \in 0 .. Len(p), NEW u, Len(u) \in 0 .. e,
         NEW from \in 0 .. Len(u), NEW m \in 0 .. Len(u) - from,
         u = SubSeq(p, e - Len(u) + 1, e)
  PROVE  Continues(p, e, u, from, m)
<1> DEFINE L == Len(u)
           a == e - L + from
<1>1. L \in Nat /\ e \in Nat /\ L <= e /\ Len(p) \in Nat /\ e <= Len(p) /\ from \in Nat /\ m \in Nat
      /\ from + m <= L
  OBVIOUS
<1>2. a \in Nat /\ a + m <= Len(p) /\ a <= Len(p) /\ e - L + (from + m) = a + m
  BY <1>1
<1>3. SubSeq(p, 1, a) \o SubSeq(p, a + 1, a + m) = SubSeq(p, 1, a + m)
  <2>1. /\ 1 \in 1 .. Len(p) + 1 /\ a \in 1 - 1 .. Len(p) /\ a + m \in a .. Len(p)
    BY <1>1, <1>2
  <2> HIDE DEF a
  <2> QED BY <2>1, ConcatAdjacentSubSeq
<1>4. SubSeq(u, from + 1, from + m) = SubSeq(p, a + 1, a + m)
  <2> DEFINE c == e - L + 1
  <2>1. c \in Nat /\ c <= e + 1 /\ from + 1 \in Nat /\ from + m \in Nat /\ from + 1 <= (from + m) + 1
        /\ a + 1 \in Nat /\ a + m \in Nat /\ a + 1 <= (a + m) + 1
    BY <1>1, <1>2
  <2>2. u = [i \in 1 .. e - c + 1 |-> p[c + i - 1]]
    <3> HIDE DEF c
    <3>1. SubSeq(p, c, e) = [i \in 1 .. e - c + 1 |-> p[c + i - 1]]
      BY <1>1, <2>1, Stretch
    <3>2. u = SubSeq(p, c, e)
      BY DEF c, L
    <3> QED BY <3>1, <3>2
  <2>3. SubSeq(u, from + 1, from + m) = [i \in 1 .. (from + m) - (from + 1) + 1 |-> u[from + 1 + i - 1]]
    BY <2>1, Stretch
  <2>4. SubSeq(p, a + 1, a + m) = [i \in 1 .. (a + m) - (a + 1) + 1 |-> p[a + 1 + i - 1]]
    <3> DEFINE x == a + 1
               y == a + m
    <3>1. x \in Nat /\ y \in Nat /\ x <= y + 1
      BY <2>1
    <3> HIDE DEF x, y
    <3>2. SubSeq(p, x, y) = [i \in 1 .. y - x + 1 |-> p[x + i - 1]]
      BY <3>1, Stretch
    <3> QED BY <3>2 DEF x, y
  <2>5. (from + m) - (from + 1) + 1 = m /\ (a + m) - (a + 1) + 1 = m
    BY <1>1, <1>2
  <2>6. ASSUME NEW i \in 1 .. m PROVE u[from + 1 + i - 1] = p[a + 1 + i - 1]
    <3>1. from + 1 + i - 1 \in 1 .. e - c + 1 /\ c + (from + 1 + i - 1) - 1 = a + 1 + i - 1
      BY <1>1
    <3> DEFINE x == from + 1 + i - 1
    <3>2. x \in 1 .. e - c + 1 /\ c + x - 1 = a + 1 + i - 1
      BY <3>1
    <3> HIDE DEF x, c, a
    <3>3. u[x] = p[c + x - 1]
      BY <2>2, <3>2
    <3> QED BY <3>2, <3>3 DEF x
  <2> QED BY <2>3, <2>4, <2>5, <2>6
<1> QED BY <1>2, <1>3, <1>4 DEF a, L, Continues

-----------------------------------------------------------------------------
(* Sequences put together                                                  *)

IsFlat(v, g, k) == \A i \in 1 .. k : v[i] = IF i = 1 THEN g[i] ELSE v[i - 1] \o g[i]

LEMMA FlatExists ==
  ASSUME NEW S, NEW k \in Nat \ {0}, NEW g \in [1 .. k -> Seq(S)]
  PROVE  \E v \in [1 .. k -> Seq(S)] : IsFlat(v, g, k)
<1> DEFINE V == Seq(S)
           d == [p \in Nat \X V |-> IF p[1] + 2 \in 1 .. k THEN p[2] \o g[p[1] + 2] ELSE p[2]]
<1>1. d \in [Nat \X V -> V] /\ g[1] \in V
  <2>1. \A p \in Nat \X V : p[2] \in V /\ (p[1] + 2 \in 1 .. k => p[2] \o g[p[1] + 2] \in V)
    <3> SUFFICES ASSUME NEW p \in Nat \X V, p[1] + 2 \in 1 .. k PROVE p[2] \o g[p[1] + 2] \in V
      OBVIOUS
    <3>1. p[2] \in Seq(S) /\ g[p[1] + 2] \in Seq(S)
      OBVIOUS
    <3> QED BY <3>1
  <2> HIDE DEF V
  <2>2. d \in [Nat \X V -> V]
    BY <2>1
  <2> QED BY <2>2 DEF V
<1>2. \A m \in Nat, x \in V : d[<<m, x>>] = IF m + 2 \in 1 .. k THEN x \o g[m + 2] ELSE x
  OBVIOUS
<1> HIDE DEF d, V
<1>3. PICK f \in [Nat -> V] : Follows(f, g[1], d)
  BY <1>1, Recursion
<1> DEFINE v == [i \in 1 .. k |-> f[i - 1]]
<1>4. v \in [1 .. k -> V]
  <2>1. \A i \in 1 .. k : i - 1 \in Nat
    OBVIOUS
  <2> QED BY <1>3, <2>1
<1>5. ASSUME NEW i \in 1 .. k PROVE v[i] = IF i = 1 THEN g[i] ELSE v[i - 1] \o g[i]
  <2>1. CASE i = 1
    BY <1>3, <2>1 DEF Follows
  <2>2. CASE i # 1
    <3> DEFINE m == i - 2
    <3>1. m \in Nat /\ m + 1 = i - 1 /\ m + 2 = i /\ i - 1 \in 1 .. k /\ (i - 1) - 1 = m
      BY <2>2
    <3>2. v[i] = f[m + 1] /\ v[i - 1] = f[m]
      BY <3>1
    <3> HIDE DEF m, v
    <3>3. f[m + 1] = d[<<m, f[m]>>] /\ f[m] \in V
      BY <1>3, <3>1 DEF Follows
    <3>4. d[<<m, f[m]>>] = f[m] \o g[m + 2]
      BY <1>2, <3>1, <3>3
    <3> QED BY <2>2, <3>1, <3>2, <3>3, <3>4
  <2> QED BY <2>1, <2>2
<1> QED BY <1>4, <1>5 DEF IsFlat, V

LEMMA FlatIs ==
  ASSUME NEW S, NEW k \in Nat, NEW g \in [1 .. k -> Seq(S)]
  PROVE  IF k = 0 THEN FlattenSeq(g) = <<>>
         ELSE \E v \in [1 .. k -> Seq(S)] : IsFlat(v, g, k) /\ FlattenSeq(g) = v[k]
<1>1. Len(g) = k /\ g \in Seq(Seq(S))
  OBVIOUS
<1>2. CASE k = 0
  BY <1>1, <1>2 DEF FlattenSeq
<1>3. CASE k # 0
  <2> DEFINE Eq(v) == v = [i \in 1 .. k |-> IF i = 1 THEN g[i] ELSE v[i - 1] \o g[i]]
  <2>1. FlattenSeq(g) = (CHOOSE v : Eq(v))[k]
    BY <1>1, <1>3 DEF FlattenSeq
  <2>2. PICK v \in [1 .. k -> Seq(S)] : IsFlat(v, g, k)
    BY <1>3, FlatExists
  <2>3. Eq(v)
    BY <2>2 DEF IsFlat
  <2> DEFINE w == CHOOSE x : Eq(x)
  <2>4. Eq(w)
    BY <2>3
  <2>5. IsFlat(w, g, k) /\ DOMAIN w = 1 .. k
    BY <2>4 DEF IsFlat
  <2> HIDE DEF w
  <2>6. \A i \in 1 .. k : w[i] = v[i]
    <3> DEFINE T == {m \in Nat : m + 1 \in 1 .. k => w[m + 1] = v[m + 1]}
    <3>1. 0 \in T
      BY <2>2, <2>5 DEF IsFlat
    <3>2. ASSUME NEW m \in Nat, m \in T PROVE m + 1 \in T
      <4>1. ASSUME m + 2 \in 1 .. k PROVE w[m + 2] = v[m + 2]
        <5>1. m + 1 \in 1 .. k /\ (m + 2) - 1 = m + 1 /\ m + 2 # 1
          BY <4>1
        <5>2. w[m + 2] = w[m + 1] \o g[m + 2] /\ v[m + 2] = v[m + 1] \o g[m + 2]
          BY <2>2, <2>5, <4>1, <5>1 DEF IsFlat
        <5> QED BY <3>2, <5>1, <5>2
      <4>2. (m + 1) + 1 = m + 2 /\ m + 1 \in Nat
        OBVIOUS
      <4> QED BY <4>1, <4>2
    <3> HIDE DEF T
    <3>3. Nat \subseteq T
      BY <3>1, <3>2, Inductive
    <3> SUFFICES ASSUME NEW i \in 1 .. k PROVE w[i] = v[i]
      OBVIOUS
    <3>4. i - 1 \in T /\ (i - 1) + 1 = i
      BY <3>3
    <3> QED BY <3>4 DEF T
  <2>7. w[k] = v[k] /\ FlattenSeq(g) = w[k]
    <3>1. k \in 1 .. k
      BY <1>3
    <3> QED BY <2>1, <2>6, <3>1 DEF w
  <2>8. FlattenSeq(g) = v[k]
    BY <2>7
  <2> QED BY <1>3, <2>2, <2>8
<1> QED BY <1>2, <1>3

LEMMA FlatType ==
  ASSUME NEW S, NEW k \in Nat, NEW g \in [1 .. k -> Seq(S)]
  PROVE  FlattenSeq(g) \in Seq(S)
<1>1. CASE k = 0
  <2>1. FlattenSeq(g) = <<>>
    BY <1>1, FlatIs
  <2> QED BY <2>1
<1>2. CASE k # 0
  <2>1. PICK v \in [1 .. k -> Seq(S)] : FlattenSeq(g) = v[k]
    BY <1>2, FlatIs
  <2>2. k \in 1 .. k
    BY <1>2
  <2> QED BY <2>1, <2>2
<1> QED BY <1>1, <1>2

\* A sequence put together from k sequences of the same length U.
InRows(flat, g, k, U) ==
  /\ k * U \in Nat /\ Len(flat) = k * U
  /\ \A i \in 1 .. k : \A u \in 1 .. U : flat[(i - 1) * U + u] = g[i][u]

LEMMA FlatUniform ==
  ASSUME NEW S, NEW k \in Nat, NEW U \in Nat \ {0}, NEW g \in [1 .. k -> [1 .. U -> S]]
  PROVE  FlattenSeq(g) \in Seq(S) /\ InRows(FlattenSeq(g), g, k, U)
<1>1. g \in [1 .. k -> Seq(S)] /\ \A i \in 1 .. k : g[i] \in Seq(S) /\ Len(g[i]) = U
  <2>1. \A x \in [1 .. U -> S] : x \in Seq(S) /\ Len(x) = U
    OBVIOUS
  <2>2. \A i \in 1 .. k : g[i] \in [1 .. U -> S]
    OBVIOUS
  <2>3. \A i \in 1 .. k : g[i] \in Seq(S) /\ Len(g[i]) = U
    BY <2>1, <2>2
  <2> QED BY <2>3
<1>2. FlattenSeq(g) \in Seq(S)
  BY <1>1, FlatType
<1>3. k * U \in Nat
  BY Products
<1>4. CASE k = 0
  <2>1. FlattenSeq(g) = <<>>
    BY <1>1, <1>4, FlatIs
  <2> QED BY <1>2, <1>3, <1>4, <2>1 DEF InRows
<1>5. CASE k # 0
  <2>1. PICK v \in [1 .. k -> Seq(S)] : IsFlat(v, g, k) /\ FlattenSeq(g) = v[k]
    BY <1>1, <1>5, FlatIs
  <2> DEFINE P(m) == /\ Len(v[m]) = m * U
                     /\ \A i \in 1 .. m : \A u \in 1 .. U : v[m][(i - 1) * U + u] = g[i][u]
             T == {m \in Nat : m + 1 \in 1 .. k => P(m + 1)}
  <2>2. P(1)
    <3>1. v[1] = g[1]
      BY <1>5, <2>1 DEF IsFlat
    <3>2. 1 * U = U /\ 1 \in 1 .. k
      BY <1>5
    <3>3. ASSUME NEW i \in 1 .. 1, NEW u \in 1 .. U PROVE v[1][(i - 1) * U + u] = g[i][u]
      <4>1. i = 1 /\ (i - 1) * U + u = u
        OBVIOUS
      <4> QED BY <3>1, <4>1
    <3> QED BY <1>1, <3>1, <3>2, <3>3
  <2>3. ASSUME NEW m \in Nat \ {0}, m + 1 \in 1 .. k, P(m) PROVE P(m + 1)
    <3> DEFINE x == v[m]
               y == g[m + 1]
               N == m * U
    <3>1. v[m + 1] = x \o y
      <4>1. m + 1 # 1 /\ (m + 1) - 1 = m
        OBVIOUS
      <4> QED BY <2>1, <2>3, <4>1 DEF IsFlat
    <3>2. x \in Seq(S) /\ y \in Seq(S) /\ Len(x) = N /\ Len(y) = U /\ N \in Nat
      <4>1. m \in 1 .. k
        BY <2>3
      <4> QED BY <1>1, <2>1, <2>3, <4>1, Products
    <3>3. (m + 1) * U = N + U
      OBVIOUS
    <3>4. ASSUME NEW i \in 1 .. m, NEW u \in 1 .. U
          PROVE  (i - 1) * U + u \in 1 .. N
      <4> DEFINE j == i - 1
                 r == m - 1 - j
      <4>1. j \in Nat /\ r \in Nat /\ m = j + r + 1
        OBVIOUS
      <4> HIDE DEF j, r
      <4>2. m * U = j * U + r * U + 1 * U /\ j * U \in Nat /\ r * U \in Nat
        BY <4>1, Distributes, Products
      <4>3. j * U + u >= 1 /\ j * U + u <= m * U /\ j * U + u \in Int
        <5> DEFINE A == j * U
                   B == r * U
                   C == m * U
        <5>1. A \in Nat /\ B \in Nat /\ C = A + B + U
          BY <4>2
        <5> HIDE DEF A, B, C
        <5>2. A + u >= 1 /\ A + u <= C /\ A + u \in Int
          BY <5>1
        <5> QED BY <5>2 DEF A, C
      <4> QED BY <4>3, <3>2 DEF j, N
    <3>5. ASSUME NEW i \in 1 .. m + 1, NEW u \in 1 .. U
          PROVE  (x \o y)[(i - 1) * U + u] = g[i][u]
      <4>1. CASE i <= m
        <5> DEFINE q == (i - 1) * U + u
        <5>1. i \in 1 .. m
          BY <4>1
        <5>2. q \in 1 .. N /\ x[q] = g[i][u]
          BY <2>3, <3>4, <5>1
        <5> HIDE DEF q, x, y, N
        <5>3. (x \o y)[q] = x[q]
          BY <3>2, <5>2
        <5> QED BY <5>2, <5>3 DEF q
      <4>2. CASE ~(i <= m)
        <5>1. i = m + 1 /\ (i - 1) * U + u = N + u
          BY <4>2
        <5> HIDE DEF x, y, N
        <5>2. (x \o y)[N + u] = y[u]
          BY <3>2
        <5> QED BY <5>1, <5>2 DEF y
      <4> QED BY <4>1, <4>2
    <3>6. Len(x \o y) = N + U
      <4> HIDE DEF x, y, N
      <4> QED BY <3>2, ConcatProperties
    <3> QED BY <3>1, <3>3, <3>5, <3>6
  <2>4. k \in 1 .. k /\ P(k)
    <3> HIDE DEF P
    <3>1. 0 \in T
      BY <2>2
    <3>2. ASSUME NEW m \in Nat, m \in T PROVE m + 1 \in T
      <4>1. ASSUME (m + 1) + 1 \in 1 .. k PROVE P((m + 1) + 1)
        <5>1. m + 1 \in Nat \ {0} /\ m + 1 \in 1 .. k
          BY <4>1
        <5> QED BY <2>3, <3>2, <4>1, <5>1
      <4> QED BY <4>1
    <3> HIDE DEF T
    <3>3. Nat \subseteq T
      BY <3>1, <3>2, Inductive
    <3>4. k - 1 \in T /\ (k - 1) + 1 = k /\ k \in 1 .. k
      BY <1>5, <3>3
    <3> QED BY <3>4 DEF T
  <2> QED BY <1>2, <1>3, <2>1, <2>4 DEF InRows
<1> QED BY <1>4, <1>5

\* Numbers up to k * U are k rows of U.
LEMMA Rows ==
  ASSUME NEW k \in Nat, NEW U \in Nat \ {0}, NEW j \in 1 .. k * U
  PROVE  \E i \in 1 .. k : \E u \in 1 .. U : j = (i - 1) * U + u
<1> DEFINE q == (j - 1) \div U
           r == (j - 1) % U
<1>1. j - 1 \in Nat /\ j \in Nat
  BY Products
<1>2. q \in Nat /\ r \in 0 .. U - 1 /\ j - 1 = U * q + r /\ U * q \in Nat /\ U * q <= j - 1
  BY <1>1, Division
<1> HIDE DEF q, r
<1>3. q < k
  <2> SUFFICES ASSUME k <= q PROVE FALSE
    BY <1>2
  <2>1. U * k <= U * q /\ U * k = k * U /\ k * U \in Nat
    BY <1>2, MulMono, Products
  <2> DEFINE x == U * q
             y == k * U
  <2>2. x \in Nat /\ y \in Nat /\ y <= x /\ x <= j - 1 /\ j <= y
    BY <1>2, <2>1
  <2> HIDE DEF x, y
  <2> QED BY <1>1, <2>2
<1>4. q + 1 \in 1 .. k /\ r + 1 \in 1 .. U
  BY <1>2, <1>3
<1>5. j = ((q + 1) - 1) * U + (r + 1)
  <2>1. (q + 1) - 1 = q /\ U * q = q * U
    BY <1>2, Products
  <2> DEFINE x == U * q
  <2>2. x = ((q + 1) - 1) * U /\ x \in Nat /\ j - 1 = x + r
    BY <1>2, <2>1
  <2> HIDE DEF x
  <2>3. j = x + (r + 1)
    BY <1>1, <1>2, <2>2
  <2> QED BY <2>2, <2>3
<1> QED BY <1>4, <1>5

=============================================================================
