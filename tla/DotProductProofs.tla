-------------------------- MODULE DotProductProofs --------------------------
(***************************************************************************)
(* Theorems about DotProduct, for vectors of any length and any integers.  *)
(* SumFunction folds over a CHOOSEn order of a finite set: SumOf says what *)
(* its value is, and what follows about sums and products is by induction  *)
(* on the subsets of the set, or on the length.  Induction is a fact about *)
(* a set G: NaturalsFrom and SubsetsFrom, from a least element outside G.  *)
(***************************************************************************)
EXTENDS DotProduct, FiniteSetTheorems, SequenceTheorems, WellFoundedInduction, TLAPS

-----------------------------------------------------------------------------
(* Induction *)

\* Induction over the natural numbers, on a set.
LEMMA NaturalsFrom ==
  ASSUME NEW G, 0 \in G, \A n \in Nat : n \in G => n + 1 \in G
  PROVE  Nat \subseteq G
<1> DEFINE T == Nat \ G
<1>1. SUFFICES ASSUME T # {} PROVE FALSE
  OBVIOUS
<1>2. PICK m \in T : \A k \in T : ~(<<k, m>> \in OpToRel(<, Nat))
  BY <1>1, NatLessThanWellFounded, WFMin
<1>3. m \in Nat /\ m \notin G /\ m # 0
  BY <1>2
<1>4. m - 1 \in Nat /\ (m - 1) + 1 = m /\ m - 1 < m
  BY <1>3
<1>5. m - 1 \notin G
  BY <1>3, <1>4
<1>6. <<m - 1, m>> \in OpToRel(<, Nat)
  BY <1>3, <1>4 DEF OpToRel
<1> QED
  BY <1>2, <1>4, <1>5, <1>6

\* Induction over the subsets of a finite set.
LEMMA SubsetsFrom ==
  ASSUME NEW S, IsFiniteSet(S), NEW G,
         \A s \in SUBSET S : (\A u \in SUBSET s : u # s => u \in G) => s \in G
  PROVE  SUBSET S \subseteq G
<1> DEFINE T == (SUBSET S) \ G
<1>1. SUFFICES ASSUME T # {} PROVE FALSE
  OBVIOUS
<1>2. IsWellFoundedOn(StrictSubsetOrdering(S), SUBSET S)
  BY FS_StrictSubsetOrderingWellFounded, FS_FiniteSubsetsOfFinite
<1>3. \E s \in T : \A u \in T : ~(<<u, s>> \in StrictSubsetOrdering(S))
  <2>1. T \subseteq SUBSET S
    OBVIOUS
  <2> HIDE DEF T
  <2> QED
    BY <1>1, <1>2, <2>1, WFMin
<1>4. PICK s \in T : \A u \in T : ~(<<u, s>> \in StrictSubsetOrdering(S))
  BY <1>3
<1>5. \A u \in SUBSET s : u # s => u \in G
  BY <1>4 DEF StrictSubsetOrdering
<1> QED
  BY <1>4, <1>5

-----------------------------------------------------------------------------
(* Sums over subsets *)

\* f has the sum of h over every subset of S.
SumsOf(f, h, S) ==
  /\ f \in [SUBSET S -> Int]
  /\ f[{}] = 0
  /\ \A s \in SUBSET S : \A x \in s : f[s] = h[x] + f[s \ {x}]

\* On S, k is the c-fold of h.
Multiple(k, c, h, S) == \A x \in S : k[x] = c * h[x]

\* The sum over s, from that over s without the element that is taken off first.
Step(f, h, s) == IF s = {} THEN 0 ELSE LET x == CHOOSE x \in s : TRUE IN h[x] + f[s \ {x}]

\* A function takes every such step: one for the subsets of up to n elements
\* extends to those of n + 1.
LEMMA StepsExist ==
  ASSUME NEW S, IsFiniteSet(S), NEW h \in [S -> Int]
  PROVE  \E f \in [SUBSET S -> Int] : \A s \in SUBSET S : f[s] = Step(f, h, s)
<1> DEFINE Small(n) == {s \in SUBSET S : Cardinality(s) <= n}
           G == {n \in Nat : \E f \in [Small(n) -> Int] : \A s \in Small(n) : f[s] = Step(f, h, s)}
<1>0. \A s \in SUBSET S : IsFiniteSet(s) /\ Cardinality(s) \in Nat
  BY FS_Subset, FS_CardinalityType
<1>1. 0 \in G
  <2>1. \A s \in Small(0) : s = {}
    BY <1>0, FS_EmptySet
  <2>2. [s \in Small(0) |-> 0] \in [Small(0) -> Int]
    OBVIOUS
  <2>3. \A s \in Small(0) : [t \in Small(0) |-> 0][s] = Step([t \in Small(0) |-> 0], h, s)
    BY <2>1 DEF Step
  <2> HIDE DEF Small
  <2> QED
    BY <2>2, <2>3
<1>2. ASSUME NEW n \in Nat, n \in G PROVE n + 1 \in G
  <2>1. PICK f \in [Small(n) -> Int] : \A s \in Small(n) : f[s] = Step(f, h, s)
    BY <1>2
  <2> DEFINE g == [s \in Small(n + 1) |-> IF s \in Small(n) THEN f[s] ELSE Step(f, h, s)]
  <2>2. ASSUME NEW s \in Small(n + 1), s # {}
        PROVE  /\ (CHOOSE x \in s : TRUE) \in S
               /\ s \ {CHOOSE x \in s : TRUE} \in Small(n)
    <3> DEFINE c == CHOOSE x \in s : TRUE
    <3>1. c \in s
      BY <2>2
    <3>2. IsFiniteSet(s) /\ Cardinality(s) \in Nat /\ Cardinality(s \ {c}) = Cardinality(s) - 1
      BY <1>0, <3>1, FS_RemoveElement
    <3> QED
      BY <3>1, <3>2
  <2>3. \A s \in Small(n) : s \in Small(n + 1)
    BY <1>0
  <2>4. 0 \in Int /\ h \in [S -> Int]
    OBVIOUS
  <2> HIDE DEF Small
  <2>5. g \in [Small(n + 1) -> Int]
    BY <2>1, <2>2, <2>4 DEF Step
  <2>6. ASSUME NEW s \in Small(n + 1) PROVE g[s] = Step(g, h, s)
    <3>1. g[s] = Step(f, h, s)
      BY <2>1
    <3>2. CASE s = {}
      BY <3>1, <3>2 DEF Step
    <3>3. CASE s # {}
      BY <2>2, <2>3, <3>1, <3>3 DEF Step
    <3> QED
      BY <3>2, <3>3
  <2> HIDE DEF g
  <2> QED
    BY <2>5, <2>6
<1>3. Cardinality(S) \in G
  <2> HIDE DEF G
  <2> QED
    BY <1>0, <1>1, <1>2, NaturalsFrom
<1>4. Small(Cardinality(S)) = SUBSET S
  BY FS_Subset
<1> HIDE DEF Small
<1> QED
  BY <1>3, <1>4

\* Any element may be taken off first.
LEMMA StepsAreSums ==
  ASSUME NEW S, IsFiniteSet(S), NEW h \in [S -> Int], NEW f \in [SUBSET S -> Int],
         \A s \in SUBSET S : f[s] = Step(f, h, s)
  PROVE  SumsOf(f, h, S)
<1> DEFINE G == {s \in SUBSET S : \A x \in s : f[s] = h[x] + f[s \ {x}]}
<1>1. ASSUME NEW s \in SUBSET S, \A u \in SUBSET s : u # s => u \in G PROVE s \in G
  <2>1. SUFFICES ASSUME NEW x \in s PROVE f[s] = h[x] + f[s \ {x}]
    OBVIOUS
  <2> DEFINE c == CHOOSE y \in s : TRUE
  <2>2. c \in s /\ f[s] = h[c] + f[s \ {c}]
    BY DEF Step
  <2>3. CASE c = x
    BY <2>2, <2>3
  <2>4. CASE c # x
    <3>1. s \ {c} \in G /\ s \ {x} \in G
      BY <1>1, <2>2
    <3>2. (s \ {c}) \ {x} = (s \ {x}) \ {c}
      OBVIOUS
    <3>3. f[s \ {c}] = h[x] + f[(s \ {c}) \ {x}] /\ f[s \ {x}] = h[c] + f[(s \ {c}) \ {x}]
      BY <2>2, <2>4, <3>1, <3>2
    <3>4. h[x] \in Int /\ h[c] \in Int /\ f[(s \ {c}) \ {x}] \in Int
      BY <2>2
    <3> HIDE DEF c
    <3> QED
      BY <2>2, <3>3, <3>4
  <2> QED
    BY <2>3, <2>4
<1>2. SUBSET S \subseteq G
  <2> HIDE DEF G
  <2> QED
    BY <1>1, SubsetsFrom
<1>3. f[{}] = 0
  BY DEF Step
<1> QED
  BY <1>2, <1>3 DEF SumsOf

\* What is a multiple in every element is one in every sum.
LEMMA SumsScale ==
  ASSUME NEW S, IsFiniteSet(S), NEW T \in SUBSET S, NEW c \in Int,
         NEW h \in [S -> Int], NEW k \in [T -> Int],
         Multiple(k, c, h, T), NEW f, SumsOf(f, h, S), NEW g, SumsOf(g, k, T)
  PROVE  Multiple(g, c, f, SUBSET T)
<1> DEFINE G == {s \in SUBSET T : g[s] = c * f[s]}
<1>1. ASSUME NEW s \in SUBSET T, \A u \in SUBSET s : u # s => u \in G PROVE s \in G
  <2>1. CASE s = {}
    BY <2>1 DEF SumsOf
  <2>2. CASE s # {}
    <3>1. PICK x \in s : TRUE
      BY <2>2
    <3>2. g[s \ {x}] = c * f[s \ {x}]
      BY <1>1
    <3>3. g[s] = k[x] + g[s \ {x}] /\ f[s] = h[x] + f[s \ {x}]
      BY DEF SumsOf
    <3>4. h[x] \in Int /\ f[s \ {x}] \in Int /\ k[x] = c * h[x]
      BY DEF SumsOf, Multiple
    <3>5. c * h[x] + c * f[s \ {x}] = c * (h[x] + f[s \ {x}])
      BY <3>4
    <3> QED
      BY <3>2, <3>3, <3>4, <3>5
  <2> QED
    BY <2>1, <2>2
<1>2. IsFiniteSet(T)
  BY FS_Subset
<1> HIDE DEF G
<1>3. SUBSET T \subseteq G
  BY <1>1, <1>2, SubsetsFrom
<1> QED
  BY <1>3 DEF G, Multiple

\* A sum of what is not negative is not negative.
LEMMA SumsAreNat ==
  ASSUME NEW S, IsFiniteSet(S), NEW h \in [S -> Int], \A x \in S : h[x] >= 0,
         NEW f, SumsOf(f, h, S)
  PROVE  f[S] >= 0
<1> DEFINE G == {s \in SUBSET S : f[s] >= 0}
<1>1. ASSUME NEW s \in SUBSET S, \A u \in SUBSET s : u # s => u \in G PROVE s \in G
  <2>1. CASE s = {}
    BY <2>1 DEF SumsOf
  <2>2. CASE s # {}
    <3>1. PICK x \in s : TRUE
      BY <2>2
    <3>2. f[s \ {x}] >= 0 /\ f[s \ {x}] \in Int
      BY <1>1 DEF SumsOf
    <3>3. f[s] = h[x] + f[s \ {x}]
      BY DEF SumsOf
    <3> QED
      BY <3>2, <3>3
  <2> QED
    BY <2>1, <2>2
<1> HIDE DEF G
<1>2. S \in G
  BY <1>1, SubsetsFrom
<1> QED
  BY <1>2 DEF G

\* Where one element alone is not zero, it is the sum.
LEMMA SumsSingle ==
  ASSUME NEW S, IsFiniteSet(S), NEW h \in [S -> Int], NEW j \in S,
         \A x \in S \ {j} : h[x] = 0,
         NEW f, SumsOf(f, h, S)
  PROVE  f[S] = h[j]
<1> DEFINE G == {s \in SUBSET S : j \notin s => f[s] = 0}
<1>1. ASSUME NEW s \in SUBSET S, \A u \in SUBSET s : u # s => u \in G PROVE s \in G
  <2>1. CASE s = {}
    BY <2>1 DEF SumsOf
  <2>2. CASE s # {} /\ j \notin s
    <3>1. PICK x \in s : TRUE
      BY <2>2
    <3>2. f[s \ {x}] = 0
      BY <1>1, <2>2
    <3>3. f[s] = h[x] + f[s \ {x}] /\ h[x] = 0
      BY <2>2 DEF SumsOf
    <3> QED
      BY <3>2, <3>3
  <2> QED
    BY <2>1, <2>2
<1> HIDE DEF G
<1>2. S \ {j} \in G
  BY <1>1, SubsetsFrom
<1>3. f[S \ {j}] = 0
  BY <1>2 DEF G
<1>4. f[S] = h[j] + f[S \ {j}]
  BY DEF SumsOf
<1> QED
  BY <1>3, <1>4


-----------------------------------------------------------------------------
(* SumFunction *)

\* SumFunction(h) is the sum of h over all of its domain.
LEMMA SumOf ==
  ASSUME NEW S, IsFiniteSet(S), NEW h \in [S -> Int]
  PROVE  \E f : SumsOf(f, h, S) /\ SumFunction(h) = f[S]
<1> DEFINE P(f) == f = [s \in SUBSET S |->
                          IF s = {} THEN 0
                          ELSE h[CHOOSE x \in s : TRUE] + f[s \ {CHOOSE x \in s : TRUE}]]
<1>1. \E f : P(f)
  <2>1. PICK f \in [SUBSET S -> Int] : \A s \in SUBSET S : f[s] = Step(f, h, s)
    BY StepsExist
  <2> QED
    BY <2>1 DEF Step
<1>2. SumFunction(h) = (CHOOSE f : P(f))[S]
  <2>1. DOMAIN h = S
    OBVIOUS
  <2> QED
    BY <2>1 DEF SumFunction, SumFunctionOnSet, FoldFunctionOnSet, MapThenFoldSet
<1>3. PICK f : f = CHOOSE g : P(g)
  OBVIOUS
<1>4. P(f)
  <2> HIDE DEF P
  <2> QED
    BY <1>1, <1>3
<1>5. \A s \in SUBSET S : f[s] = Step(f, h, s)
  BY <1>4 DEF Step
<1>6. f \in [SUBSET S -> Int]
  <2> DEFINE G == {s \in SUBSET S : f[s] \in Int}
  <2>1. ASSUME NEW s \in SUBSET S, \A u \in SUBSET s : u # s => u \in G PROVE s \in G
    <3>1. CASE s = {}
      <4>1. f[s] = 0
        BY <1>5, <3>1 DEF Step
      <4> QED
        BY <4>1
    <3>2. CASE s # {}
      <4>1. PICK x : x = (CHOOSE y \in s : TRUE)
        OBVIOUS
      <4>2. x \in s /\ f[s] = h[x] + f[s \ {x}]
        BY <1>5, <3>2, <4>1 DEF Step
      <4>3. f[s \ {x}] \in Int
        BY <2>1, <4>2
      <4> QED
        BY <4>2, <4>3
    <3> QED
      BY <3>1, <3>2
  <2>2. SUBSET S \subseteq G
    <3> HIDE DEF G
    <3> QED
      BY <2>1, SubsetsFrom
  <2> QED
    BY <1>4, <2>2
<1>7. SumsOf(f, h, S)
  <2> HIDE DEF P
  <2> QED
    BY <1>5, <1>6, StepsAreSums
<1> HIDE DEF P
<1> QED
  BY <1>2, <1>3, <1>7
\* A sum of integers is one.
LEMMA SumIsInt ==
  ASSUME NEW S, IsFiniteSet(S), NEW h \in [S -> Int]
  PROVE  SumFunction(h) \in Int
<1>1. PICK f : SumsOf(f, h, S) /\ SumFunction(h) = f[S]
  BY SumOf
<1>2. f[S] \in Int
  BY <1>1 DEF SumsOf
<1> QED
  BY <1>1, <1>2

\* A sum of what is not negative is a natural number.
LEMMA SumIsNat ==
  ASSUME NEW S, IsFiniteSet(S), NEW h \in [S -> Int], \A x \in S : h[x] >= 0
  PROVE  SumFunction(h) \in Nat
<1>1. PICK f : SumsOf(f, h, S) /\ SumFunction(h) = f[S]
  BY SumOf
<1>2. f[S] >= 0
  BY <1>1, SumsAreNat
<1> QED
  BY <1>1, <1>2, SumIsInt

\* Where all but one are zero, the sum is that one.
LEMMA SumOfOne ==
  ASSUME NEW S, IsFiniteSet(S), NEW h \in [S -> Int], NEW j \in S,
         \A x \in S \ {j} : h[x] = 0
  PROVE  SumFunction(h) = h[j]
BY SumOf, SumsSingle

\* A common factor moves out of a sum.
LEMMA SumScales ==
  ASSUME NEW S, IsFiniteSet(S), NEW c \in Int,
         NEW h \in [S -> Int], NEW k \in [S -> Int], \A x \in S : k[x] = c * h[x]
  PROVE  SumFunction(k) = c * SumFunction(h)
<1>1. PICK f : SumsOf(f, h, S) /\ SumFunction(h) = f[S]
  BY SumOf
<1>2. PICK g : SumsOf(g, k, S) /\ SumFunction(k) = g[S]
  BY SumOf
<1>3. S \in SUBSET S /\ Multiple(k, c, h, S)
  BY DEF Multiple
<1>4. Multiple(g, c, f, SUBSET S)
  BY <1>1, <1>2, <1>3, SumsScale
<1> QED
  BY <1>1, <1>2, <1>3, <1>4 DEF Multiple

\* The sum of n + 1 is the sum of the first n and the last.
LEMMA SumAppends ==
  ASSUME NEW n \in Nat, NEW h \in [1..n + 1 -> Int], NEW k \in [1..n -> Int],
         \A i \in 1..n : k[i] = h[i]
  PROVE  SumFunction(h) = SumFunction(k) + h[n + 1]
<1>1. PICK S : S = 1..n + 1
  OBVIOUS
<1>2. PICK T : T = 1..n
  OBVIOUS
<1>3. IsFiniteSet(S) /\ IsFiniteSet(T) /\ T \in SUBSET S /\ S \in SUBSET S
  BY <1>1, <1>2, FS_Interval
<1>4. n + 1 \in S /\ S \ {n + 1} = T
  BY <1>1, <1>2
<1>5. h \in [S -> Int] /\ k \in [T -> Int] /\ Multiple(k, 1, h, T)
  BY <1>1, <1>2 DEF Multiple
<1>6. PICK f : SumsOf(f, h, S) /\ SumFunction(h) = f[S]
  BY <1>3, <1>5, SumOf
<1>7. PICK g : SumsOf(g, k, T) /\ SumFunction(k) = g[T]
  BY <1>3, <1>5, SumOf
<1>8. f[S] = h[n + 1] + f[T] /\ f[T] \in Int /\ h[n + 1] \in Int
  BY <1>3, <1>4, <1>5, <1>6 DEF SumsOf
<1>9. Multiple(g, 1, f, SUBSET T)
  BY <1>3, <1>5, <1>6, <1>7, SumsScale
<1>10. g[T] = 1 * f[T]
  BY <1>9 DEF Multiple
<1> QED
  BY <1>6, <1>7, <1>8, <1>10

\* The empty sum is zero.
LEMMA SumOfNone ==
  ASSUME NEW h \in [{} -> Int] PROVE SumFunction(h) = 0
BY FS_EmptySet, SumOf DEF SumsOf

\* The sum of n times the same.
LEMMA SumOfSame ==
  ASSUME NEW a \in Int, NEW n \in Nat
  PROVE  SumFunction([i \in 1..n |-> a]) = n * a
<1> DEFINE h(m) == [i \in 1..m |-> a]
           G == {m \in Nat : SumFunction(h(m)) = m * a}
<1>1. 0 \in G
  <2>1. h(0) \in [{} -> Int] /\ 0 * a = 0
    OBVIOUS
  <2> HIDE DEF h
  <2> QED
    BY <2>1, SumOfNone
<1>2. ASSUME NEW m \in Nat, m \in G PROVE m + 1 \in G
  <2>1. /\ h(m) \in [1..m -> Int] /\ h(m + 1) \in [1..m + 1 -> Int]
        /\ \A i \in 1..m : h(m)[i] = h(m + 1)[i]
        /\ h(m + 1)[m + 1] = a
    OBVIOUS
  <2>2. SumFunction(h(m)) = m * a
    BY <1>2
  <2> HIDE DEF h
  <2>3. SumFunction(h(m + 1)) = SumFunction(h(m)) + h(m + 1)[m + 1]
    BY <2>1, SumAppends
  <2>4. m * a + a = (m + 1) * a
    OBVIOUS
  <2> QED
    BY <2>1, <2>2, <2>3, <2>4
<1>3. n \in G
  <2> HIDE DEF G
  <2> QED
    BY <1>1, <1>2, NaturalsFrom
<1> QED
  BY <1>3
-----------------------------------------------------------------------------
(* Products of vectors *)

\* The products of two vectors' entries can be summed.
LEMMA ProductsType ==
  ASSUME NEW v \in Seq(Int), NEW w \in Seq(Int), Len(w) = Len(v)
  PROVE  IsFiniteSet(1..Len(v)) /\ Products(v, w) \in [1..Len(v) -> Int]
<1>1. IsFiniteSet(1..Len(v))
  BY FS_Interval
<1>2. \A j \in 1..Len(v) : v[j] * w[j] \in Int
  OBVIOUS
<1> QED
  BY <1>1, <1>2 DEF Products

\* A dot product of integers is one.
LEMMA DotType ==
  ASSUME NEW v \in Seq(Int), NEW w \in Seq(Int), Len(w) = Len(v)
  PROVE  Dot(v, w) \in Int
BY ProductsType, SumIsInt DEF Dot

\* A sum of squares is not negative.
LEMMA SquareType ==
  ASSUME NEW v \in Seq(Int) PROVE Dot(v, v) \in Nat
<1>1. \A a \in Int : a * a >= 0
  OBVIOUS
<1>2. \A j \in 1..Len(v) : Products(v, v)[j] >= 0
  BY <1>1 DEF Products
<1> QED
  BY <1>2, ProductsType, SumIsNat DEF Dot

\* Where every product is multiplied by c, so is their sum.
LEMMA DotScales ==
  ASSUME NEW v \in Seq(Int), NEW w \in Seq(Int), Len(w) = Len(v),
         NEW x \in Seq(Int), NEW y \in Seq(Int), Len(x) = Len(v), Len(y) = Len(v),
         NEW c \in Int, Multiple(Products(x, y), c, Products(v, w), 1..Len(v))
  PROVE  Dot(x, y) = c * Dot(v, w)
<1>1. Products(v, w) \in [1..Len(v) -> Int] /\ Products(x, y) \in [1..Len(v) -> Int]
  BY ProductsType
<1>2. \A j \in 1..Len(v) : Products(x, y)[j] = c * Products(v, w)[j]
  BY DEF Multiple
<1>3. IsFiniteSet(1..Len(v))
  BY ProductsType
<1> QED
  BY <1>1, <1>2, <1>3, SumScales DEF Dot

\* A vector with every entry multiplied by c.
Times(c, v) == [i \in 1..Len(v) |-> c * v[i]]

\* Multiplying keeps a vector's length.
LEMMA TimesType ==
  ASSUME NEW v \in Seq(Int), NEW c \in Int
  PROVE  /\ Times(c, v) \in Seq(Int) /\ Len(Times(c, v)) = Len(v)
         /\ \A j \in 1..Len(v) : Times(c, v)[j] = c * v[j]
BY DEF Times

\* Factors move out of a product.
LEMMA TimesDot ==
  ASSUME NEW v \in Seq(Int), NEW w \in Seq(Int), Len(w) = Len(v), NEW c \in Int
  PROVE  /\ Dot(v, Times(c, w)) = c * Dot(v, w)
         /\ Dot(Times(c, v), w) = c * Dot(v, w)
<1>1. \A a, b \in Int : a * (c * b) = c * (a * b) /\ (c * a) * b = c * (a * b)
  OBVIOUS
<1>2. \A j \in 1..Len(v) : v[j] \in Int /\ w[j] \in Int
  OBVIOUS
<1>3. Multiple(Products(v, Times(c, w)), c, Products(v, w), 1..Len(v))
  BY <1>1, <1>2, TimesType DEF Multiple, Products
<1>4. Multiple(Products(Times(c, v), w), c, Products(v, w), 1..Len(v))
  BY <1>1, <1>2, TimesType DEF Multiple, Products
<1> QED
  BY <1>3, <1>4, TimesType, DotScales

\* The square of a norm grows with the square of the factor.
LEMMA TimesSquare ==
  ASSUME NEW v \in Seq(Int), NEW c \in Int
  PROVE  Dot(Times(c, v), Times(c, v)) = c * (c * Dot(v, v))
<1>1. Dot(Times(c, v), Times(c, v)) = c * Dot(Times(c, v), v)
  BY TimesType, TimesDot
<1>2. Dot(Times(c, v), v) = c * Dot(v, v)
  BY TimesDot
<1> QED
  BY <1>1, <1>2
=============================================================================
