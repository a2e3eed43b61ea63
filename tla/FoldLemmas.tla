----------------------------- MODULE FoldLemmas -----------------------------
(***************************************************************************)
(* What the folds of the community modules go through, on a sequence and   *)
(* on a finite set.  A claim about every step of a fold holds because the  *)
(* steps at which it fails would be a set of naturals, and such a set has  *)
(* a smallest element.                                                     *)
(***************************************************************************)
EXTENDS SequencesExt, FiniteSetTheorems, SequenceTheorems, WellFoundedInduction, TLAPS

\* A set of naturals that is not empty has a smallest element.
LEMMA SmallestOf ==
  ASSUME NEW S \in SUBSET Nat, S # {}
  PROVE  \E k \in S : \A l \in S : k <= l
<1>1. IsWellFoundedOn(OpToRel(<, Nat), Nat)
  BY NatLessThanWellFounded
<1>2. PICK k \in S : \A l \in S : ~ (<<l, k>> \in OpToRel(<, Nat))
  BY <1>1, WFMin
<1>3. \A l \in S : ~ (l < k)
  BY <1>2 DEF OpToRel
<1> QED BY <1>3

\* Among the places of a sequence, a set that is not empty has a largest element.
LEMMA LargestOf ==
  ASSUME NEW n \in Nat, NEW S \in SUBSET (1..n), S # {}
  PROVE  \E k \in S : \A l \in S : l <= k
<1> DEFINE T == {n - k : k \in S}
<1>1. T \in SUBSET Nat /\ T # {}
  <2>1. \A k \in S : n - k \in Nat
    OBVIOUS
  <2> QED BY <2>1
<1> HIDE DEF T
<1>2. PICK t \in T : \A u \in T : t <= u
  BY <1>1, SmallestOf
<1>3. PICK k \in S : t = n - k
  BY DEF T
<1>4. \A l \in S : l <= k
  <2> SUFFICES ASSUME NEW l \in S PROVE l <= k
    OBVIOUS
  <2>1. n - l \in T
    BY DEF T
  <2>2. n - k <= n - l
    BY <1>2, <1>3, <2>1
  <2> QED BY <2>2
<1> QED BY <1>4

\* The largest of some of the first numbers.
LEMMA MaxOf ==
  ASSUME NEW k \in Nat, NEW s \in SUBSET (1..(k + 1)), k + 1 \in s
  PROVE  Max(s) = k + 1
<1>1. \A y \in s : k + 1 >= y
  OBVIOUS
<1>2. \A x \in s : (\A y \in s : x >= y) => x = k + 1
  <2> SUFFICES ASSUME NEW x \in s, x >= k + 1 PROVE x = k + 1
    OBVIOUS
  <2> QED OBVIOUS
<1> QED BY <1>1, <1>2, Zenon DEF Max

LEMMA MaxIn == ASSUME NEW n \in Nat PROVE \A s \in SUBSET (1..n) : s # {} => Max(s) \in 1..n
<1> SUFFICES ASSUME NEW s \in SUBSET (1..n), s # {} PROVE Max(s) \in 1..n
  OBVIOUS
<1>1. \E x \in s : \A y \in s : x >= y
  BY LargestOf
<1> QED BY <1>1, Zenon DEF Max

\* What FoldLeft goes through, of the first n elements and of each set of them.
FoldedBy(g, n, base, F) ==
    \A s \in SUBSET (1..n) : g[s] = IF s = {} THEN base ELSE F[<<g[s \ {Max(s)}], Max(s)>>]
FoldedIn(h, n, B, base, F) ==
    /\ h[{}] = base
    /\ \A s \in SUBSET (1..n) : s # {} /\ h[s \ {Max(s)}] \in B => h[s] = F[<<h[s \ {Max(s)}], Max(s)>>]
StepsOf(it, n, base, F) == it[0] = base /\ \A k \in 1..n : it[k] = F[<<it[k - 1], k>>]

\* It is there.
LEMMA FoldExists ==
  ASSUME NEW n \in Nat, NEW B, NEW base \in B, NEW F \in [B \X (1..n) -> B]
  PROVE  \E g \in [SUBSET (1..n) -> B] : FoldedBy(g, n, base, F)
<1> DEFINE Good(k, g) == FoldedBy(g, k, base, F)
           Bad == {k \in 0..n : ~ \E g \in [SUBSET (1..k) -> B] : Good(k, g)}
<1>1. CASE Bad = {}
  <2>1. n \in 0..n
    OBVIOUS
  <2>2. n \notin Bad
    <3> HIDE DEF Bad
    <3> QED BY <1>1
  <2> QED BY <2>1, <2>2
<1>2. CASE Bad # {}
  <2>1. PICK k \in Bad : \A l \in Bad : k <= l
    <3>1. Bad \in SUBSET Nat
      OBVIOUS
    <3> HIDE DEF Bad
    <3> QED BY <1>2, <3>1, SmallestOf
  <2>2. k # 0
    <3> SUFFICES \E g \in [SUBSET (1..0) -> B] : Good(0, g)
      BY <2>1
    <3>1. \A s \in SUBSET (1..0) : s = {}
      OBVIOUS
    <3>2. [s \in SUBSET (1..0) |-> base] \in [SUBSET (1..0) -> B]
      OBVIOUS
    <3> QED BY <3>1, <3>2 DEF FoldedBy
  <2>3. PICK l \in Nat : k = l + 1 /\ l \in 0..n /\ l \notin Bad
    <3>1. k - 1 \in 0..n /\ k - 1 \in Nat /\ k = (k - 1) + 1
      BY <2>1, <2>2
    <3>2. k - 1 \notin Bad
      <4> HIDE DEF Bad
      <4> QED BY <2>1, <3>1
    <3> HIDE DEF Bad
    <3> QED BY <3>1, <3>2
  <2>4. PICK g \in [SUBSET (1..l) -> B] : Good(l, g)
    BY <2>3
  <2>5. k \in 1..n /\ l + 1 \in 1..n
    BY <2>1, <2>2, <2>3
  <2> DEFINE big == [s \in SUBSET (1..k) |-> IF k \in s THEN F[<<g[s \ {k}], k>>] ELSE g[s]]
  <2>6. \A s \in SUBSET (1..k) : k \notin s => s \in SUBSET (1..l)
    BY <2>3
  <2>7. \A s \in SUBSET (1..k) : s \ {k} \in SUBSET (1..l)
    BY <2>3
  <2>8. big \in [SUBSET (1..k) -> B]
    BY <2>5, <2>6, <2>7
  <2>9. \A s \in SUBSET (1..l) : s \in SUBSET (1..k) /\ k \notin s /\ big[s] = g[s]
    BY <2>3
  <2>10. ASSUME NEW s \in SUBSET (1..k) PROVE big[s] = IF s = {} THEN base ELSE F[<<big[s \ {Max(s)}], Max(s)>>]
    <3>1. CASE k \in s
      <4>1. Max(s) = k
        BY <2>3, <3>1, MaxOf
      <4>2. big[s \ {k}] = g[s \ {k}]
        BY <2>7, <2>9
      <4> QED BY <3>1, <4>1, <4>2
    <3>2. CASE k \notin s
      <4>1. s \in SUBSET (1..l) /\ s \ {Max(s)} \in SUBSET (1..l)
        BY <2>6, <3>2
      <4>2. g[s] = IF s = {} THEN base ELSE F[<<g[s \ {Max(s)}], Max(s)>>]
        BY <2>4, <4>1 DEF FoldedBy
      <4> HIDE DEF big
      <4> QED BY <2>9, <4>1, <4>2
    <3> QED BY <3>1, <3>2
  <2> HIDE DEF big
  <2>11. Good(k, big)
    BY <2>10 DEF FoldedBy
  <2> HIDE DEF Good
  <2> QED BY <2>1, <2>8, <2>11
<1> QED BY <1>1, <1>2

\* And it is what the steps make of it, one after another.
LEMMA FoldSteps ==
  ASSUME NEW n \in Nat, NEW B, NEW base \in B, NEW F \in [B \X (1..n) -> B], NEW h, FoldedIn(h, n, B, base, F)
  PROVE  \E it \in [0..n -> B] : it[n] = h[1..n] /\ StepsOf(it, n, base, F)
<1> DEFINE it == [k \in 0..n |-> h[1..k]]
<1>1. it[0] = base
  <2>1. 1..0 = {}
    OBVIOUS
  <2> QED BY <2>1 DEF FoldedIn
<1>2. ASSUME NEW k \in 1..n, it[k - 1] \in B PROVE it[k] = F[<<it[k - 1], k>>]
  <2>1. (1..k) \ {k} = 1..(k - 1) /\ k \in 1..k /\ 1..k \in SUBSET (1..n) /\ k - 1 \in 0..n /\ k \in 0..n
    OBVIOUS
  <2>2. Max(1..k) = k
    <3>1. k - 1 \in Nat /\ k = (k - 1) + 1
      OBVIOUS
    <3> DEFINE l == k - 1
    <3>2. l \in Nat /\ k = l + 1
      BY <3>1
    <3> HIDE DEF l
    <3>3. 1..k \in SUBSET (1..(l + 1)) /\ l + 1 \in 1..k
      BY <3>2
    <3> QED BY <3>2, <3>3, MaxOf
  <2>3. h[1..k] = F[<<h[(1..k) \ {Max(1..k)}], Max(1..k)>>]
    BY <1>2, <2>1, <2>2 DEF FoldedIn
  <2> QED BY <2>1, <2>2, <2>3
<1>3. \A k \in 0..n : it[k] \in B
  <2> DEFINE Bad == {k \in 0..n : it[k] \notin B}
  <2> SUFFICES ASSUME Bad # {} PROVE FALSE
    OBVIOUS
  <2>1. PICK k \in Bad : \A l \in Bad : k <= l
    <3>1. Bad \in SUBSET Nat
      OBVIOUS
    <3> HIDE DEF Bad
    <3> QED BY <3>1, SmallestOf
  <2>2. k # 0
    BY <1>1, <2>1
  <2>3. k \in 1..n /\ k - 1 \in 0..n /\ ~ (k <= k - 1)
    BY <2>1, <2>2
  <2>4. it[k - 1] \in B
    BY <2>1, <2>3
  <2>5. it[k] \in B
    <3> HIDE DEF it
    <3> QED BY <1>2, <2>3, <2>4
  <2> QED BY <2>1, <2>5
<1>4. it \in [0..n -> B] /\ it[n] = h[1..n]
  BY <1>3
<1>5. \A k \in 1..n : k - 1 \in 0..n
  OBVIOUS
<1> HIDE DEF it
<1>6. \A k \in 1..n : it[k] = F[<<it[k - 1], k>>]
  BY <1>2, <1>3, <1>5
<1>7. StepsOf(it, n, base, F)
  BY <1>1, <1>6 DEF StepsOf
<1> QED BY <1>4, <1>7

\* What each step of a fold keeps, its result has.
Keeps(I, n, F) == \A k \in 1..n : \A b \in I[k - 1] : F[<<b, k>>] \in I[k]

LEMMA FoldKeeps ==
  ASSUME NEW n \in Nat, NEW base, NEW F, NEW I, base \in I[0], Keeps(I, n, F), NEW it, StepsOf(it, n, base, F)
  PROVE  it[n] \in I[n]
<1> DEFINE Bad == {k \in 0..n : it[k] \notin I[k]}
<1>1. Bad = {}
  <2> SUFFICES ASSUME Bad # {} PROVE FALSE
    OBVIOUS
  <2>1. PICK k \in Bad : \A l \in Bad : k <= l
    <3>1. Bad \in SUBSET Nat
      OBVIOUS
    <3> HIDE DEF Bad
    <3> QED BY <3>1, SmallestOf
  <2>2. k # 0
    BY <2>1 DEF StepsOf
  <2>3. k \in 1..n /\ k - 1 \in 0..n /\ ~ (k <= k - 1)
    BY <2>1, <2>2
  <2>4. it[k - 1] \in I[k - 1]
    BY <2>1, <2>3
  <2>5. it[k] \in I[k]
    BY <2>3, <2>4 DEF StepsOf, Keeps
  <2> QED BY <2>1, <2>5
<1> QED BY <1>1

-----------------------------------------------------------------------------
(* Finite sets, an element at a time.                                      *)

AnyOf(s) == CHOOSE x \in s : TRUE

LEMMA AnyOfIsIn == \A s : s # {} => AnyOf(s) \in s
BY DEF AnyOf

\* The set without the element that is chosen in it is one of those with fewer elements.
LEMMA RestOf ==
  ASSUME NEW S, IsFiniteSet(S), NEW T \in SUBSET S, T # {}
  PROVE  /\ T \ {AnyOf(T)} \in SUBSET S
         /\ Cardinality(T) \in Nat /\ Cardinality(T \ {AnyOf(T)}) = Cardinality(T) - 1
         /\ Cardinality(T) # 0
<1>1. IsFiniteSet(T)
  BY FS_Subset
<1>2. AnyOf(T) \in T
  BY AnyOfIsIn
<1> QED BY <1>1, <1>2, FS_CardinalityType, FS_RemoveElement, FS_EmptySet

\* What the empty set has, and a set has whenever the rest of it has it, every subset has.
LEMMA SetsHave ==
  ASSUME NEW S, IsFiniteSet(S), NEW G, {} \in G,
         \A T \in SUBSET S : T # {} /\ T \ {AnyOf(T)} \in G => T \in G
  PROVE  \A T \in SUBSET S : T \in G
<1> DEFINE Bad == {Cardinality(T) : T \in {U \in SUBSET S : U \notin G}}
<1> SUFFICES ASSUME NEW T0 \in SUBSET S, T0 \notin G PROVE FALSE
  OBVIOUS
<1>1. \A T \in SUBSET S : Cardinality(T) \in Nat
  BY FS_Subset, FS_CardinalityType
<1>2. PICK k \in Bad : \A l \in Bad : k <= l
  <2>1. Bad \in SUBSET Nat /\ Bad # {}
    BY <1>1
  <2> HIDE DEF Bad
  <2> QED BY <2>1, SmallestOf
<1>3. PICK T \in SUBSET S : T \notin G /\ k = Cardinality(T)
  OBVIOUS
<1>4. T # {}
  BY <1>3
<1>5. T \ {AnyOf(T)} \in SUBSET S /\ Cardinality(T) \in Nat /\ Cardinality(T \ {AnyOf(T)}) = Cardinality(T) - 1
  BY <1>4, RestOf
<1>6. T \ {AnyOf(T)} \notin G
  BY <1>3, <1>4
<1>7. Cardinality(T) - 1 \in Bad
  BY <1>5, <1>6
<1> HIDE DEF Bad
<1> QED BY <1>2, <1>3, <1>5, <1>7

\* What a set has whenever each smaller one has it, every set has.
LEMMA SmallerSetsHave ==
  ASSUME NEW S, IsFiniteSet(S), NEW G,
         \A T \in SUBSET S : (\A U \in SUBSET T : U # T => U \in G) => T \in G
  PROVE  \A T \in SUBSET S : T \in G
<1> DEFINE Bad == {Cardinality(T) : T \in {U \in SUBSET S : U \notin G}}
<1> SUFFICES ASSUME NEW T0 \in SUBSET S, T0 \notin G PROVE FALSE
  OBVIOUS
<1>1. \A T \in SUBSET S : IsFiniteSet(T) /\ Cardinality(T) \in Nat
  BY FS_Subset, FS_CardinalityType
<1>2. PICK k \in Bad : \A l \in Bad : k <= l
  <2>1. Bad \in SUBSET Nat /\ Bad # {}
    BY <1>1
  <2> HIDE DEF Bad
  <2> QED BY <2>1, SmallestOf
<1>3. PICK T \in SUBSET S : T \notin G /\ k = Cardinality(T)
  OBVIOUS
<1>4. PICK U \in SUBSET T : U # T /\ U \notin G
  BY <1>3
<1>5. Cardinality(U) < Cardinality(T)
  BY <1>1, <1>4, FS_Subset, FS_CardinalityType
<1>6. Cardinality(U) \in Bad
  BY <1>4
<1> HIDE DEF Bad
<1> QED BY <1>1, <1>2, <1>3, <1>5, <1>6

\* What a fold over a finite set goes through.
SetFoldedBy(g, S, base, F) ==
    \A T \in SUBSET S : g[T] = IF T = {} THEN base ELSE F[<<AnyOf(T), g[T \ {AnyOf(T)}]>>]

LEMMA SetFoldExists ==
  ASSUME NEW S, IsFiniteSet(S), NEW B, NEW base \in B, NEW F \in [S \X B -> B]
  PROVE  \E g \in [SUBSET S -> B] : SetFoldedBy(g, S, base, F)
<1> DEFINE Put(g, T) == IF T = {} THEN base ELSE F[<<AnyOf(T), g[T \ {AnyOf(T)}]>>]
           Good(k, g) == \A T \in SUBSET S : Cardinality(T) <= k => g[T] = Put(g, T)
           Bad == {k \in 0..Cardinality(S) : ~ \E g \in [SUBSET S -> B] : Good(k, g)}
           Next1(g) == [T \in SUBSET S |-> Put(g, T)]
<1>1. \A T \in SUBSET S : Cardinality(T) \in Nat /\ Cardinality(T) <= Cardinality(S)
  BY FS_Subset, FS_CardinalityType
<1>2. Cardinality(S) \in Nat
  BY FS_CardinalityType
<1>3. ASSUME NEW g \in [SUBSET S -> B] PROVE Next1(g) \in [SUBSET S -> B]
  <2> SUFFICES ASSUME NEW T \in SUBSET S PROVE Put(g, T) \in B
    OBVIOUS
  <2>1. T # {} => AnyOf(T) \in S /\ T \ {AnyOf(T)} \in SUBSET S
    BY AnyOfIsIn
  <2> QED BY <2>1
<1>4. ASSUME NEW g \in [SUBSET S -> B], NEW k \in Nat, Good(k, g) PROVE Good(k + 1, Next1(g))
  <2> SUFFICES ASSUME NEW T \in SUBSET S, Cardinality(T) <= k + 1 PROVE Next1(g)[T] = Put(Next1(g), T)
    OBVIOUS
  <2>1. CASE T = {}
    BY <2>1
  <2>2. CASE T # {}
    <3>1. T \ {AnyOf(T)} \in SUBSET S /\ Cardinality(T \ {AnyOf(T)}) <= k
      <4>1. T \ {AnyOf(T)} \in SUBSET S /\ Cardinality(T) \in Nat /\ Cardinality(T \ {AnyOf(T)}) = Cardinality(T) - 1
        BY <2>2, RestOf
      <4> QED BY <4>1
    <3>2. g[T \ {AnyOf(T)}] = Next1(g)[T \ {AnyOf(T)}]
      BY <1>4, <3>1
    <3>3. Next1(g)[T] = Put(g, T)
      OBVIOUS
    <3>4. Put(g, T) = Put(Next1(g), T)
      <4> HIDE DEF Next1
      <4> QED BY <3>2
    <3> QED BY <3>3, <3>4
  <2> QED BY <2>1, <2>2
<1>5. \E g \in [SUBSET S -> B] : Good(0, g)
  <2> DEFINE g0 == [T \in SUBSET S |-> base]
  <2>1. g0 \in [SUBSET S -> B]
    OBVIOUS
  <2>2. \A T \in SUBSET S : Cardinality(T) <= 0 => T = {}
    BY <1>1, FS_Subset, FS_EmptySet
  <2>3. Good(0, g0)
    BY <2>2
  <2> HIDE DEF g0, Good
  <2> QED BY <2>1, <2>3
<1> HIDE DEF Next1
<1>6. Bad = {}
  <2> SUFFICES ASSUME Bad # {} PROVE FALSE
    OBVIOUS
  <2>1. PICK k \in Bad : \A l \in Bad : k <= l
    <3>1. Bad \in SUBSET Nat
      BY <1>2
    <3> HIDE DEF Bad
    <3> QED BY <3>1, SmallestOf
  <2> HIDE DEF Good
  <2>2. k \in 0..Cardinality(S) /\ k # 0
    BY <1>5, <2>1
  <2>3. k - 1 \in Nat /\ k - 1 \in 0..Cardinality(S) /\ ~ (k <= k - 1) /\ (k - 1) + 1 = k
    BY <1>2, <2>2
  <2>4. PICK g \in [SUBSET S -> B] : Good(k - 1, g)
    <3>1. k - 1 \notin Bad
      <4> HIDE DEF Bad
      <4> QED BY <2>1, <2>3
    <3> QED BY <2>3, <3>1
  <2>5. Good(k, Next1(g)) /\ Next1(g) \in [SUBSET S -> B]
    BY <1>3, <1>4, <2>3, <2>4
  <2> QED BY <2>1, <2>5
<1>7. PICK g \in [SUBSET S -> B] : Good(Cardinality(S), g)
  <2>1. Cardinality(S) \in 0..Cardinality(S) /\ Cardinality(S) \notin Bad
    <3> HIDE DEF Bad
    <3> QED BY <1>2, <1>6
  <2> HIDE DEF Good
  <2> QED BY <2>1
<1> QED BY <1>1, <1>7 DEF SetFoldedBy

\* The sum of the values of a function.
SumOver(f) == FoldFunction(+, 0, f)
SumsOf(g, f, S) == g[{}] = 0 /\ \A T \in SUBSET S : T # {} => g[T] = f[AnyOf(T)] + g[T \ {AnyOf(T)}]

LEMMA TotalSteps ==
  ASSUME NEW S, IsFiniteSet(S), NEW f \in [S -> Int]
  PROVE  \E g \in [SUBSET S -> Int] : g[S] = SumOver(f) /\ SumsOf(g, f, S)
<1> DEFINE F == [x \in S \X Int |-> f[x[1]] + x[2]]
           h == CHOOSE g : g = [s \in SUBSET S |-> IF s = {} THEN 0 ELSE f[AnyOf(s)] + g[s \ {AnyOf(s)}]]
<1>1. SumOver(f) = h[S]
  <2>1. SumOver(f) = LET iter[s \in SUBSET DOMAIN f] ==
                                      IF s = {} THEN 0 ELSE f[AnyOf(s)] + iter[s \ {AnyOf(s)}]
                                IN  iter[DOMAIN f]
    BY Zenon DEF SumOver, FoldFunction, FoldFunctionOnSet, MapThenFoldSet, AnyOf
  <2>2. DOMAIN f = S
    OBVIOUS
  <2> QED BY <2>1, <2>2
<1>2. F \in [S \X Int -> Int]
  OBVIOUS
<1>3. PICK g \in [SUBSET S -> Int] : SetFoldedBy(g, S, 0, F)
  <2> HIDE DEF F
  <2>1. 0 \in Int
    OBVIOUS
  <2> QED BY <1>2, <2>1, SetFoldExists
<1>4. ASSUME NEW T \in SUBSET S, T # {} PROVE g[T] = f[AnyOf(T)] + g[T \ {AnyOf(T)}]
  <2>1. AnyOf(T) \in S /\ T \ {AnyOf(T)} \in SUBSET S
    BY <1>4, AnyOfIsIn
  <2>2. g[T] = F[<<AnyOf(T), g[T \ {AnyOf(T)}]>>]
    BY <1>3, <1>4 DEF SetFoldedBy
  <2> QED BY <2>1, <2>2
<1>5. g[{}] = 0
  BY <1>3 DEF SetFoldedBy
<1>6. g = [s \in SUBSET S |-> IF s = {} THEN 0 ELSE f[AnyOf(s)] + g[s \ {AnyOf(s)}]]
  BY <1>4, <1>5
<1>7. h = [s \in SUBSET S |-> IF s = {} THEN 0 ELSE f[AnyOf(s)] + h[s \ {AnyOf(s)}]]
  BY <1>6
<1> HIDE DEF h
<1>8. \A T \in SUBSET S : T \in {U \in SUBSET S : h[U] = g[U]}
  <2> DEFINE G == {U \in SUBSET S : h[U] = g[U]}
  <2>1. {} \in G
    BY <1>5, <1>7
  <2>2. ASSUME NEW T \in SUBSET S, T # {}, T \ {AnyOf(T)} \in G PROVE T \in G
    BY <1>4, <1>7, <2>2
  <2> HIDE DEF G
  <2>3. \A T \in SUBSET S : T \in G
    BY <2>1, <2>2, SetsHave
  <2> QED BY <2>3 DEF G
<1>9. g[S] = h[S]
  BY <1>8
<1> QED BY <1>1, <1>4, <1>5, <1>9 DEF SumsOf

\* Sums whose terms compare, compare.
LEMMA TotalsCompare ==
  ASSUME NEW S, IsFiniteSet(S), NEW f \in [S -> Int], NEW g \in [S -> Int], \A k \in S : f[k] <= g[k]
  PROVE  /\ SumOver(f) \in Int /\ SumOver(g) \in Int
         /\ SumOver(f) <= SumOver(g)
<1>1. PICK a \in [SUBSET S -> Int] : a[S] = SumOver(f) /\ SumsOf(a, f, S)
  BY TotalSteps
<1>2. PICK b \in [SUBSET S -> Int] : b[S] = SumOver(g) /\ SumsOf(b, g, S)
  BY TotalSteps
<1> DEFINE G == {T \in SUBSET S : a[T] <= b[T]}
<1>3. {} \in G
  <2>1. a[{}] = 0 /\ b[{}] = 0
    BY <1>1, <1>2 DEF SumsOf
  <2> QED BY <2>1
<1>4. ASSUME NEW T \in SUBSET S, T # {}, T \ {AnyOf(T)} \in G PROVE T \in G
  <2>1. AnyOf(T) \in S
    BY <1>4, AnyOfIsIn
  <2>2. a[T] = f[AnyOf(T)] + a[T \ {AnyOf(T)}] /\ b[T] = g[AnyOf(T)] + b[T \ {AnyOf(T)}]
    BY <1>1, <1>2, <1>4 DEF SumsOf
  <2>3. f[AnyOf(T)] <= g[AnyOf(T)] /\ a[T \ {AnyOf(T)}] <= b[T \ {AnyOf(T)}]
    BY <1>4, <2>1
  <2>4. f[AnyOf(T)] \in Int /\ g[AnyOf(T)] \in Int /\ a[T \ {AnyOf(T)}] \in Int /\ b[T \ {AnyOf(T)}] \in Int
    BY <1>4, <2>1
  <2>5. a[T] <= b[T]
    BY <2>2, <2>3, <2>4
  <2> QED BY <2>5
<1> HIDE DEF G
<1>5. S \in G
  <2>1. S \in SUBSET S
    OBVIOUS
  <2> QED BY <1>3, <1>4, <2>1, SetsHave
<1>6. a[S] \in Int /\ b[S] \in Int
  OBVIOUS
<1> QED BY <1>1, <1>2, <1>5, <1>6 DEF G

\* A sum whose terms are multiples is a multiple.
LEMMA TotalOfMultiples ==
  ASSUME NEW S, IsFiniteSet(S), NEW f \in [S -> Int], NEW c \in Int, NEW g \in [S -> Int], \A k \in S : g[k] = c * f[k]
  PROVE  SumOver(g) = c * SumOver(f) /\ SumOver(f) \in Int
<1>1. PICK a \in [SUBSET S -> Int] : a[S] = SumOver(f) /\ SumsOf(a, f, S)
  BY TotalSteps
<1>2. PICK b \in [SUBSET S -> Int] : b[S] = SumOver(g) /\ SumsOf(b, g, S)
  BY TotalSteps
<1> DEFINE G == {T \in SUBSET S : b[T] = c * a[T]}
<1>3. {} \in G
  <2>1. a[{}] = 0 /\ b[{}] = 0
    BY <1>1, <1>2 DEF SumsOf
  <2>2. c * 0 = 0
    OBVIOUS
  <2> QED BY <2>1, <2>2
<1>4. ASSUME NEW T \in SUBSET S, T # {}, T \ {AnyOf(T)} \in G PROVE T \in G
  <2> DEFINE x == f[AnyOf(T)]
             y == a[T \ {AnyOf(T)}]
  <2>1. AnyOf(T) \in S
    BY <1>4, AnyOfIsIn
  <2>2. a[T] = x + y /\ b[T] = c * x + c * y
    BY <1>1, <1>2, <1>4, <2>1 DEF SumsOf
  <2>3. x \in Int /\ y \in Int
    BY <1>4, <2>1
  <2> HIDE DEF x, y
  <2>4. c * (x + y) = c * x + c * y
    BY <2>3
  <2> QED BY <2>2, <2>4
<1> HIDE DEF G
<1>5. S \in G
  <2>1. S \in SUBSET S
    OBVIOUS
  <2> QED BY <1>3, <1>4, <2>1, SetsHave
<1>6. a[S] \in Int /\ b[S] \in Int
  OBVIOUS
<1> QED BY <1>1, <1>2, <1>5, <1>6 DEF G

\* A sum of positive terms is positive.
LEMMA TotalIsPositive ==
  ASSUME NEW S, IsFiniteSet(S), S # {}, NEW f \in [S -> Int], \A k \in S : f[k] > 0
  PROVE  SumOver(f) \in Int /\ SumOver(f) > 0
<1>1. PICK a \in [SUBSET S -> Int] : a[S] = SumOver(f) /\ SumsOf(a, f, S)
  BY TotalSteps
<1> DEFINE G == {T \in SUBSET S : a[T] >= 0 /\ (T # {} => a[T] > 0)}
<1>2. {} \in G
  <2>1. a[{}] = 0
    BY <1>1 DEF SumsOf
  <2> QED BY <2>1
<1>3. ASSUME NEW T \in SUBSET S, T # {}, T \ {AnyOf(T)} \in G PROVE T \in G
  <2>1. AnyOf(T) \in S
    BY <1>3, AnyOfIsIn
  <2>2. a[T] = f[AnyOf(T)] + a[T \ {AnyOf(T)}]
    BY <1>1, <1>3 DEF SumsOf
  <2>3. f[AnyOf(T)] \in Int /\ f[AnyOf(T)] > 0 /\ a[T \ {AnyOf(T)}] \in Int /\ a[T \ {AnyOf(T)}] >= 0
    BY <1>3, <2>1
  <2>4. a[T] > 0 /\ a[T] >= 0
    BY <2>2, <2>3
  <2> QED BY <2>4
<1> HIDE DEF G
<1>4. S \in G
  <2>1. S \in SUBSET S
    OBVIOUS
  <2> QED BY <1>2, <1>3, <2>1, SetsHave
<1>5. a[S] \in Int
  OBVIOUS
<1> QED BY <1>1, <1>4, <1>5 DEF G

\* A sum of naturals is a natural.
LEMMA TotalIsNat ==
  ASSUME NEW S, IsFiniteSet(S), NEW f \in [S -> Nat]
  PROVE  SumOver(f) \in Nat
<1>0. f \in [S -> Int]
  OBVIOUS
<1>1. PICK a \in [SUBSET S -> Int] : a[S] = SumOver(f) /\ SumsOf(a, f, S)
  BY <1>0, TotalSteps
<1> DEFINE G == {T \in SUBSET S : a[T] \in Nat}
<1>2. {} \in G
  <2>1. a[{}] = 0
    BY <1>1 DEF SumsOf
  <2> QED BY <2>1
<1>3. ASSUME NEW T \in SUBSET S, T # {}, T \ {AnyOf(T)} \in G PROVE T \in G
  <2>1. AnyOf(T) \in S
    BY <1>3, AnyOfIsIn
  <2>2. a[T] = f[AnyOf(T)] + a[T \ {AnyOf(T)}]
    BY <1>1, <1>3 DEF SumsOf
  <2>3. f[AnyOf(T)] \in Nat /\ a[T \ {AnyOf(T)}] \in Nat
    BY <1>3, <2>1
  <2> QED BY <2>2, <2>3
<1> HIDE DEF G
<1>4. S \in G
  <2>1. S \in SUBSET S
    OBVIOUS
  <2> QED BY <1>2, <1>3, <2>1, SetsHave
<1> QED BY <1>1, <1>4 DEF G

\* A sum does not depend on the order of its terms.
InAnyOrder(a, f, S) == \A T \in SUBSET S : \A x \in T : a[T] = f[x] + a[T \ {x}]

LEMMA AnyTermFirst ==
  ASSUME NEW S, IsFiniteSet(S), NEW f \in [S -> Int], NEW a \in [SUBSET S -> Int], SumsOf(a, f, S)
  PROVE  InAnyOrder(a, f, S)
<1> DEFINE G == {T \in SUBSET S : \A x \in T : a[T] = f[x] + a[T \ {x}]}
<1>1. ASSUME NEW T \in SUBSET S, \A U \in SUBSET T : U # T => U \in G PROVE T \in G
  <2> SUFFICES ASSUME NEW x \in T PROVE a[T] = f[x] + a[T \ {x}]
    OBVIOUS
  <2> DEFINE y == AnyOf(T)
             R == T \ {x, y}
  <2>1. y \in T /\ y \in S /\ x \in S
    BY AnyOfIsIn
  <2>2. a[T] = f[y] + a[T \ {y}]
    BY DEF SumsOf
  <2>3. CASE x = y
    BY <2>2, <2>3
  <2>4. CASE x # y
    <3> HIDE DEF y
    <3>1. T \ {y} \in G /\ T \ {x} \in G
      BY <1>1, <2>1
    <3>2. x \in T \ {y} /\ y \in T \ {x} /\ (T \ {y}) \ {x} = R /\ (T \ {x}) \ {y} = R
      BY <2>1, <2>4
    <3> HIDE DEF R
    <3>3. a[T \ {y}] = f[x] + a[R] /\ a[T \ {x}] = f[y] + a[R]
      BY <3>1, <3>2
    <3>4. R \in SUBSET S
      BY DEF R
    <3>5. f[x] \in Int /\ f[y] \in Int /\ a[R] \in Int
      BY <2>1, <3>4
    <3> QED BY <2>2, <3>3, <3>5
  <2> QED BY <2>3, <2>4
<1> HIDE DEF G
<1>2. \A T \in SUBSET S : T \in G
  BY <1>1, SmallerSetsHave
<1> QED BY <1>2 DEF G, InAnyOrder

PartOf(f, T) == [k \in T |-> f[k]]

\* The sums over the subsets are those of the parts of the function.
LEMMA SumsOfParts ==
  ASSUME NEW S, IsFiniteSet(S), NEW f \in [S -> Int], NEW a \in [SUBSET S -> Int], SumsOf(a, f, S),
         NEW T \in SUBSET S
  PROVE  a[T] = SumOver(PartOf(f, T)) /\ a[T] \in Int
<1> DEFINE g == PartOf(f, T)
<1>1. IsFiniteSet(T)
  BY FS_Subset
<1>2. g \in [T -> Int] /\ \A k \in T : g[k] = f[k]
  BY DEF PartOf
<1> HIDE DEF g
<1>3. PICK b \in [SUBSET T -> Int] : b[T] = SumOver(g) /\ SumsOf(b, g, T)
  BY <1>1, <1>2, TotalSteps
<1> DEFINE G == {U \in SUBSET T : a[U] = b[U]}
<1>4. {} \in G
  BY <1>3 DEF SumsOf
<1>5. ASSUME NEW U \in SUBSET T, U # {}, U \ {AnyOf(U)} \in G PROVE U \in G
  <2>1. AnyOf(U) \in T /\ U \in SUBSET S
    BY <1>5, AnyOfIsIn
  <2>2. a[U] = f[AnyOf(U)] + a[U \ {AnyOf(U)}] /\ b[U] = g[AnyOf(U)] + b[U \ {AnyOf(U)}]
    BY <1>3, <1>5, <2>1 DEF SumsOf
  <2> QED BY <1>2, <1>5, <2>1, <2>2
<1> HIDE DEF G
<1>6. T \in G
  <2>1. T \in SUBSET T
    OBVIOUS
  <2> QED BY <1>1, <1>4, <1>5, <2>1, SetsHave
<1> QED BY <1>3, <1>6 DEF G, g

\* A sum is a term of it and the sum of the others.
LEMMA TotalWithout ==
  ASSUME NEW S, IsFiniteSet(S), NEW f \in [S -> Int], NEW c \in S
  PROVE  /\ SumOver(f) = f[c] + SumOver(PartOf(f, S \ {c}))
         /\ SumOver(PartOf(f, S \ {c})) \in Int
<1>1. PICK a \in [SUBSET S -> Int] : a[S] = SumOver(f) /\ SumsOf(a, f, S)
  BY TotalSteps
<1>2. S \in SUBSET S /\ S \ {c} \in SUBSET S
  OBVIOUS
<1>3. a[S] = f[c] + a[S \ {c}]
  <2>1. InAnyOrder(a, f, S)
    BY <1>1, AnyTermFirst
  <2> QED BY <1>2, <2>1 DEF InAnyOrder
<1>4. a[S \ {c}] = SumOver(PartOf(f, S \ {c})) /\ a[S \ {c}] \in Int
  BY <1>1, <1>2, SumsOfParts
<1> QED BY <1>1, <1>3, <1>4

\* A term that changes changes the sum by as much.
LEMMA TotalMoves ==
  ASSUME NEW S, IsFiniteSet(S), NEW f \in [S -> Int], NEW g \in [S -> Int], NEW c \in S,
         \A k \in S : k # c => g[k] = f[k]
  PROVE  SumOver(g) = SumOver(f) + (g[c] - f[c]) /\ SumOver(f) \in Int
<1> DEFINE R == S \ {c}
<1>1. PartOf(f, R) = PartOf(g, R)
  BY DEF PartOf
<1>2. SumOver(f) = f[c] + SumOver(PartOf(f, R)) /\ SumOver(PartOf(f, R)) \in Int
  BY TotalWithout
<1>3. SumOver(g) = g[c] + SumOver(PartOf(g, R))
  BY TotalWithout
<1>4. f[c] \in Int /\ g[c] \in Int
  OBVIOUS
<1> HIDE DEF R
<1> QED BY <1>1, <1>2, <1>3, <1>4

\* The sum over two sets that share nothing.
LEMMA TotalOfUnion ==
  ASSUME NEW A, NEW B, IsFiniteSet(A), IsFiniteSet(B), A \cap B = {}, NEW f \in [A \cup B -> Int]
  PROVE  /\ SumOver(f) = SumOver(PartOf(f, A)) + SumOver(PartOf(f, B))
         /\ SumOver(PartOf(f, A)) \in Int /\ SumOver(PartOf(f, B)) \in Int
<1> DEFINE S == A \cup B
<1>1. IsFiniteSet(S)
  BY FS_Union
<1>2. f \in [S -> Int]
  OBVIOUS
<1>3. A \in SUBSET S /\ B \in SUBSET S /\ \A U \in SUBSET B : A \cup U \in SUBSET S /\ U \in SUBSET S
  OBVIOUS
<1>4. PICK a \in [SUBSET S -> Int] : a[S] = SumOver(f) /\ SumsOf(a, f, S)
  BY <1>1, <1>2, TotalSteps
<1> HIDE DEF S
<1>5. InAnyOrder(a, f, S)
  BY <1>1, <1>2, <1>4, AnyTermFirst
<1> DEFINE G == {U \in SUBSET B : a[A \cup U] = a[A] + a[U]}
<1>6. {} \in G
  <2>1. a[{}] = 0 /\ A \cup {} = A /\ a[A] \in Int
    BY <1>3, <1>4 DEF SumsOf
  <2> QED BY <2>1
<1>7. ASSUME NEW U \in SUBSET B, U # {}, U \ {AnyOf(U)} \in G PROVE U \in G
  <2> DEFINE y == AnyOf(U)
             V == U \ {y}
  <2>1. y \in U /\ y \in A \cup U /\ y \in S /\ (A \cup U) \ {y} = A \cup V
    BY <1>7, AnyOfIsIn DEF S
  <2> HIDE DEF y
  <2>2. A \cup U \in SUBSET S /\ U \in SUBSET S /\ V \in SUBSET S /\ A \cup V \in SUBSET S
    BY <1>3
  <2>3. a[A \cup U] = f[y] + a[A \cup V] /\ a[U] = f[y] + a[V]
    <3>1. a[A \cup U] = f[y] + a[(A \cup U) \ {y}]
      BY <1>5, <2>1, <2>2 DEF InAnyOrder
    <3>2. a[U] = f[y] + a[U \ {y}]
      BY <1>5, <2>1, <2>2 DEF InAnyOrder
    <3> QED BY <2>1, <3>1, <3>2
  <2>4. a[A \cup V] = a[A] + a[V]
    BY <1>7 DEF y
  <2>5. f[y] \in Int /\ a[A] \in Int /\ a[V] \in Int
    BY <1>2, <1>3, <2>1, <2>2
  <2> QED BY <2>3, <2>4, <2>5
<1> HIDE DEF G
<1>8. B \in G
  <2>1. B \in SUBSET B
    OBVIOUS
  <2> QED BY <1>6, <1>7, <2>1, SetsHave
<1>9. a[S] = a[A] + a[B]
  BY <1>8 DEF G, S
<1>10. /\ a[A] = SumOver(PartOf(f, A)) /\ a[A] \in Int
      /\ a[B] = SumOver(PartOf(f, B)) /\ a[B] \in Int
  BY <1>1, <1>2, <1>3, <1>4, SumsOfParts
<1> QED BY <1>4, <1>9, <1>10 DEF S

\* The sum of terms that are all m.
LEMMA TotalOfSame ==
  ASSUME NEW S, IsFiniteSet(S), NEW m \in Int, NEW f \in [S -> Int], \A k \in S : f[k] = m
  PROVE  SumOver(f) = m * Cardinality(S)
<1>1. PICK a \in [SUBSET S -> Int] : a[S] = SumOver(f) /\ SumsOf(a, f, S)
  BY TotalSteps
<1> DEFINE G == {T \in SUBSET S : a[T] = m * Cardinality(T)}
<1>2. {} \in G
  <2>1. a[{}] = 0 /\ Cardinality({}) = 0 /\ m * 0 = 0
    BY <1>1, FS_EmptySet DEF SumsOf
  <2> QED BY <2>1
<1>3. ASSUME NEW T \in SUBSET S, T # {}, T \ {AnyOf(T)} \in G PROVE T \in G
  <2> DEFINE n == Cardinality(T)
  <2>1. n \in Nat /\ Cardinality(T \ {AnyOf(T)}) = n - 1
    BY <1>3, RestOf
  <2>2. AnyOf(T) \in S
    BY <1>3, AnyOfIsIn
  <2>3. a[T] = m + m * (n - 1)
    BY <1>1, <1>3, <2>1, <2>2 DEF SumsOf
  <2> HIDE DEF n
  <2>4. m + m * (n - 1) = m * n
    BY <2>1
  <2> QED BY <2>3, <2>4 DEF n
<1> HIDE DEF G
<1>4. S \in G
  <2>1. S \in SUBSET S
    OBVIOUS
  <2> QED BY <1>2, <1>3, <2>1, SetsHave
<1> QED BY <1>1, <1>4 DEF G

\* A finite set of integers that is not empty has a largest and a smallest element.
LEMMA ExtremaOf ==
  ASSUME NEW S, IsFiniteSet(S), S \in SUBSET Int, S # {}
  PROVE  /\ Max(S) \in S /\ \A x \in S : x <= Max(S)
         /\ Min(S) \in S /\ \A x \in S : Min(S) <= x
<1> DEFINE Top(T) == \E x \in T : \A y \in T : x >= y
           Bottom(T) == \E x \in T : \A y \in T : x <= y
           G == {T \in SUBSET S : T # {} => Top(T) /\ Bottom(T)}
<1>1. {} \in G
  OBVIOUS
<1>2. ASSUME NEW T \in SUBSET S, T # {}, T \ {AnyOf(T)} \in G PROVE T \in G
  <2> DEFINE a == AnyOf(T)
             R == T \ {a}
  <2>1. a \in T /\ a \in Int /\ T = R \cup {a}
    BY <1>2, AnyOfIsIn
  <2>2. CASE R = {}
    <3>1. T = {a}
      BY <2>1, <2>2
    <3> QED BY <2>1, <3>1
  <2>3. CASE R # {}
    <3>1. PICK t \in R : \A y \in R : t >= y
      BY <1>2, <2>3
    <3>2. PICK b \in R : \A y \in R : b <= y
      BY <1>2, <2>3
    <3>3. R \subseteq Int
      OBVIOUS
    <3> HIDE DEF a, R
    <3>4. Top(T)
      <4>1. CASE a >= t
        BY <2>1, <3>1, <3>3, <4>1
      <4>2. CASE ~ a >= t
        BY <2>1, <3>1, <3>3, <4>2
      <4> QED BY <4>1, <4>2
    <3>5. Bottom(T)
      <4>1. CASE a <= b
        BY <2>1, <3>2, <3>3, <4>1
      <4>2. CASE ~ a <= b
        BY <2>1, <3>2, <3>3, <4>2
      <4> QED BY <4>1, <4>2
    <3> QED BY <3>4, <3>5
  <2> QED BY <2>2, <2>3
<1>3. S \in G
  <2> HIDE DEF G
  <2>1. S \in SUBSET S
    OBVIOUS
  <2> QED BY <1>1, <1>2, <2>1, SetsHave
<1>4. Top(S) /\ Bottom(S)
  BY <1>3
<1> HIDE DEF G
<1>5. PICK t \in S : \A y \in S : t >= y
  BY <1>4
<1>6. PICK b \in S : \A y \in S : b <= y
  BY <1>4
<1>7. Max(S) \in S /\ \A y \in S : Max(S) >= y
  BY <1>5, Zenon DEF Max
<1>8. Min(S) \in S /\ \A y \in S : Min(S) <= y
  BY <1>6, Zenon DEF Min
<1> HIDE DEF Top, Bottom
<1>9. Max(S) \in Int
  BY <1>7
<1> QED BY <1>7, <1>8, <1>9

\* The values of a function on a finite set.
LEMMA ValuesFinite ==
  ASSUME NEW S, IsFiniteSet(S), NEW f, DOMAIN f = S
  PROVE  IsFiniteSet({f[k] : k \in S})
<1> DEFINE T == {f[k] : k \in S}
           h == [k \in S |-> f[k]]
<1>1. h \in Surjection(S, T)
  BY DEF Surjection
<1> HIDE DEF h, T
<1>2. IsFiniteSet(T)
  BY <1>1, FS_Surjection
<1> QED BY <1>2 DEF T
=============================================================================
