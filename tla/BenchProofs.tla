---------------------------- MODULE BenchProofs ----------------------------
(***************************************************************************)
(* What the two benches measure (Bench), for any corpus, grid, chain of    *)
(* providers, command line and permits, whatever the LLM answers and in    *)
(* whatever order.                                                         *)
(***************************************************************************)
EXTENDS Projects, AnalysisProofs, WorkspaceProofs

-----------------------------------------------------------------------------
(* Rates.                                                                  *)

\* round() keeps the order of two fractions, whatever their denominators.
LEMMA RoundRatios ==
  ASSUME NEW a \in Int, NEW b \in Nat \ {0}, NEW c \in Int, NEW d \in Nat \ {0}, a * d <= c * b
  PROVE  RoundHalfEven(a, b) <= RoundHalfEven(c, d)
<1> DEFINE q == a \div b
           e == a % b
           p == c \div d
           r == c % d
<1>1. q \in Int /\ e \in 0..(b - 1) /\ a = b * q + e
  OBVIOUS
<1>2. p \in Int /\ r \in 0..(d - 1) /\ c = d * p + r
  OBVIOUS
<1>3. /\ RoundHalfEven(a, b) = IF 2 * e < b \/ (2 * e = b /\ q % 2 = 0) THEN q ELSE q + 1
      /\ RoundHalfEven(c, d) = IF 2 * r < d \/ (2 * r = d /\ p % 2 = 0) THEN p ELSE p + 1
  BY DEF RoundHalfEven
<1> HIDE DEF q, e, p, r
<1> DEFINE bd == b * d
           ed == e * d
           rb == r * b
           bdq == bd * q
           bdp == bd * p
<1>4. bd \in Nat \ {0} /\ ed \in Nat /\ rb \in Nat
  BY <1>1, <1>2
<1>5. ed < bd /\ rb < bd
  <2>1. e <= b - 1 /\ r <= d - 1
    BY <1>1, <1>2
  <2>2. e * d <= (b - 1) * d /\ (b - 1) * d = b * d - d
    BY <1>1, <2>1
  <2>3. r * b <= (d - 1) * b /\ (d - 1) * b = b * d - b
    BY <1>2, <2>1
  <2> QED BY <1>1, <1>2, <2>2, <2>3
<1>6. a * d = bdq + ed /\ c * b = bdp + rb
  <2>1. (b * q + e) * d = (b * d) * q + e * d
    BY <1>1
  <2>2. (d * p + r) * b = (b * d) * p + r * b
    BY <1>2
  <2> QED BY <1>1, <1>2, <2>1, <2>2
<1>7. bdq + ed <= bdp + rb /\ bdq \in Int /\ bdp \in Int
  BY <1>1, <1>2, <1>4, <1>6
<1>8. q <= p
  <2>1. SUFFICES ASSUME p + 1 <= q PROVE FALSE
    BY <1>1, <1>2
  <2>2. bd * (p + 1) <= bd * q
    BY <1>1, <1>2, <1>4, <2>1
  <2>3. bd * (p + 1) = bdp + bd
    BY <1>2, <1>4
  <2> HIDE DEF bd, ed, rb
  <2> QED BY <1>4, <1>5, <1>7, <2>2, <2>3
<1>9. CASE q < p
  BY <1>1, <1>2, <1>3, <1>9
<1>10. CASE q = p
  <2>1. bdq = bdp
    BY <1>10
  <2>2. ed <= rb
    <3> HIDE DEF bd, ed, rb, bdq, bdp
    <3> QED BY <1>4, <1>7, <2>1
  \* What is above a half on the left is so on the right.
  <2>3. 2 * e >= b => 2 * r >= d
    <3>1. SUFFICES ASSUME 2 * e >= b, 2 * r <= d - 1 PROVE FALSE
      BY <1>1, <1>2
    <3>2. b * d <= (2 * e) * d /\ (2 * e) * d = 2 * ed
      BY <1>1, <3>1
    <3>3. (2 * r) * b <= (d - 1) * b /\ (2 * r) * b = 2 * rb /\ (d - 1) * b = bd - b
      BY <1>2, <3>1
    <3>4. bd <= 2 * ed
      BY <3>2
    <3> HIDE DEF bd, ed, rb
    <3> QED BY <1>4, <2>2, <3>3, <3>4
  <2>4. 2 * e > b => 2 * r > d
    <3>1. SUFFICES ASSUME 2 * e >= b + 1, 2 * r <= d PROVE FALSE
      BY <1>1, <1>2
    <3>2. (b + 1) * d <= (2 * e) * d /\ (2 * e) * d = 2 * ed /\ (b + 1) * d = bd + d
      BY <1>1, <3>1
    <3>3. (2 * r) * b <= d * b /\ (2 * r) * b = 2 * rb /\ d * b = bd
      BY <1>2, <3>1
    <3> HIDE DEF bd, ed, rb
    <3> QED BY <1>4, <2>2, <3>2, <3>3
  <2> QED BY <1>1, <1>2, <1>3, <1>10, <2>3, <2>4
<1> QED BY <1>1, <1>2, <1>8, <1>9, <1>10

\* A whole that is made of three parts has more of what is counted than the whole share in one of
\* them, or the same in each; and less in another.
Share(u, n, U, N) == u * N <= U * n
LEMMA OneIsBelow ==
  ASSUME NEW u1 \in Nat, NEW u2 \in Nat, NEW u3 \in Nat, NEW n1 \in Nat, NEW n2 \in Nat, NEW n3 \in Nat,
         n1 + n2 + n3 > 0, n1 = 0 => u1 = 0, n2 = 0 => u2 = 0, n3 = 0 => u3 = 0
  PROVE  LET U == u1 + u2 + u3
             N == n1 + n2 + n3 IN
         \/ n1 > 0 /\ Share(u1, n1, U, N)
         \/ n2 > 0 /\ Share(u2, n2, U, N)
         \/ n3 > 0 /\ Share(u3, n3, U, N)
<1> DEFINE U == u1 + u2 + u3
           N == n1 + n2 + n3
<1>1. U \in Nat /\ N \in Nat /\ N = n1 + n2 + n3 /\ U = u1 + u2 + u3 /\ N > 0
  OBVIOUS
<1> HIDE DEF U, N
<1>2. U * N = u1 * N + u2 * N + u3 * N /\ U * N = U * n1 + U * n2 + U * n3
  BY <1>1
<1> DEFINE x1 == u1 * N
           x2 == u2 * N
           x3 == u3 * N
           y1 == U * n1
           y2 == U * n2
           y3 == U * n3
<1>3. x1 \in Int /\ x2 \in Int /\ x3 \in Int /\ y1 \in Int /\ y2 \in Int /\ y3 \in Int
  BY <1>1
<1>4. (n1 = 0 => x1 = 0 /\ y1 = 0) /\ (n2 = 0 => x2 = 0 /\ y2 = 0) /\ (n3 = 0 => x3 = 0 /\ y3 = 0)
  BY <1>1
<1>5. x1 + x2 + x3 = y1 + y2 + y3
  BY <1>2
<1>6. (Share(u1, n1, U, N) <=> x1 <= y1) /\ (Share(u2, n2, U, N) <=> x2 <= y2) /\ (Share(u3, n3, U, N) <=> x3 <= y3)
  BY DEF Share
<1> HIDE DEF x1, x2, x3, y1, y2, y3
<1> QED BY <1>1, <1>3, <1>4, <1>5, <1>6 DEF U, N

LEMMA OneIsAbove ==
  ASSUME NEW u1 \in Nat, NEW u2 \in Nat, NEW u3 \in Nat, NEW n1 \in Nat, NEW n2 \in Nat, NEW n3 \in Nat,
         n1 + n2 + n3 > 0, n1 = 0 => u1 = 0, n2 = 0 => u2 = 0, n3 = 0 => u3 = 0
  PROVE  LET U == u1 + u2 + u3
             N == n1 + n2 + n3 IN
         \/ n1 > 0 /\ Share(U, N, u1, n1)
         \/ n2 > 0 /\ Share(U, N, u2, n2)
         \/ n3 > 0 /\ Share(U, N, u3, n3)
<1> DEFINE U == u1 + u2 + u3
           N == n1 + n2 + n3
<1>1. U \in Nat /\ N \in Nat /\ N = n1 + n2 + n3 /\ U = u1 + u2 + u3 /\ N > 0
  OBVIOUS
<1> HIDE DEF U, N
<1>2. U * N = u1 * N + u2 * N + u3 * N /\ U * N = U * n1 + U * n2 + U * n3
  BY <1>1
<1> DEFINE x1 == u1 * N
           x2 == u2 * N
           x3 == u3 * N
           y1 == U * n1
           y2 == U * n2
           y3 == U * n3
<1>3. x1 \in Int /\ x2 \in Int /\ x3 \in Int /\ y1 \in Int /\ y2 \in Int /\ y3 \in Int
  BY <1>1
<1>4. (n1 = 0 => x1 = 0 /\ y1 = 0) /\ (n2 = 0 => x2 = 0 /\ y2 = 0) /\ (n3 = 0 => x3 = 0 /\ y3 = 0)
  BY <1>1
<1>5. x1 + x2 + x3 = y1 + y2 + y3
  BY <1>2
<1>6. (Share(U, N, u1, n1) <=> y1 <= x1) /\ (Share(U, N, u2, n2) <=> y2 <= x2) /\ (Share(U, N, u3, n3) <=> y3 <= x3)
  BY DEF Share
<1> HIDE DEF x1, x2, x3, y1, y2, y3
<1> QED BY <1>1, <1>3, <1>4, <1>5, <1>6 DEF U, N

\* Rates compare as the shares do.
LEMMA RatesCompare ==
  ASSUME NEW A \in Nat \ {0}, NEW u \in Nat, NEW n \in Nat \ {0}, NEW v \in Nat, NEW m \in Nat \ {0}, Share(u, n, v, m)
  PROVE  Rate(u, A * n) <= Rate(v, A * m)
<1>1. A * n \in Nat \ {0} /\ A * m \in Nat \ {0}
  OBVIOUS
<1>2. (1000 * u) * (A * m) <= (1000 * v) * (A * n)
  <2> DEFINE x == u * m
             y == v * n
             z == 1000 * A
  <2>1. x <= y /\ x \in Nat /\ y \in Nat /\ z \in Nat
    BY DEF Share
  <2>2. (1000 * u) * (A * m) = z * x /\ (1000 * v) * (A * n) = z * y
    OBVIOUS
  <2> HIDE DEF x, y, z
  <2>3. z * x <= z * y
    BY <2>1
  <2> QED BY <2>2, <2>3
<1>3. RoundHalfEven(1000 * u, A * n) <= RoundHalfEven(1000 * v, A * m)
  <2> DEFINE a == 1000 * u
             b == A * n
             c == 1000 * v
             d == A * m
  <2>1. a \in Int /\ b \in Nat \ {0} /\ c \in Int /\ d \in Nat \ {0} /\ a * d <= c * b
    BY <1>1, <1>2
  <2> HIDE DEF a, b, c, d
  <2>2. RoundHalfEven(a, b) <= RoundHalfEven(c, d)
    BY <2>1, RoundRatios
  <2> QED BY <2>2 DEF a, b, c, d
<1> QED BY <1>1, <1>3 DEF Rate

LEMMA RateBounds ==
  ASSUME NEW n \in Nat, NEW d \in Nat, n <= d
  PROVE  Rate(n, d) \in 0..1000
<1>1. CASE d = 0
  BY <1>1 DEF Rate
<1>2. CASE d # 0
  <2>1. 0 * d <= 1000 * n /\ 1000 * n <= 1000 * d /\ 1000 * n \in Int /\ d \in Nat \ {0}
    BY <1>2
  <2>2. RoundHalfEven(1000 * n, d) \in Int /\ 0 <= RoundHalfEven(1000 * n, d) /\ RoundHalfEven(1000 * n, d) <= 1000
    <3> DEFINE m == 1000 * n
    <3>1. m \in Int /\ 0 * d <= m /\ m <= 1000 * d
      BY <2>1
    <3> HIDE DEF m
    <3>2. RoundHalfEven(m, d) \in Int /\ 0 <= RoundHalfEven(m, d) /\ RoundHalfEven(m, d) <= 1000
      BY <2>1, <3>1, RoundBounds
    <3> QED BY <3>2 DEF m
  <2> QED BY <1>2, <2>2 DEF Rate
<1> QED BY <1>1, <1>2

-----------------------------------------------------------------------------
(* The cases of the corpus, scored at one temperature.                     *)

IsList(s) == s \in Seq(ToSet(s))
LEMMA ListHas == ASSUME NEW s, IsList(s) PROVE Len(s) \in Nat /\ DOMAIN s = 1..Len(s)
BY DEF IsList
LEMMA EmptyList == IsList(<<>>) /\ Len(<<>>) = 0 /\ \A i \in DOMAIN <<>> : FALSE
BY DEF IsList

\* What is appended is the last element.
EndsWith(t, s, x) ==
    /\ IsList(t) /\ Len(t) = Len(s) + 1 /\ DOMAIN t = 1..(Len(s) + 1)
    /\ \A i \in 1..(Len(s) + 1) : t[i] = IF i = Len(s) + 1 THEN x ELSE s[i]
LEMMA Appended ==
  ASSUME NEW s, IsList(s), NEW x, NEW t, t = Append(s, x)
  PROVE  EndsWith(t, s, x)
<1> DEFINE n == Len(s)
           X == ToSet(s) \cup {x}
<1>1. s \in Seq(X) /\ x \in X /\ n \in Nat
  BY DEF IsList
<1> HIDE DEF X
<1>2. t \in Seq(X) /\ Len(t) = n + 1 /\ \A i \in 1..(n + 1) : t[i] = IF i = n + 1 THEN x ELSE s[i]
  BY <1>1
<1>3. DOMAIN t = 1..(n + 1)
  BY <1>1, <1>2
<1>4. \A i \in 1..(n + 1) : t[i] \in ToSet(t)
  BY <1>3 DEF ToSet
<1>5. t = [i \in 1..(n + 1) |-> t[i]]
  <2>1. PICK m \in Nat : t \in [1..m -> X]
    <3>1. t \in UNION {[1..k -> X] : k \in Nat}
      BY <1>2, SeqDef, Zenon
    <3> QED BY <3>1, Zenon
  <2> QED BY <1>3, <2>1
<1>6. t \in Seq(ToSet(t))
  <2> DEFINE m == n + 1
  <2>1. m \in Nat /\ \A i \in 1..m : t[i] \in ToSet(t)
    BY <1>1, <1>4
  <2> HIDE DEF m
  <2>2. [i \in 1..m |-> t[i]] \in [1..m -> ToSet(t)]
    BY <2>1
  <2>3. [i \in 1..m |-> t[i]] \in Seq(ToSet(t))
    <3>1. [i \in 1..m |-> t[i]] \in UNION {[1..k -> ToSet(t)] : k \in Nat}
      BY <2>1, <2>2, Zenon
    <3> QED BY <3>1, SeqDef, Zenon
  <2> QED BY <1>5, <2>3 DEF m
<1> QED BY <1>2, <1>3, <1>6 DEF IsList, EndsWith

\* What is kept of a case that was scored: a case that no human has to review was scored by three
\* passes that agree.
IsCaseOf(r, i) ==
    /\ r.quality = Corpus[i].quality
    /\ r.uncertain_axes \in SUBSET Keys(BenchGrid)
    /\ ~ r.needs_review => r.kept_passes = 3 /\ r.uncertain_axes = {}

Temperatures == UNION {ToSet(temps) : temps \in Sweeps}

\* The temperatures that are left, and what they have forced.
SweepInv ==
    /\ sweep \in Seq(Temperatures) /\ DOMAIN temperature = Tempered
    /\ \/ None \notin ToSet(sweep)
       \/ sweep = <<None>> /\ \A p \in Tempered : temperature[p] = None
CaseInv ==
    results # None =>
        /\ sweep # <<>> /\ \A p \in Tempered \cap Chain : temperature[p] = Head(sweep)
        /\ IsList(results) /\ Len(results) <= Len(Corpus)
        /\ \A i \in DOMAIN results : IsCaseOf(results[i], i) /\ results[i].asked_at \subseteq {Head(sweep)}

\* An aggregate whose rates are those of its cases.
WithinTiers(agg) ==
    LET tiers == {agg.by_quality[q] : q \in DOMAIN agg.by_quality} IN
    tiers # {} => Min(tiers) <= agg.dimension_exception_rate /\ agg.dimension_exception_rate <= Max(tiers)
IsHonest(agg) ==
    /\ agg.dimension_exception_rate \in 0..1000 /\ agg.project_review_rate \in 0..1000
    /\ WithinTiers(agg)
    /\ \A i \in DOMAIN agg.cases :
        /\ agg.cases[i].asked_at \subseteq {agg.temperature}
        /\ ~ agg.cases[i].needs_review => agg.cases[i].kept_passes = 3 /\ agg.cases[i].uncertain_axes = {}
AggregatesInv ==
    /\ IsList(aggregates) /\ \A a \in DOMAIN aggregates : IsHonest(aggregates[a])

ExceptionInv == SweepInv /\ CaseInv /\ AggregatesInv

LEMMA BenchKeys == IsFiniteSet(Keys(BenchGrid)) /\ Cardinality(Keys(BenchGrid)) \in Nat
<1> DEFINE axes == BenchGrid.axes
           n == Len(axes)
           h == [i \in 1..n |-> axes[i].key]
<1>1. n \in Nat /\ DOMAIN axes = 1..n
  BY CorpusAssumption
<1>2. Keys(BenchGrid) = {h[i] : i \in 1..n}
  BY <1>1 DEF Keys
<1>3. DOMAIN h = 1..n
  OBVIOUS
<1>4. IsFiniteSet(1..n)
  BY <1>1, FS_Interval
<1> HIDE DEF n, h
<1>5. IsFiniteSet({h[i] : i \in 1..n})
  BY <1>3, <1>4, ValuesFinite
<1> QED BY <1>2, <1>5, FS_CardinalityType

\* A pass that is not sent to a human is one of three, and they agree.
LEMMA CaseResultIs ==
  ASSUME NEW i, NEW raw \in [1..3 -> PassOutputs], NEW asked_at
  PROVE  /\ IsCaseOf(CaseResult(Corpus[i], raw, asked_at), i)
         /\ CaseResult(Corpus[i], raw, asked_at).asked_at = asked_at
<1> DEFINE passes == ValidPasses(raw)
           cons == Consensus(BenchGrid, passes)
           r == CaseResult(Corpus[i], raw, asked_at)
<1>1. Len(passes) <= 3 /\ Len(passes) \in Nat
  <2> DEFINE S == {out \in PassOutputs : out # None /\ Consensual(BenchGrid, <<out>>)}
  <2>1. DOMAIN raw = 1..3
    OBVIOUS
  <2> HIDE DEF S
  <2>2. Kept(Only(raw, S), raw, 3, S)
    BY <2>1, OnlyKeeps
  <2>3. Only(raw, S) = passes
    BY Zenon DEF ValidPasses, S
  <2> HIDE DEF passes
  <2> QED BY <2>2, <2>3 DEF Kept
<1>2. CASE Len(passes) < 2
  <2>1. r = [quality |-> Corpus[i].quality, kept_passes |-> Len(passes), uncertain_axes |-> {}, confidence |-> 0,
             needs_review |-> TRUE, error |-> TRUE, asked_at |-> asked_at]
    BY <1>2, Zenon DEF CaseResult
  <2> HIDE DEF passes
  <2> QED BY <2>1 DEF IsCaseOf
<1>3. CASE ~ Len(passes) < 2
  <2> DEFINE spread == [k \in Keys(BenchGrid) |-> Spread(Values(passes, k))]
             unsure == UncertainAxes(cons.spread, BenchGrid.scale)
  <2>1. cons.spread = spread /\ cons.needs_review =
            (UncertainAxes(cons.spread, BenchGrid.scale) # {} \/ cons.confidence < MinConfidence \/ Len(passes) < 3)
    BY Zenon DEF Consensus
  <2>2. unsure \in SUBSET Keys(BenchGrid)
    <3>1. DOMAIN cons.spread = Keys(BenchGrid)
      BY <2>1
    <3> HIDE DEF cons
    <3> QED BY <3>1 DEF UncertainAxes
  <2>3. r = [quality |-> Corpus[i].quality, kept_passes |-> Len(passes), uncertain_axes |-> unsure,
             confidence |-> cons.confidence, needs_review |-> cons.needs_review, error |-> FALSE, asked_at |-> asked_at]
    BY <1>3, Zenon DEF CaseResult
  <2>4. ~ cons.needs_review => unsure = {} /\ ~ Len(passes) < 3
    BY <2>1
  <2> HIDE DEF r, passes, cons, unsure
  <2>5. ~ r.needs_review => Len(passes) = 3 /\ unsure = {}
    BY <1>1, <2>3, <2>4
  <2> QED BY <2>2, <2>3, <2>5 DEF IsCaseOf, r
<1> QED BY <1>2, <1>3

\* The axes that are not sure, of the cases that were scored.
Unsure == [i \in DOMAIN results |-> Cardinality(results[i].uncertain_axes)]
LEMMA UncertainIs ==
  ASSUME CaseInv, results # None
  PROVE  /\ IsFiniteSet(DOMAIN results) /\ Unsure \in [DOMAIN results -> Int]
         /\ \A i \in DOMAIN results : Unsure[i] \in Nat /\ Unsure[i] <= Cardinality(Keys(BenchGrid))
         /\ \A T \in SUBSET DOMAIN results : IsFiniteSet(T) /\ Uncertain(T) = SumOver(PartOf(Unsure, T))
<1>1. IsFiniteSet(DOMAIN results)
  <2>1. Len(results) \in Nat /\ DOMAIN results = 1..Len(results)
    BY ListHas DEF CaseInv
  <2> QED BY <2>1, FS_Interval
<1>2. ASSUME NEW i \in DOMAIN results
      PROVE  Cardinality(results[i].uncertain_axes) \in Nat /\ Cardinality(results[i].uncertain_axes) <= Cardinality(Keys(BenchGrid))
  <2>1. results[i].uncertain_axes \in SUBSET Keys(BenchGrid)
    BY DEF CaseInv, IsCaseOf
  <2> QED BY <2>1, BenchKeys, FS_Subset, FS_CardinalityType
<1>3. \A i \in DOMAIN results : Unsure[i] \in Nat /\ Unsure[i] <= Cardinality(Keys(BenchGrid))
  BY <1>2 DEF Unsure
<1>4. ASSUME NEW T \in SUBSET DOMAIN results PROVE IsFiniteSet(T) /\ Uncertain(T) = SumOver(PartOf(Unsure, T))
  <2>1. IsFiniteSet(T)
    BY <1>1, FS_Subset
  <2>2. PartOf(Unsure, T) = [i \in T |-> Cardinality(results[i].uncertain_axes)]
    BY DEF PartOf, Unsure
  <2>3. Uncertain(T) = Total([i \in T |-> Cardinality(results[i].uncertain_axes)])
    BY Zenon DEF Uncertain
  <2> QED BY <2>1, <2>2, <2>3, TotalIs
<1>5. Unsure \in [DOMAIN results -> Int]
  <2>1. Unsure = [i \in DOMAIN results |-> Unsure[i]]
    BY DEF Unsure
  <2> QED BY <1>3, <2>1
<1> QED BY <1>1, <1>3, <1>4, <1>5

\* No case has more of them than the grid has axes.
LEMMA UncertainBounds ==
  ASSUME CaseInv, results # None, NEW T, T \in SUBSET DOMAIN results
  PROVE  /\ Uncertain(T) \in Nat /\ Cardinality(T) \in Nat /\ IsFiniteSet(T)
         /\ Uncertain(T) <= Cardinality(Keys(BenchGrid)) * Cardinality(T)
         /\ Cardinality(T) = 0 => Uncertain(T) = 0
<1> DEFINE A == Cardinality(Keys(BenchGrid))
           f == PartOf(Unsure, T)
           top == [i \in T |-> A]
           none == [i \in T |-> 0]
<1>1. IsFiniteSet(T) /\ Uncertain(T) = SumOver(f)
  BY UncertainIs
<1>2. A \in Nat
  BY BenchKeys
<1>3. f \in [T -> Int] /\ \A i \in T : 0 <= f[i] /\ f[i] <= A
  <2>1. \A i \in T : i \in DOMAIN results /\ Unsure[i] \in Nat /\ Unsure[i] <= A
    BY UncertainIs
  <2>2. f = [i \in T |-> Unsure[i]]
    BY DEF PartOf
  <2> HIDE DEF A
  <2> QED BY <2>1, <2>2
<1> HIDE DEF A, f
<1>4. top \in [T -> Int] /\ \A i \in T : top[i] = A /\ f[i] <= top[i]
  BY <1>2, <1>3
<1>5. none \in [T -> Int] /\ \A i \in T : none[i] = 0 /\ none[i] <= f[i]
  BY <1>3
<1> HIDE DEF top, none
<1>6. SumOver(f) \in Int /\ SumOver(f) <= SumOver(top)
  BY <1>1, <1>3, <1>4, TotalsCompare
<1>7. SumOver(none) <= SumOver(f)
  BY <1>1, <1>3, <1>5, TotalsCompare
<1>8. SumOver(top) = A * Cardinality(T)
  BY <1>1, <1>2, <1>4, TotalOfSame
<1>9. SumOver(none) = 0 * Cardinality(T)
  BY <1>1, <1>5, TotalOfSame
<1>10. Cardinality(T) \in Nat
  BY <1>1, FS_CardinalityType
<1> DEFINE n == Cardinality(T)
<1> HIDE DEF n
<1>11. n \in Nat /\ SumOver(top) = A * n /\ SumOver(none) = 0 * n
  BY <1>8, <1>9, <1>10 DEF n
<1>12. SumOver(f) \in Nat /\ SumOver(f) <= A * n /\ (n = 0 => SumOver(f) = 0)
  BY <1>2, <1>6, <1>7, <1>11
<1> QED BY <1>1, <1>10, <1>12 DEF A, n

\* The axes of two sets of cases add up.
LEMMA UncertainOfUnion ==
  ASSUME CaseInv, results # None, NEW S, NEW T, S \in SUBSET DOMAIN results, T \in SUBSET DOMAIN results, S \cap T = {}
  PROVE  /\ Uncertain(S \cup T) = Uncertain(S) + Uncertain(T)
         /\ Cardinality(S \cup T) = Cardinality(S) + Cardinality(T)
<1> DEFINE f == PartOf(Unsure, S \cup T)
<1>1. /\ IsFiniteSet(S) /\ Uncertain(S) = SumOver(PartOf(Unsure, S))
      /\ IsFiniteSet(T) /\ Uncertain(T) = SumOver(PartOf(Unsure, T))
      /\ IsFiniteSet(S \cup T) /\ Uncertain(S \cup T) = SumOver(f)
  <2>1. S \cup T \in SUBSET DOMAIN results
    OBVIOUS
  <2> HIDE DEF f
  <2>2. Uncertain(S \cup T) = SumOver(PartOf(Unsure, S \cup T)) /\ IsFiniteSet(S \cup T)
    BY <2>1, UncertainIs
  <2> QED BY <2>2, UncertainIs DEF f
<1>2. f \in [S \cup T -> Int]
  <2>1. f = [i \in S \cup T |-> Unsure[i]]
    BY DEF PartOf
  <2>2. \A i \in S \cup T : Unsure[i] \in Int
    BY UncertainIs
  <2> HIDE DEF f
  <2> QED BY <2>1, <2>2
<1>3. PartOf(f, S) = PartOf(Unsure, S) /\ PartOf(f, T) = PartOf(Unsure, T)
  BY DEF PartOf
<1> HIDE DEF f
<1>4. SumOver(f) = SumOver(PartOf(f, S)) + SumOver(PartOf(f, T))
  BY <1>1, <1>2, TotalOfUnion
<1>5. Cardinality(S \cup T) = Cardinality(S) + Cardinality(T)
  <2>1. Cardinality(S \cup T) = Cardinality(S) + Cardinality(T) - Cardinality(S \cap T)
    BY <1>1, FS_Union
  <2>2. Cardinality(S \cap T) = 0
    BY FS_EmptySet
  <2> QED BY <1>1, <2>1, <2>2, FS_CardinalityType
<1> QED BY <1>1, <1>3, <1>4, <1>5

\* The rate of a set of cases, and those of a tier.
RateOf(T) == Rate(Uncertain(T), Cardinality(Keys(BenchGrid)) * Cardinality(T))
OfTier(M, q) == {i \in M : results[i].quality = q}

LEMMA ThreeTiers ==
  ASSUME CaseInv, results # None, NEW M, M \in SUBSET DOMAIN results
  PROVE  /\ M = OfTier(M, "thin") \cup OfTier(M, "medium") \cup OfTier(M, "rich")
         /\ \A q \in Tiers : OfTier(M, q) \in SUBSET DOMAIN results
         /\ \A p, q \in Tiers : p # q => OfTier(M, p) \cap OfTier(M, q) = {}
<1>1. \A i \in M : results[i].quality \in Tiers
  <2> SUFFICES ASSUME NEW i \in M PROVE results[i].quality \in Tiers
    OBVIOUS
  <2>1. i \in DOMAIN results /\ results[i].quality = Corpus[i].quality /\ Len(results) <= Len(Corpus)
    BY DEF CaseInv, IsCaseOf
  <2>2. Len(results) \in Nat /\ i \in 1..Len(results) /\ Len(Corpus) \in Nat
    BY <2>1, ListHas, CorpusAssumption DEF CaseInv
  <2>3. i \in 1..Len(Corpus)
    BY <2>1, <2>2
  <2>4. Corpus[i].quality \in Tiers
    BY <2>3, CorpusAssumption
  <2> QED BY <2>1, <2>4
<1> QED BY <1>1 DEF OfTier, Tiers

\* Of the tiers with a case, one has a rate that is not above that of all, and one that is not below.
LEMMA SomeTierIs ==
  ASSUME CaseInv, results # None, NEW M, M \in SUBSET DOMAIN results, M # {}
  PROVE  /\ \E q \in Tiers : OfTier(M, q) # {} /\ RateOf(OfTier(M, q)) <= RateOf(M)
         /\ \E q \in Tiers : OfTier(M, q) # {} /\ RateOf(M) <= RateOf(OfTier(M, q))
<1> DEFINE A == Cardinality(Keys(BenchGrid))
           T1 == OfTier(M, "thin")
           T2 == OfTier(M, "medium")
           T3 == OfTier(M, "rich")
           R == T2 \cup T3
           u1 == Uncertain(T1)
           u2 == Uncertain(T2)
           u3 == Uncertain(T3)
           n1 == Cardinality(T1)
           n2 == Cardinality(T2)
           n3 == Cardinality(T3)
           U == u1 + u2 + u3
           N == n1 + n2 + n3
<1>1. /\ M = T1 \cup R /\ T1 \cap R = {} /\ T2 \cap T3 = {}
      /\ T1 \in SUBSET DOMAIN results /\ T2 \in SUBSET DOMAIN results /\ T3 \in SUBSET DOMAIN results
      /\ R \in SUBSET DOMAIN results
      /\ {"thin", "medium", "rich"} \subseteq Tiers
  <2>1. {"thin", "medium", "rich"} \subseteq Tiers
    BY DEF Tiers
  <2>2. /\ M = T1 \cup T2 \cup T3
        /\ \A q \in Tiers : OfTier(M, q) \in SUBSET DOMAIN results
        /\ \A p, q \in Tiers : p # q => OfTier(M, p) \cap OfTier(M, q) = {}
    BY ThreeTiers
  <2> QED BY <2>1, <2>2
<1> HIDE DEF T1, T2, T3, R
<1>2. Uncertain(R) = u2 + u3 /\ Cardinality(R) = n2 + n3
  BY <1>1, UncertainOfUnion DEF R
<1>3. Uncertain(M) = u1 + Uncertain(R) /\ Cardinality(M) = n1 + Cardinality(R)
  BY <1>1, UncertainOfUnion
<1>4. /\ u1 \in Nat /\ n1 \in Nat /\ (n1 = 0 => u1 = 0)
      /\ u2 \in Nat /\ n2 \in Nat /\ (n2 = 0 => u2 = 0)
      /\ u3 \in Nat /\ n3 \in Nat /\ (n3 = 0 => u3 = 0)
  BY <1>1, UncertainBounds
<1>5. Cardinality(M) # 0
  <2>1. IsFiniteSet(M)
    BY UncertainBounds
  <2> QED BY <2>1, FS_EmptySet
<1>6. A \in Nat
  BY BenchKeys
<1>7. n1 > 0 => T1 # {}
  BY FS_EmptySet
<1>8. n2 > 0 => T2 # {}
  BY FS_EmptySet
<1>9. n3 > 0 => T3 # {}
  BY FS_EmptySet
<1>10. /\ RateOf(T1) = Rate(u1, A * n1) /\ RateOf(T2) = Rate(u2, A * n2) /\ RateOf(T3) = Rate(u3, A * n3)
       /\ RateOf(M) = Rate(Uncertain(M), A * Cardinality(M))
  BY DEF RateOf
<1> HIDE DEF u1, u2, u3, n1, n2, n3, A
<1>11. Uncertain(M) = U /\ Cardinality(M) = N /\ N > 0 /\ U \in Nat /\ N \in Nat \ {0}
  BY <1>2, <1>3, <1>4, <1>5
<1>12. \/ n1 > 0 /\ Share(u1, n1, U, N)
       \/ n2 > 0 /\ Share(u2, n2, U, N)
       \/ n3 > 0 /\ Share(u3, n3, U, N)
  BY <1>4, <1>11, OneIsBelow
<1>13. \/ n1 > 0 /\ Share(U, N, u1, n1)
       \/ n2 > 0 /\ Share(U, N, u2, n2)
       \/ n3 > 0 /\ Share(U, N, u3, n3)
  BY <1>4, <1>11, OneIsAbove
<1>14. RateOf(M) = Rate(U, A * N)
  BY <1>10, <1>11
<1> HIDE DEF U, N
\* A grid without axes has only rates of nothing.
<1>15. ASSUME NEW u \in Nat, NEW n \in Nat, n > 0, Share(u, n, U, N) PROVE Rate(u, A * n) <= Rate(U, A * N)
  <2>1. CASE A = 0
    <3>1. A * n = 0 /\ A * N = 0
      BY <1>11, <2>1
    <3> QED BY <3>1 DEF Rate
  <2>2. CASE A # 0
    <3>1. A \in Nat \ {0} /\ n \in Nat \ {0} /\ N \in Nat \ {0} /\ U \in Nat
      BY <1>6, <1>11, <1>15, <2>2
    <3> QED BY <1>15, <3>1, RatesCompare
  <2> QED BY <2>1, <2>2
<1>16. ASSUME NEW u \in Nat, NEW n \in Nat, n > 0, Share(U, N, u, n) PROVE Rate(U, A * N) <= Rate(u, A * n)
  <2>1. CASE A = 0
    <3>1. A * n = 0 /\ A * N = 0
      BY <1>11, <2>1
    <3> QED BY <3>1 DEF Rate
  <2>2. CASE A # 0
    <3>1. A \in Nat \ {0} /\ n \in Nat \ {0} /\ N \in Nat \ {0} /\ U \in Nat
      BY <1>6, <1>11, <1>16, <2>2
    <3> QED BY <1>16, <3>1, RatesCompare
  <2> QED BY <2>1, <2>2
<1>17. \/ T1 # {} /\ RateOf(T1) <= RateOf(M)
       \/ T2 # {} /\ RateOf(T2) <= RateOf(M)
       \/ T3 # {} /\ RateOf(T3) <= RateOf(M)
  BY <1>4, <1>7, <1>8, <1>9, <1>10, <1>12, <1>14, <1>15
<1>18. \/ T1 # {} /\ RateOf(M) <= RateOf(T1)
       \/ T2 # {} /\ RateOf(M) <= RateOf(T2)
       \/ T3 # {} /\ RateOf(M) <= RateOf(T3)
  BY <1>4, <1>7, <1>8, <1>9, <1>10, <1>13, <1>14, <1>16
<1> QED BY <1>1, <1>17, <1>18 DEF T1, T2, T3

\* So the rate of all is within those of the tiers.
LEMMA AggregateIsHonest ==
  ASSUME CaseInv, results # None
  PROVE  IsHonest(Aggregate)
<1> DEFINE M == {i \in DOMAIN results : ~ results[i].error}
           Q == {results[i].quality : i \in M} \cap Tiers
           shown == [q \in Q |-> RateOf(OfTier(M, q))]
           axes == Cardinality(Keys(BenchGrid))
           agg == Aggregate
<1>1. /\ agg.temperature = Head(sweep) /\ agg.dimension_exception_rate = RateOf(M)
      /\ agg.project_review_rate = Rate(Cardinality({i \in M : results[i].needs_review}), Cardinality(M))
      /\ agg.by_quality = shown /\ agg.cases = [i \in M |-> results[i]]
  BY Zenon DEF Aggregate, RateOf, OfTier
<1>2. M \in SUBSET DOMAIN results
  OBVIOUS
<1>3. \A q \in Tiers : q \in Q <=> OfTier(M, q) # {}
  BY DEF OfTier
<1>4. Q \subseteq Tiers
  OBVIOUS
<1> HIDE DEF M, Q, agg
<1>5. ASSUME NEW T, T \in SUBSET DOMAIN results PROVE RateOf(T) \in 0..1000
  <2> DEFINE u == Uncertain(T)
             d == axes * Cardinality(T)
  <2>1. u \in Nat /\ u <= d /\ Cardinality(T) \in Nat
    BY <1>5, UncertainBounds
  <2>2. d \in Nat
    BY <2>1, BenchKeys
  <2> HIDE DEF u, d
  <2>3. Rate(u, d) \in 0..1000
    BY <2>1, <2>2, RateBounds
  <2> QED BY <2>3 DEF RateOf, u, d
<1>6. agg.project_review_rate \in 0..1000
  <2> DEFINE u == Cardinality({i \in M : results[i].needs_review})
             d == Cardinality(M)
  <2>1. IsFiniteSet(M)
    BY <1>2, UncertainBounds
  <2>2. {i \in M : results[i].needs_review} \in SUBSET M
    OBVIOUS
  <2>3. u \in Nat /\ d \in Nat /\ u <= d
    BY <2>1, <2>2, FS_Subset, FS_CardinalityType
  <2> HIDE DEF u, d
  <2>4. Rate(u, d) \in 0..1000
    BY <2>3, RateBounds
  <2> QED BY <1>1, <2>4 DEF u, d
<1>7. WithinTiers(agg)
  <2> DEFINE tiers == {shown[q] : q \in Q}
  <2>1. SUFFICES ASSUME tiers # {} PROVE Min(tiers) <= RateOf(M) /\ RateOf(M) <= Max(tiers)
    <3>1. tiers = {agg.by_quality[q] : q \in DOMAIN agg.by_quality}
      BY <1>1
    <3> QED BY <1>1, <3>1 DEF WithinTiers
  <2>2. \A q \in Q : shown[q] = RateOf(OfTier(M, q)) /\ OfTier(M, q) \in SUBSET DOMAIN results
    BY <1>2, <1>4, ThreeTiers
  <2>3. tiers \in SUBSET Int
    <3>1. \A q \in Q : shown[q] \in Int
      BY <1>5, <2>2
    <3> HIDE DEF shown
    <3> QED BY <3>1
  <2>4. IsFiniteSet(tiers)
    <3>1. DOMAIN shown = Q
      OBVIOUS
    <3>2. IsFiniteSet(Q)
      <4>1. IsFiniteSet(Tiers)
        <5>1. IsFiniteSet({"thin"}) /\ IsFiniteSet({"medium"}) /\ IsFiniteSet({"rich"})
          BY FS_Singleton
        <5>2. IsFiniteSet({"thin"} \cup {"medium"})
          BY <5>1, FS_Union
        <5>3. IsFiniteSet(({"thin"} \cup {"medium"}) \cup {"rich"})
          BY <5>1, <5>2, FS_Union
        <5>4. Tiers = ({"thin"} \cup {"medium"}) \cup {"rich"}
          BY DEF Tiers
        <5> QED BY <5>3, <5>4
      <4> QED BY <1>4, <4>1, FS_Subset
    <3> HIDE DEF shown
    <3> QED BY <3>1, <3>2, ValuesFinite
  <2>5. Min(tiers) \in tiers /\ Max(tiers) \in tiers /\ \A x \in tiers : Min(tiers) <= x /\ x <= Max(tiers)
    <3> HIDE DEF tiers
    <3> QED BY <2>1, <2>3, <2>4, ExtremaOf
  <2>6. M # {}
    BY <1>3, <1>4, <2>1 DEF OfTier
  <2>7. PICK p \in Tiers : OfTier(M, p) # {} /\ RateOf(OfTier(M, p)) <= RateOf(M)
    BY <1>2, <2>6, SomeTierIs
  <2>8. PICK q \in Tiers : OfTier(M, q) # {} /\ RateOf(M) <= RateOf(OfTier(M, q))
    BY <1>2, <2>6, SomeTierIs
  <2>9. RateOf(OfTier(M, p)) \in tiers /\ RateOf(OfTier(M, q)) \in tiers
    BY <1>3, <2>2, <2>7, <2>8
  <2>10. RateOf(M) \in Int
    BY <1>2, <1>5
  <2> HIDE DEF tiers
  <2>11. /\ Min(tiers) \in Int /\ Max(tiers) \in Int
         /\ RateOf(OfTier(M, p)) \in Int /\ RateOf(OfTier(M, q)) \in Int
    BY <2>3, <2>5, <2>9
  <2> QED BY <2>5, <2>7, <2>8, <2>9, <2>10, <2>11
<1>8. ASSUME NEW i \in DOMAIN agg.cases
      PROVE  /\ agg.cases[i].asked_at \subseteq {agg.temperature}
             /\ ~ agg.cases[i].needs_review => agg.cases[i].kept_passes = 3 /\ agg.cases[i].uncertain_axes = {}
  <2>1. i \in DOMAIN results /\ agg.cases[i] = results[i]
    BY <1>1, <1>2
  <2> QED BY <1>1, <2>1 DEF CaseInv, IsCaseOf
<1>9. agg.dimension_exception_rate \in 0..1000
  BY <1>1, <1>2, <1>5
<1> QED BY <1>6, <1>7, <1>8, <1>9 DEF IsHonest, agg

LEMMA ExceptionStarts == BenchInit => ExceptionInv
<1> SUFFICES ASSUME BenchInit PROVE ExceptionInv
  OBVIOUS
<1>1. sweep \in Sweeps /\ temperature = [p \in Tempered |-> None] /\ results = None /\ aggregates = <<>>
  BY DEF BenchInit
<1>2. sweep \in Seq(Temperatures)
  <2>1. sweep \in Seq(ToSet(sweep)) /\ ToSet(sweep) \subseteq Temperatures
    BY <1>1, CorpusAssumption DEF Temperatures
  <2> QED BY <2>1
<1>3. sweep = <<None>> \/ None \notin ToSet(sweep)
  BY <1>1, CorpusAssumption
<1>4. SweepInv
  BY <1>1, <1>2, <1>3 DEF SweepInv
<1>5. AggregatesInv
  BY <1>1, EmptyList DEF AggregatesInv
<1> QED BY <1>1, <1>4, <1>5 DEF ExceptionInv, CaseInv

\* Every provider that may answer is set to the temperature that is measured.
LEMMA NextTemperatureStep == ASSUME ExceptionInv, NextTemperature PROVE ExceptionInv'
<1> DEFINE t == Head(sweep)
<1>1. /\ sweep # <<>> /\ temperature' = SetTemperature(t) /\ results' = <<>>
      /\ UNCHANGED <<sweep, aggregates>>
  BY DEF NextTemperature
<1>2. SweepInv
  BY DEF ExceptionInv
<1>3. temperature' = [p \in Tempered |-> IF p \in Chain /\ t # None THEN t ELSE temperature[p]]
  BY <1>1, Zenon DEF SetTemperature
<1>4. t = None => sweep = <<None>> /\ \A p \in Tempered : temperature[p] = None
  <2>1. t \in ToSet(sweep)
    BY <1>1, <1>2 DEF SweepInv, ToSet
  <2> QED BY <1>2, <2>1 DEF SweepInv
<1>5. \A p \in Tempered \cap Chain : temperature'[p] = t
  BY <1>3, <1>4
<1>6. SweepInv'
  <2>1. CASE None \notin ToSet(sweep)
    BY <1>1, <1>2, <1>3, <2>1 DEF SweepInv
  <2>2. CASE sweep = <<None>> /\ \A p \in Tempered : temperature[p] = None
    <3>1. t = None
      BY <2>2
    <3>2. \A p \in Tempered : temperature'[p] = None
      BY <1>3, <2>2, <3>1
    <3> QED BY <1>1, <1>2, <1>3, <2>2, <3>2 DEF SweepInv
  <2> QED BY <1>2, <2>1, <2>2 DEF SweepInv
<1>7. CaseInv'
  <2>1. IsList(results') /\ Len(results') = 0 /\ \A i \in DOMAIN results' : FALSE
    BY <1>1, EmptyList
  <2>2. Len(Corpus) \in Nat
    BY CorpusAssumption
  <2> QED BY <1>1, <1>5, <2>1, <2>2 DEF CaseInv
<1>8. AggregatesInv'
  BY <1>1 DEF ExceptionInv, AggregatesInv
<1> QED BY <1>6, <1>7, <1>8 DEF ExceptionInv

LEMMA ScoreCaseStep == ASSUME ExceptionInv, ScoreCase PROVE ExceptionInv'
<1> DEFINE n == Len(results)
<1>1. PICK raw \in [1..3 -> PassOutputs], by \in SUBSET (Tempered \cap Chain) \ {{}} :
        results' = Append(results, CaseResult(Corpus[n + 1], raw, {temperature[p] : p \in by}))
  BY DEF ScoreCase
<1>2. results # None /\ n < Len(Corpus) /\ UNCHANGED <<sweep, temperature, aggregates>>
  BY DEF ScoreCase
<1> DEFINE asked_at == {temperature[p] : p \in by}
           r == CaseResult(Corpus[n + 1], raw, asked_at)
<1>3. /\ sweep # <<>> /\ \A p \in Tempered \cap Chain : temperature[p] = Head(sweep)
      /\ IsList(results) /\ n \in Nat /\ DOMAIN results = 1..n
      /\ \A i \in DOMAIN results : IsCaseOf(results[i], i) /\ results[i].asked_at \subseteq {Head(sweep)}
  BY <1>2, ListHas DEF ExceptionInv, CaseInv
<1>4. IsCaseOf(r, n + 1) /\ r.asked_at \subseteq {Head(sweep)}
  <2>1. IsCaseOf(r, n + 1) /\ r.asked_at = asked_at
    <3> DEFINE i == n + 1
    <3> HIDE DEF i, asked_at
    <3>1. IsCaseOf(CaseResult(Corpus[i], raw, asked_at), i) /\ CaseResult(Corpus[i], raw, asked_at).asked_at = asked_at
      BY CaseResultIs
    <3> QED BY <3>1 DEF i
  <2>2. asked_at \subseteq {Head(sweep)}
    BY <1>3
  <2> QED BY <2>1, <2>2
<1> HIDE DEF r, asked_at
<1>5. /\ IsList(results') /\ Len(results') = n + 1 /\ DOMAIN results' = 1..(n + 1)
      /\ \A i \in 1..(n + 1) : results'[i] = IF i = n + 1 THEN r ELSE results[i]
  <2> DEFINE s == results
             t == results'
  <2>1. t = Append(s, r) /\ IsList(s)
    BY <1>1, <1>3 DEF r, asked_at
  <2> HIDE DEF s, t
  <2>2. EndsWith(t, s, r)
    BY <2>1, Appended
  <2> QED BY <2>2 DEF s, t, EndsWith
<1>6. CaseInv'
  <2>1. Len(results') \in Nat /\ Len(results') <= Len(Corpus)
    <3>1. Len(Corpus) \in Nat
      BY CorpusAssumption
    <3> HIDE DEF n
    <3> QED BY <1>2, <1>3, <1>5, <3>1
  <2>2. \A i \in DOMAIN results' : IsCaseOf(results'[i], i) /\ results'[i].asked_at \subseteq {Head(sweep)}
    BY <1>3, <1>4, <1>5
  <2> QED BY <1>2, <1>3, <1>5, <2>1, <2>2 DEF CaseInv
<1>7. SweepInv' /\ AggregatesInv'
  BY <1>2 DEF ExceptionInv, SweepInv, AggregatesInv
<1> QED BY <1>6, <1>7 DEF ExceptionInv

LEMMA EndTemperatureStep == ASSUME ExceptionInv, EndTemperature PROVE ExceptionInv'
<1> DEFINE n == Len(aggregates)
           agg == Aggregate
<1>1. /\ results # None /\ aggregates' = Append(aggregates, agg) /\ sweep' = Tail(sweep)
      /\ results' = None /\ UNCHANGED temperature
  BY DEF EndTemperature
<1>2. IsHonest(agg)
  BY <1>1, AggregateIsHonest DEF ExceptionInv
<1> HIDE DEF agg
<1>3. AggregatesInv'
  <2>1. /\ IsList(aggregates) /\ n \in Nat /\ DOMAIN aggregates = 1..n
        /\ \A a \in DOMAIN aggregates : IsHonest(aggregates[a])
    BY ListHas DEF ExceptionInv, AggregatesInv
  <2> DEFINE s == aggregates
             t == aggregates'
  <2>2. t = Append(s, agg) /\ IsList(s)
    BY <1>1, <2>1
  <2>3. /\ IsList(aggregates') /\ DOMAIN aggregates' = 1..(n + 1)
        /\ \A i \in 1..(n + 1) : aggregates'[i] = IF i = n + 1 THEN agg ELSE aggregates[i]
    <3> HIDE DEF s, t
    <3>1. EndsWith(t, s, agg)
      BY <2>2, Appended
    <3> QED BY <3>1 DEF s, t, EndsWith
  <2>4. \A a \in DOMAIN aggregates' : IsHonest(aggregates'[a])
    BY <1>2, <2>1, <2>3
  <2> QED BY <2>1, <2>3, <2>4 DEF AggregatesInv
<1>4. SweepInv'
  <2>1. sweep \in Seq(Temperatures) /\ sweep # <<>> /\ DOMAIN temperature = Tempered
    BY <1>1 DEF ExceptionInv, SweepInv, CaseInv
  <2>2. Tail(sweep) \in Seq(Temperatures) /\ ToSet(Tail(sweep)) \subseteq ToSet(sweep)
    BY <2>1 DEF ToSet
  <2>3. None \notin ToSet(Tail(sweep))
    <3>1. CASE None \notin ToSet(sweep)
      BY <2>2, <3>1
    <3>2. CASE sweep = <<None>>
      BY <3>2 DEF ToSet
    <3> QED BY <3>1, <3>2 DEF ExceptionInv, SweepInv
  <2> QED BY <1>1, <2>1, <2>2, <2>3 DEF SweepInv
<1> QED BY <1>1, <1>3, <1>4 DEF ExceptionInv, CaseInv

LEMMA ExceptionKept == ASSUME ExceptionInv, UNCHANGED exceptionVars PROVE ExceptionInv'
BY DEF ExceptionInv, SweepInv, CaseInv, AggregatesInv, exceptionVars, IsCaseOf

\* An aggregate that is honest is what the properties ask for.
LEMMA ExceptionIsSound == ASSUME ExceptionInv PROVE OneTemperature /\ RatesAreHonest
<1>1. \A a \in DOMAIN aggregates : IsHonest(aggregates[a])
  BY DEF ExceptionInv, AggregatesInv
<1>2. OneTemperature
  BY <1>1 DEF OneTemperature, IsHonest
<1>3. RatesAreHonest
  BY <1>1 DEF RatesAreHonest, IsHonest, WithinTiers
<1> QED BY <1>2, <1>3

-----------------------------------------------------------------------------
(* The findings of a case.                                                 *)

\* Lists of findings that are joined are a list of findings.
LEMMA JoinedIsTyped ==
  ASSUME NEW X, NEW n \in Nat, NEW lists, DOMAIN lists = 1..n, \A i \in 1..n : lists[i] \in Seq(X)
  PROVE  Joined(lists) \in Seq(X)
<1> DEFINE B == Seq(X)
           F == [x \in B \X (1..n) |-> x[1] \o lists[x[2]]]
           h == CHOOSE g : g = [s \in SUBSET DOMAIN lists |->
                    IF s = {} THEN <<>> ELSE g[s \ {Max(s)}] \o lists[Max(s)]]
<1>1. Joined(lists) = h[DOMAIN lists]
  <2>1. FoldLeft(LAMBDA all, list : all \o list, <<>>, lists)
        = LET iter[s \in SUBSET DOMAIN lists] ==
                IF s = {} THEN <<>> ELSE iter[s \ {Max(s)}] \o lists[Max(s)]
          IN iter[DOMAIN lists]
    BY Zenon DEF FoldLeft, MapThenFoldSet
  <2> QED BY <2>1 DEF Joined
<1>2. \A b \in B, i \in 1..n : b \o lists[i] \in B
  OBVIOUS
<1>3. <<>> \in B
  OBVIOUS
<1> HIDE DEF B
<1>4. F \in [B \X (1..n) -> B] /\ \A b \in B, i \in 1..n : F[<<b, i>>] = b \o lists[i]
  BY <1>2
<1> HIDE DEF F
<1>5. \A s \in SUBSET (1..n) : s # {} => Max(s) \in 1..n
  BY MaxIn
<1>6. h = [s \in SUBSET (1..n) |-> IF s = {} THEN <<>> ELSE h[s \ {Max(s)}] \o lists[Max(s)]]
  <2>1. PICK g \in [SUBSET (1..n) -> B] : FoldedBy(g, n, <<>>, F)
    BY <1>3, <1>4, FoldExists
  <2>2. ASSUME NEW s \in SUBSET (1..n), s # {} PROVE g[s] = g[s \ {Max(s)}] \o lists[Max(s)]
    <3>1. g[s \ {Max(s)}] \in B /\ Max(s) \in 1..n
      BY <1>5, <2>1, <2>2
    <3> QED BY <1>4, <2>1, <2>2, <3>1 DEF FoldedBy
  <2>3. g = [s \in SUBSET (1..n) |-> IF s = {} THEN <<>> ELSE g[s \ {Max(s)}] \o lists[Max(s)]]
    BY <2>1, <2>2 DEF FoldedBy
  <2> QED BY <2>3
<1> HIDE DEF h
<1>7. FoldedIn(h, n, B, <<>>, F)
  BY <1>4, <1>5, <1>6 DEF FoldedIn
<1>8. PICK it \in [0..n -> B] : it[n] = h[1..n] /\ StepsOf(it, n, <<>>, F)
  BY <1>3, <1>4, <1>7, FoldSteps
<1>9. n \in 0..n
  OBVIOUS
<1> QED BY <1>1, <1>8, <1>9 DEF B

\* What an output has for a finding, whatever the prompt.
Quoted == {raw \in UNION {ToSet(entry.findings) : entry \in UNION {ToSet(out.entries) : out \in Outputs}} :
             /\ DOMAIN raw = {"type", "quote_a", "quote_b", "severity"}
             /\ {raw.quote_a, raw.quote_b} \subseteq Quotes \cup {None}}
LEMMA OutputIs ==
  ASSUME NEW out \in Outputs \cup {None}
  PROVE  /\ Len(Entries(out)) \in Nat /\ DOMAIN Entries(out) = 1..Len(Entries(out))
         /\ \A e \in DOMAIN Entries(out) : Entries(out)[e] # None => Entries(out)[e].findings \in Seq(Quoted)
<1>1. CASE ~ Listed(out)
  <2>1. Entries(out) = <<>>
    BY <1>1 DEF Entries
  <2> QED BY <2>1
<1>2. CASE Listed(out)
  <2>1. Entries(out) = out.entries /\ out \in Outputs /\ out # None /\ out.listed
    BY <1>2 DEF Entries, Listed
  <2>2. /\ out.entries \in Seq(ToSet(out.entries))
        /\ \A entry \in ToSet(out.entries) \ {None} :
            /\ entry.findings \in Seq(ToSet(entry.findings))
            /\ \A raw \in ToSet(entry.findings) :
                DOMAIN raw = {"type", "quote_a", "quote_b", "severity"} /\ {raw.quote_a, raw.quote_b} \subseteq Quotes \cup {None}
    BY <2>1, OutputsAssumption
  <2>3. Len(out.entries) \in Nat /\ DOMAIN out.entries = 1..Len(out.entries)
    BY <2>2
  <2>4. ASSUME NEW e \in DOMAIN out.entries, out.entries[e] # None PROVE out.entries[e].findings \in Seq(Quoted)
    <3> DEFINE entry == out.entries[e]
               X == ToSet(entry.findings)
    <3>1. entry \in ToSet(out.entries) /\ entry # None
      BY <2>4 DEF ToSet
    <3>2. X \subseteq Quoted
      BY <2>1, <2>2, <3>1 DEF Quoted
    <3>3. entry.findings \in Seq(X)
      BY <2>2, <3>1
    <3> HIDE DEF X
    <3> QED BY <3>2, <3>3
  <2> QED BY <2>1, <2>3, <2>4
<1> QED BY <1>1, <1>2

LEMMA RawsAreQuoted == ASSUME NEW out \in Outputs \cup {None} PROVE Raws(out) \in Seq(Quoted)
<1> DEFINE entries == Entries(out)
           n == Len(entries)
           lists == [e \in DOMAIN entries |-> IF entries[e] = None THEN <<>> ELSE entries[e].findings]
<1>1. n \in Nat /\ DOMAIN entries = 1..n /\ \A e \in DOMAIN entries : entries[e] # None => entries[e].findings \in Seq(Quoted)
  BY OutputIs
<1> HIDE DEF n, entries
<1>2. \A i \in 1..n : lists[i] \in Seq(Quoted)
  BY <1>1
<1>3. DOMAIN lists = 1..n
  BY <1>1
<1>4. Raws(out) = Joined(lists)
  BY Zenon DEF Raws, entries
<1> HIDE DEF lists
<1> QED BY <1>1, <1>2, <1>3, <1>4, JoinedIsTyped

\* Whatever the variant, what is parsed of the outputs are findings.
LEMMA ParsedIsTyped ==
  ASSUME NEW variant, NEW m \in Nat, NEW outs, DOMAIN outs = 1..m, \A i \in 1..m : outs[i] \in Outputs \cup {None}
  PROVE  Parsed(variant, outs) \in Seq(AuditFinding)
<1> DEFINE raws(i) == Raws(outs[i])
           retyped(i) == [k \in DOMAIN raws(i) |-> [raws(i)[k] EXCEPT !.type = TYPES[i]]]
           part(i) == CASE variant = "v1"  -> ParseFindings(raws(i), None)
                        [] variant = "v2b" -> ParseFindings(retyped(i), None)
                        [] variant \in Grounding -> ParseAnalysis(Entries(outs[i]))
                        [] OTHER           -> ParseAnalysis(FlattenAnalyse(Entries(outs[i])))
           lists == [i \in DOMAIN outs |-> part(i)]
<1>1. ASSUME NEW i \in 1..m PROVE part(i) \in Seq(AuditFinding)
  <2> DEFINE r == raws(i)
             n == Len(r)
             out == outs[i]
             entries == Entries(out)
             k == Len(entries)
  <2>1. r \in Seq(Quoted)
    BY RawsAreQuoted
  <2> HIDE DEF r
  <2>2. /\ n \in Nat /\ DOMAIN r = 1..n
        /\ \A x \in 1..n : r[x] \in Quoted
    BY <2>1
  <2>3. \A x \in 1..n : {r[x].quote_a, r[x].quote_b} \subseteq Quotes \cup {None}
    BY <2>2 DEF Quoted
  <2> HIDE DEF n
  <2>4. ParseFindings(r, None) \in Seq(AuditFinding)
    BY <2>2, <2>3, FindingsAreTyped
  <2>5. ParseFindings(retyped(i), None) \in Seq(AuditFinding)
    <3> DEFINE q == [x \in DOMAIN r |-> [r[x] EXCEPT !.type = TYPES[i]]]
    <3>1. DOMAIN q = 1..n
      BY <2>2
    <3>2. ASSUME NEW x \in 1..n PROVE {q[x].quote_a, q[x].quote_b} \subseteq Quotes \cup {None}
      <4>1. q[x] = [r[x] EXCEPT !.type = TYPES[i]] /\ DOMAIN r[x] = {"type", "quote_a", "quote_b", "severity"}
        BY <2>2, <3>2 DEF Quoted
      <4>2. q[x].quote_a = r[x].quote_a /\ q[x].quote_b = r[x].quote_b
        BY <4>1
      <4> QED BY <2>3, <4>2
    <3>3. q = retyped(i)
      BY DEF r
    <3> HIDE DEF q
    <3>4. ParseFindings(q, None) \in Seq(AuditFinding)
      BY <2>2, <3>1, <3>2, FindingsAreTyped
    <3> QED BY <3>3, <3>4
  <2> DEFINE flat == FlattenAnalyse(entries)
  <2>6. ParseAnalysis(entries) \in Seq(AuditFinding) /\ ParseAnalysis(flat) \in Seq(AuditFinding)
    <3>1. out \in Outputs \cup {None}
      OBVIOUS
    <3> HIDE DEF out
    <3>2. k \in Nat /\ DOMAIN entries = 1..k /\ \A e \in DOMAIN entries : entries[e] # None => entries[e].findings \in Seq(Quoted)
      BY <3>1, OutputIs
    <3> HIDE DEF k, entries
    <3>3. ASSUME NEW e \in 1..k, entries[e] # None
          PROVE  LET l == entries[e].findings IN
                 /\ Len(l) \in Nat /\ DOMAIN l = 1..Len(l) /\ \A x \in DOMAIN l : l[x] \in Quoted
                 /\ \A x \in DOMAIN l : {l[x].quote_a, l[x].quote_b} \subseteq Quotes \cup {None}
      <4> DEFINE l == entries[e].findings
      <4>1. l \in Seq(Quoted)
        BY <3>2, <3>3
      <4> HIDE DEF l
      <4>2. Len(l) \in Nat /\ DOMAIN l = 1..Len(l) /\ \A x \in DOMAIN l : l[x] \in Quoted
        BY <4>1
      <4>3. \A x \in DOMAIN l : {l[x].quote_a, l[x].quote_b} \subseteq Quotes \cup {None}
        BY <4>2 DEF Quoted
      <4> QED BY <4>2, <4>3 DEF l
    <3>4. EntriesAreLists(entries, k)
      BY <3>3 DEF EntriesAreLists
    <3>5. DOMAIN flat = 1..k /\ EntriesAreLists(flat, k)
      <4>1. DOMAIN flat = 1..k
        BY <3>2 DEF FlattenAnalyse
      <4> SUFFICES ASSUME NEW e \in 1..k, flat[e] # None
                   PROVE  LET l == flat[e].findings IN
                          /\ Len(l) \in Nat /\ DOMAIN l = 1..Len(l)
                          /\ \A x \in DOMAIN l : {l[x].quote_a, l[x].quote_b} \subseteq Quotes \cup {None}
        BY <4>1 DEF EntriesAreLists
      <4> DEFINE l == entries[e].findings
                 type == entries[e].type
                 q == [x \in DOMAIN l |-> [l[x] EXCEPT !.type = type]]
      <4>2. entries[e] # None /\ flat[e].findings = q
        BY <3>2 DEF FlattenAnalyse
      <4>3. /\ Len(l) \in Nat /\ DOMAIN l = 1..Len(l) /\ \A x \in DOMAIN l : l[x] \in Quoted
            /\ \A x \in DOMAIN l : {l[x].quote_a, l[x].quote_b} \subseteq Quotes \cup {None}
        BY <3>3, <4>2
      <4> HIDE DEF l, type
      <4>4. Len(q) = Len(l) /\ DOMAIN q = 1..Len(l)
        BY <4>3
      <4>5. ASSUME NEW x \in DOMAIN l PROVE q[x].quote_a = l[x].quote_a /\ q[x].quote_b = l[x].quote_b
        <5>1. q[x] = [l[x] EXCEPT !.type = type] /\ DOMAIN l[x] = {"type", "quote_a", "quote_b", "severity"}
          BY <4>3, <4>5 DEF Quoted
        <5> QED BY <5>1
      <4> HIDE DEF q
      <4> QED BY <4>2, <4>3, <4>4, <4>5
    <3> HIDE DEF flat
    <3> QED BY <3>2, <3>4, <3>5, AnalysisIsTyped
  <2>7. part(i) \in {ParseFindings(r, None), ParseFindings(retyped(i), None), ParseAnalysis(entries), ParseAnalysis(flat)}
    <3> HIDE DEF retyped
    <3>0. "v1" \notin Grounding /\ "v2b" \notin Grounding
      BY DEF Grounding
    <3>1. CASE variant = "v1"
      BY <3>0, <3>1 DEF r
    <3>2. CASE variant = "v2b"
      BY <3>0, <3>2 DEF r
    <3>3. CASE variant \in Grounding
      BY <3>0, <3>3 DEF r
    <3>4. CASE variant \notin {"v1", "v2b"} \cup Grounding
      BY <3>4 DEF r
    <3> QED BY <3>1, <3>2, <3>3, <3>4
  <2> HIDE DEF part, retyped, entries, flat
  <2> QED BY <2>4, <2>5, <2>6, <2>7
<1>2. Parsed(variant, outs) = Joined(lists)
  BY Zenon DEF Parsed
<1> HIDE DEF part
<1>3. DOMAIN lists = 1..m /\ \A i \in 1..m : lists[i] \in Seq(AuditFinding)
  BY <1>1
<1> HIDE DEF lists
<1> QED BY <1>2, <1>3, JoinedIsTyped

\* The quotes of a merge are those of one of its findings.
LEMMA MergeQuotes ==
  ASSUME NEW X, X \in SUBSET AuditFinding, NEW cluster \in Seq(X) \ {<<>>}
  PROVE  \E f \in X : Merge(cluster).quote_a = f.quote_a /\ Merge(cluster).quote_b = f.quote_b
<1> DEFINE s(i) == Specificity(cluster[i].type)
           Rank(i) == <<s(i), i>>
           First(i) == \A j \in DOMAIN cluster : Rank(i)[1] < Rank(j)[1] \/ (Rank(i)[1] = Rank(j)[1] /\ i <= j)
           n == Len(cluster)
           R == {s(i) : i \in 1..n}
<1>1. n \in Nat \ {0} /\ DOMAIN cluster = 1..n /\ \A i \in 1..n : cluster[i] \in X
  OBVIOUS
<1>2. \A i \in 1..n : s(i) \in Nat
  <2> SUFFICES ASSUME NEW i \in 1..n PROVE s(i) \in Nat
    OBVIOUS
  <2> DEFINE type == cluster[i].type
  <2>1. type \in InconsistencyType
    BY <1>1 DEF AuditFinding
  <2> HIDE DEF type
  <2>2. \E k \in DOMAIN SPECIFICITY : SPECIFICITY[k] = type
    BY <2>1 DEF InconsistencyType
  <2>3. Specificity(type) \in DOMAIN SPECIFICITY
    BY <2>2 DEF Specificity
  <2>4. DOMAIN SPECIFICITY = 1..6
    BY DEF SPECIFICITY
  <2>5. Specificity(type) \in Nat
    <3> DEFINE z == Specificity(type)
    <3> HIDE DEF z
    <3>1. z \in 1..6
      BY <2>3, <2>4 DEF z
    <3> QED BY <3>1 DEF z
  <2> QED BY <2>5 DEF type
<1> HIDE DEF n, s
<1>3. PICK low \in R : \A x \in R : low <= x
  <2>1. R \in SUBSET Nat /\ R # {}
    <3>1. 1 \in 1..n
      BY <1>1
    <3> QED BY <1>2, <3>1
  <2> HIDE DEF R
  <2> QED BY <2>1, SmallestOf
<1> DEFINE P == {i \in 1..n : s(i) = low}
<1>4. PICK i \in P : \A j \in P : i <= j
  <2>1. P \in SUBSET Nat /\ P # {}
    BY <1>1, <1>3
  <2> HIDE DEF P
  <2> QED BY <2>1, SmallestOf
<1>5. First(i) /\ i \in DOMAIN cluster
  <2> SUFFICES ASSUME NEW j \in 1..n PROVE s(i) < s(j) \/ (s(i) = s(j) /\ i <= j)
    BY <1>1, <1>4
  <2>1. s(i) = low /\ low <= s(j) /\ s(j) \in Nat /\ low \in Nat
    BY <1>2, <1>3, <1>4
  <2>2. CASE s(j) = low
    BY <1>4, <2>1, <2>2
  <2>3. CASE s(j) # low
    BY <2>1, <2>3
  <2> QED BY <2>2, <2>3
<1> DEFINE kept == CHOOSE k \in DOMAIN cluster : First(k)
<1>6. kept \in DOMAIN cluster
  <2> HIDE DEF First
  <2> QED BY <1>5
<1>7. Merge(cluster).quote_a = cluster[kept].quote_a /\ Merge(cluster).quote_b = cluster[kept].quote_b
  BY Zenon DEF Merge, s
<1> HIDE DEF kept
<1> QED BY <1>1, <1>6, <1>7

\* What is counted for a case is a list, and each of its findings quotes the narrative when the
\* variant looks for the quotes.
LEMMA DetectedIs ==
  ASSUME NEW variant, NEW m \in Nat, NEW outs, DOMAIN outs = 1..m, \A i \in 1..m : outs[i] \in Outputs \cup {None}
  PROVE  /\ Len(Detected(variant, outs)) \in Nat
         /\ DOMAIN Detected(variant, outs) = 1..Len(Detected(variant, outs))
         /\ variant \in Grounding => \A n \in DOMAIN Detected(variant, outs) : IsGrounded(Detected(variant, outs)[n])
<1> DEFINE all == Parsed(variant, outs)
           S == {f \in ToSet(all) : IsGrounded(f)}
           X == IF variant \in Grounding THEN S ELSE AuditFinding
           findings == IF variant \in Grounding THEN KeepGrounded(all) ELSE all
           clusters == FoldLeft(Clustered, <<>>, findings)
           merged == [c \in DOMAIN clusters |-> Merge(clusters[c])]
<1>1. all \in Seq(AuditFinding)
  BY ParsedIsTyped
<1>2. Detected(variant, outs) = IF args.use_dedup THEN merged ELSE findings
  BY Zenon DEF Detected, Deduplicate
<1> HIDE DEF all
<1>3. KeepGrounded(all) \in Seq(S)
  <2> DEFINE k == Len(all)
  <2>1. k \in Nat /\ DOMAIN all = 1..k
    BY <1>1
  <2>2. KeepGrounded(all) = Only(all, S)
    BY Zenon DEF KeepGrounded
  <2> HIDE DEF k, S
  <2>3. Kept(Only(all, S), all, k, S)
    BY <2>1, OnlyKeeps
  <2> QED BY <2>2, <2>3 DEF Kept
<1>4. S \subseteq AuditFinding
  BY <1>1 DEF ToSet
<1>5. \A f \in S : IsGrounded(f)
  OBVIOUS
<1> HIDE DEF S
<1>6. findings \in Seq(X) /\ X \subseteq AuditFinding /\ (variant \in Grounding => \A f \in X : IsGrounded(f))
  BY <1>1, <1>3, <1>4, <1>5
<1> HIDE DEF findings, X
<1>7. clusters \in Clusters(X)
  BY <1>6, FindingsAreGrouped
<1> HIDE DEF clusters
<1>8. Len(clusters) \in Nat /\ DOMAIN clusters = 1..Len(clusters) /\ \A c \in DOMAIN clusters : clusters[c] \in Seq(X) \ {<<>>}
  <2> DEFINE Y == Seq(X) \ {<<>>}
  <2>1. clusters \in Seq(Y)
    BY <1>7 DEF Clusters
  <2> HIDE DEF Y
  <2>2. Len(clusters) \in Nat /\ DOMAIN clusters = 1..Len(clusters) /\ \A c \in DOMAIN clusters : clusters[c] \in Y
    BY <2>1
  <2> QED BY <2>2 DEF Y
<1>9. ASSUME NEW c \in DOMAIN clusters, variant \in Grounding PROVE IsGrounded(merged[c])
  <2> DEFINE cluster == clusters[c]
  <2>1. cluster \in Seq(X) \ {<<>>}
    BY <1>8
  <2> HIDE DEF cluster
  <2>2. PICK f \in X : Merge(cluster).quote_a = f.quote_a /\ Merge(cluster).quote_b = f.quote_b
    BY <1>6, <2>1, MergeQuotes
  <2>3. merged[c] = Merge(cluster)
    BY DEF cluster
  <2> QED BY <1>6, <1>9, <2>2, <2>3 DEF IsGrounded
<1>10. Len(merged) \in Nat /\ DOMAIN merged = 1..Len(merged)
  <2> DEFINE k == Len(clusters)
  <2>1. k \in Nat /\ DOMAIN clusters = 1..k
    BY <1>8
  <2> HIDE DEF k
  <2>2. merged = [c \in 1..k |-> Merge(clusters[c])]
    BY <2>1
  <2> DEFINE f == [c \in 1..k |-> Merge(clusters[c])]
  <2>3. Len(f) = k /\ DOMAIN f = 1..k
    BY <2>1
  <2> QED BY <2>1, <2>2, <2>3
<1>11. CASE args.use_dedup
  <2>1. Detected(variant, outs) = merged /\ DOMAIN merged = DOMAIN clusters
    BY <1>2, <1>11
  <2> HIDE DEF merged
  <2> QED BY <1>9, <1>10, <2>1
<1>12. CASE ~ args.use_dedup
  <2> HIDE DEF merged
  <2> QED BY <1>2, <1>6, <1>12
<1> QED BY <1>11, <1>12

-----------------------------------------------------------------------------
(* The calls of the contradiction bench.                                   *)

\* The calls that a variant owes to a case, and those that a case has begun.
Contexts(v, context) == IF v \in Grounding /\ context THEN 1 ELSE 0
PerCase(v, context) == PromptsOf(v) + Contexts(v, context)
AsksBegun(d) == Cardinality({i \in DOMAIN d.asks : d.asks[i].status # "waiting"})
Begun(d, v, context) ==
    IF d.stage = "context" THEN AsksBegun(d)
    ELSE IF d.stage = "passes" THEN Contexts(v, context) + AsksBegun(d) ELSE PerCase(v, context)
BegunBy(D, v, context) == [c \in DOMAIN D |-> Begun(D[c], v, context)]

AskRecord == [status : {"waiting", "asking", "answered"}, out : Outputs \cup {None}]
IsFound(found, v) ==
    /\ Len(found) \in Nat /\ DOMAIN found = 1..Len(found)
    /\ v \in Grounding => \A n \in DOMAIN found : IsGrounded(found[n])

\* What _detect has done for a case: it asks for the context, then all its prompts.
IsSlot(d, v, context) ==
    /\ DOMAIN d = {"stage", "asks", "found", "error"} /\ IsFound(d.found, v)
    /\ \/ d.stage = "context" /\ Contexts(v, context) = 1 /\ d.asks \in [1..1 -> AskRecord]
       \/ d.stage = "passes" /\ d.asks \in [1..PromptsOf(v) -> AskRecord]
       \/ d.stage = "done" /\ d.asks = <<>>

\* The calls in flight.
AskedOf(d) == {i \in DOMAIN d.asks : d.asks[i].status = "asking"}
Asking(D) == {ask \in UNION {{c} \X DOMAIN D[c].asks : c \in DOMAIN D} : D[ask[1]].asks[ask[2]].status = "asking"}
FewAsking(D) == IsFiniteSet(Asking(D)) /\ Cardinality(Asking(D)) <= Permits

\* The counter has the calls of the runs that ended, and those that this run has begun.
Owed(line, v) == Len(line.cases) * PerCase(v, line.use_context)
Counted(line, v, run, D, n) ==
    /\ D = NoDetect /\ run # 1 => n = (run - 1) * Owed(line, v)
    /\ D # NoDetect => n = (run - 1) * Owed(line, v) + SumOver(BegunBy(D, v, line.use_context))

\* A run, and a row of the summary.
CleanOf(line) == {c \in DOMAIN line.cases : line.cases[c].controle_propre}
IsRun(run, line) ==
    /\ run.false_pos <= run.detected
    /\ CleanOf(line) = {} => run.false_pos = 0
IsRow(row, line) ==
    /\ row.calls = line.runs * Len(line.cases) * PerCase(row.variant, line.use_context)
    /\ DOMAIN row.per_run = 1..line.runs /\ \A n \in DOMAIN row.per_run : IsRun(row.per_run[n], line)

TurnInv == args \in Arguments /\ turn \in [variant : Nat, run : 1..args.runs] /\ counter \in Nat
DetectInv ==
    /\ detect # NoDetect => Running /\ DOMAIN detect = DOMAIN args.cases
    /\ \A c \in DOMAIN detect : IsSlot(detect[c], Variant, args.use_context)
    /\ FewAsking(detect)
CountInv == Counted(args, Variant, turn.run, detect, counter)
RunsInv == IsList(per_run) /\ Len(per_run) = turn.run - 1 /\ \A n \in DOMAIN per_run : IsRun(per_run[n], args)
SummaryInv == IsList(summary) /\ \A r \in DOMAIN summary : IsRow(summary[r], args)

ContradictionInv == TurnInv /\ DetectInv /\ CountInv /\ RunsInv /\ SummaryInv

LEMMA Prompts == \A v, context : PromptsOf(v) \in Nat \ {0} /\ Contexts(v, context) \in {0, 1} /\ PerCase(v, context) \in Nat
<1>1. Len(TYPES) = 6
  BY DEF TYPES
<1> QED BY <1>1 DEF PromptsOf, Contexts, PerCase

LEMMA ArgsAre ==
  ASSUME NEW line \in Arguments
  PROVE  /\ line.runs \in Nat \ {0} /\ Len(line.cases) \in Nat /\ DOMAIN line.cases = 1..Len(line.cases)
         /\ IsFiniteSet(DOMAIN line.cases) /\ Cardinality(DOMAIN line.cases) = Len(line.cases)
<1>1. line.runs \in Nat \ {0} /\ line.cases \in Seq(ToSet(line.cases))
  BY ArgumentsAssumption
<1>2. Len(line.cases) \in Nat /\ DOMAIN line.cases = 1..Len(line.cases)
  BY <1>1
<1> DEFINE n == Len(line.cases)
<1>3. IsFiniteSet(1..n) /\ Cardinality(1..n) = n
  <2> HIDE DEF n
  <2>1. n \in Nat
    BY <1>2 DEF n
  <2> QED BY <2>1, FS_Interval
<1> QED BY <1>1, <1>2, <1>3

LEMMA AskingIs ==
  ASSUME NEW D
  PROVE  /\ \A x \in Asking(D) : \E c \in DOMAIN D : \E i \in AskedOf(D[c]) : x = <<c, i>>
         /\ \A c \in DOMAIN D : \A i \in AskedOf(D[c]) : <<c, i>> \in Asking(D)
BY DEF Asking, AskedOf

\* When a case stops asking, no more are in flight; and one more when it asks for one.
LEMMA FewerAsking ==
  ASSUME NEW D, NEW c \in DOMAIN D, NEW d, NEW E, E = [D EXCEPT ![c] = d], FewAsking(D), AskedOf(d) \subseteq AskedOf(D[c])
  PROVE  FewAsking(E)
<1>1. DOMAIN E = DOMAIN D /\ \A b \in DOMAIN D : E[b] = IF b = c THEN d ELSE D[b]
  OBVIOUS
<1>2. Asking(E) \subseteq Asking(D)
  <2> SUFFICES ASSUME NEW x \in Asking(E) PROVE x \in Asking(D)
    OBVIOUS
  <2>1. PICK b \in DOMAIN E : \E i \in AskedOf(E[b]) : x = <<b, i>>
    <3>1. Asking(E) = {ask \in UNION {{b} \X DOMAIN E[b].asks : b \in DOMAIN E} : E[ask[1]].asks[ask[2]].status = "asking"}
      BY Zenon DEF Asking
    <3>2. PICK b \in DOMAIN E : x \in {b} \X DOMAIN E[b].asks /\ E[x[1]].asks[x[2]].status = "asking"
      BY <3>1, Zenon
    <3>3. PICK i \in DOMAIN E[b].asks : x = <<b, i>>
      BY <3>2
    <3> QED BY <3>2, <3>3 DEF AskedOf
  <2>2. PICK i \in AskedOf(E[b]) : x = <<b, i>>
    BY <2>1
  <2>3. i \in AskedOf(D[b]) /\ b \in DOMAIN D
    BY <1>1, <2>1, <2>2
  <2> QED BY <2>2, <2>3, AskingIs
<1>3. IsFiniteSet(Asking(D)) /\ Cardinality(Asking(D)) <= Permits
  BY DEF FewAsking
<1>4. IsFiniteSet(Asking(E)) /\ Cardinality(Asking(E)) <= Cardinality(Asking(D))
  BY <1>2, <1>3, FS_Subset
<1>5. Cardinality(Asking(E)) \in Nat /\ Cardinality(Asking(D)) \in Nat /\ Permits \in Nat
  BY <1>3, <1>4, FS_CardinalityType, BenchAssumption
<1> QED BY <1>3, <1>4, <1>5 DEF FewAsking

LEMMA OneMoreAsking ==
  ASSUME NEW D, NEW c \in DOMAIN D, NEW d, NEW i, NEW E, E = [D EXCEPT ![c] = d],
         FewAsking(D), Cardinality(Asking(D)) < Permits, AskedOf(d) = AskedOf(D[c]) \cup {i}
  PROVE  FewAsking(E)
<1>1. DOMAIN E = DOMAIN D /\ \A b \in DOMAIN D : E[b] = IF b = c THEN d ELSE D[b]
  OBVIOUS
<1>2. Asking(E) \subseteq Asking(D) \cup {<<c, i>>}
  <2> SUFFICES ASSUME NEW x \in Asking(E), x # <<c, i>> PROVE x \in Asking(D)
    OBVIOUS
  <2>1. PICK b \in DOMAIN E : \E j \in AskedOf(E[b]) : x = <<b, j>>
    <3>1. Asking(E) = {ask \in UNION {{b} \X DOMAIN E[b].asks : b \in DOMAIN E} : E[ask[1]].asks[ask[2]].status = "asking"}
      BY Zenon DEF Asking
    <3>2. PICK b \in DOMAIN E : x \in {b} \X DOMAIN E[b].asks /\ E[x[1]].asks[x[2]].status = "asking"
      BY <3>1, Zenon
    <3>3. PICK j \in DOMAIN E[b].asks : x = <<b, j>>
      BY <3>2
    <3> QED BY <3>2, <3>3 DEF AskedOf
  <2>2. PICK j \in AskedOf(E[b]) : x = <<b, j>>
    BY <2>1
  <2>3. j \in AskedOf(D[b]) /\ b \in DOMAIN D
    BY <1>1, <2>1, <2>2
  <2> QED BY <2>2, <2>3, AskingIs
<1> DEFINE S == Asking(D)
           T == S \cup {<<c, i>>}
<1>3. IsFiniteSet(S)
  BY DEF FewAsking
<1> HIDE DEF S
<1>4. IsFiniteSet(T) /\ Cardinality(T) \in {Cardinality(S), Cardinality(S) + 1}
  BY <1>3, FS_AddElement
<1>5. Asking(E) \subseteq T
  BY <1>2 DEF S
<1> HIDE DEF T
<1>6. IsFiniteSet(Asking(E)) /\ Cardinality(Asking(E)) <= Cardinality(T)
  BY <1>4, <1>5, FS_Subset
<1>7. Cardinality(Asking(E)) \in Nat /\ Cardinality(S) \in Nat /\ Permits \in Nat
  BY <1>3, <1>6, FS_CardinalityType, BenchAssumption
<1>8. Cardinality(S) < Permits
  BY DEF S
<1> QED BY <1>4, <1>6, <1>7, <1>8 DEF FewAsking

\* A case has begun some calls, and all that are owed to it when it is done.
LEMMA SentIs ==
  ASSUME NEW d, NEW m \in Nat, DOMAIN d.asks = 1..m
  PROVE  /\ AsksBegun(d) \in Nat
         /\ (\A i \in 1..m : d.asks[i].status # "waiting") => AsksBegun(d) = m
         /\ (\A i \in 1..m : d.asks[i].status = "waiting") => AsksBegun(d) = 0
<1> DEFINE S == {i \in DOMAIN d.asks : d.asks[i].status # "waiting"}
<1>1. IsFiniteSet(1..m) /\ Cardinality(1..m) = m
  BY FS_Interval
<1>2. S \in SUBSET (1..m)
  OBVIOUS
<1>3. Cardinality(S) \in Nat
  <2> HIDE DEF S
  <2> QED BY <1>1, <1>2, FS_Subset, FS_CardinalityType
<1>4. ASSUME \A i \in 1..m : d.asks[i].status # "waiting" PROVE Cardinality(S) = m
  <2>1. S = 1..m
    BY <1>4
  <2> QED BY <1>1, <2>1
<1>5. ASSUME \A i \in 1..m : d.asks[i].status = "waiting" PROVE Cardinality(S) = 0
  <2>1. S = {}
    BY <1>5
  <2> QED BY <2>1, FS_EmptySet
<1> QED BY <1>3, <1>4, <1>5 DEF AsksBegun

LEMMA SlotBegins ==
  ASSUME NEW d, NEW v, NEW context, IsSlot(d, v, context)
  PROVE  Begun(d, v, context) \in Nat /\ (d.stage = "done" => Begun(d, v, context) = PerCase(v, context))
<1>1. CASE d.stage = "context"
  <2>1. DOMAIN d.asks = 1..1 /\ 1 \in Nat
    BY <1>1 DEF IsSlot
  <2>2. AsksBegun(d) \in Nat
    BY <2>1, SentIs
  <2> QED BY <1>1, <2>2 DEF Begun
<1>2. CASE d.stage = "passes"
  <2>1. DOMAIN d.asks = 1..PromptsOf(v) /\ PromptsOf(v) \in Nat
    BY <1>2, Prompts DEF IsSlot
  <2>2. AsksBegun(d) \in Nat
    BY <2>1, SentIs
  <2>3. Contexts(v, context) \in {0, 1}
    BY Prompts
  <2> QED BY <1>2, <2>2, <2>3 DEF Begun
<1>3. CASE d.stage = "done"
  BY <1>3, Prompts DEF Begun
<1> QED BY <1>1, <1>2, <1>3 DEF IsSlot

\* The state of one case changes, and the counter by the calls it has begun.
LEMMA SlotStep ==
  ASSUME ContradictionInv, NEW c \in DOMAIN detect, NEW d, detect' = [detect EXCEPT ![c] = d],
         IsSlot(d, Variant, args.use_context),
         counter' = counter + (Begun(d, Variant, args.use_context) - Begun(detect[c], Variant, args.use_context)),
         counter' \in Nat, FewAsking(detect'), UNCHANGED <<args, turn, per_run, summary>>
  PROVE  ContradictionInv'
<1> DEFINE v == Variant
           context == args.use_context
           D == detect
           E == [detect EXCEPT ![c] = d]
           f == BegunBy(D, v, context)
           g == BegunBy(E, v, context)
<1>1. /\ D # NoDetect => Running /\ DOMAIN D = DOMAIN args.cases
      /\ \A b \in DOMAIN D : IsSlot(D[b], v, context)
  BY DEF ContradictionInv, DetectInv
<1>2. D # NoDetect
  BY DEF NoDetect
<1>3. DOMAIN E = DOMAIN D /\ \A b \in DOMAIN D : E[b] = IF b = c THEN d ELSE D[b]
  OBVIOUS
<1>4. IsFiniteSet(DOMAIN D)
  BY <1>1, <1>2, ArgsAre DEF ContradictionInv, TurnInv
<1> HIDE DEF D, E
<1>5. \A b \in DOMAIN D : IsSlot(E[b], v, context)
  BY <1>1, <1>3
<1> HIDE DEF v, context
<1>6. f \in [DOMAIN D -> Int] /\ \A b \in DOMAIN D : f[b] = Begun(D[b], v, context)
  <2>1. \A b \in DOMAIN D : Begun(D[b], v, context) \in Int
    BY <1>1, SlotBegins
  <2> QED BY <2>1 DEF BegunBy
<1>7. g \in [DOMAIN D -> Int] /\ \A b \in DOMAIN D : g[b] = Begun(E[b], v, context)
  <2>1. \A b \in DOMAIN D : Begun(E[b], v, context) \in Int
    BY <1>5, SlotBegins
  <2> QED BY <1>3, <2>1 DEF BegunBy
<1>8. c \in DOMAIN D
  BY DEF D
<1>9. \A b \in DOMAIN D : b # c => g[b] = f[b]
  BY <1>3, <1>6, <1>7
<1> HIDE DEF f, g
<1>10. SumOver(g) = SumOver(f) + (g[c] - f[c]) /\ SumOver(f) \in Int
  BY <1>4, <1>6, <1>7, <1>8, <1>9, TotalMoves
<1>11. g[c] = Begun(d, v, context) /\ f[c] = Begun(D[c], v, context) /\ g[c] \in Int /\ f[c] \in Int
  BY <1>3, <1>6, <1>7, <1>8
<1>12. detect' # NoDetect /\ detect' = E
  <2>1. c \in DOMAIN detect'
    BY <1>3, <1>8 DEF E
  <2> QED BY <2>1 DEF NoDetect, E
<1>13. CountInv'
  <2> DEFINE w == (turn.run - 1) * Owed(args, v)
  <2>1. counter = w + SumOver(f)
    BY <1>2 DEF ContradictionInv, CountInv, Counted, f, v, context, D
  <2>2. w \in Int
    <3>1. turn.run \in Int
      BY ArgsAre DEF ContradictionInv, TurnInv
    <3>2. Owed(args, v) \in Int
      BY ArgsAre, Prompts DEF ContradictionInv, TurnInv, Owed
    <3> QED BY <3>1, <3>2
  <2>3. counter' = counter + (g[c] - f[c])
    BY <1>11 DEF v, context, D
  <2> HIDE DEF w
  <2>4. counter' = w + SumOver(g)
    BY <1>10, <1>11, <2>1, <2>2, <2>3
  <2>5. Counted(args, v, turn.run, E, counter')
    BY <1>12, <2>4 DEF Counted, w, g, context
  <2> QED BY <1>12, <2>5 DEF CountInv, v, Variant
<1>14. DetectInv'
  <2>1. Running' /\ DOMAIN detect' = DOMAIN args'.cases
    BY <1>1, <1>2, <1>3, <1>12 DEF Running
  <2>2. \A b \in DOMAIN detect' : IsSlot(detect'[b], Variant', args'.use_context)
    BY <1>3, <1>5, <1>12 DEF v, context, Variant
  <2> QED BY <2>1, <2>2 DEF DetectInv
<1>15. TurnInv' /\ RunsInv' /\ SummaryInv'
  BY DEF ContradictionInv, TurnInv, RunsInv, SummaryInv
<1> QED BY <1>13, <1>14, <1>15 DEF ContradictionInv

LEMMA ContradictionStarts == BenchInit => ContradictionInv
<1> SUFFICES ASSUME BenchInit PROVE ContradictionInv
  OBVIOUS
<1>1. /\ args \in Arguments /\ turn = [variant |-> 1, run |-> 1] /\ detect = <<>> /\ counter = 0
      /\ per_run = <<>> /\ summary = <<>>
  BY DEF BenchInit, NoDetect
<1>2. args.runs \in Nat \ {0}
  BY <1>1, ArgsAre
<1>3. TurnInv
  BY <1>1, <1>2 DEF TurnInv
<1>4. DetectInv
  <2>1. IsFiniteSet({}) /\ Cardinality({}) = 0 /\ Permits \in Nat
    BY FS_EmptySet, BenchAssumption
  <2>2. Asking(<<>>) = {}
    BY DEF Asking
  <2>3. FewAsking(<<>>)
    <3>1. 0 <= Permits
      BY <2>1
    <3> QED BY <2>1, <2>2, <3>1, Zenon DEF FewAsking
  <2> QED BY <1>1, <2>3 DEF DetectInv, NoDetect
<1>5. CountInv
  BY <1>1 DEF CountInv, Counted, NoDetect
<1>6. RunsInv /\ SummaryInv
  BY <1>1, EmptyList DEF RunsInv, SummaryInv
<1> QED BY <1>3, <1>4, <1>5, <1>6 DEF ContradictionInv

LEMMA AskIs ==
  ASSUME NEW m \in Nat
  PROVE  /\ Ask(m) \in [1..m -> AskRecord] /\ DOMAIN Ask(m) = 1..m
         /\ \A i \in 1..m : Ask(m)[i].status = "waiting"
BY DEF Ask, AskRecord

LEMMA NewSlot ==
  ASSUME NEW v, NEW context
  PROVE  LET d == IF Contexts(v, context) = 1
                  THEN [stage |-> "context", asks |-> Ask(1), found |-> <<>>, error |-> None]
                  ELSE [stage |-> "passes", asks |-> Ask(PromptsOf(v)), found |-> <<>>, error |-> None] IN
         IsSlot(d, v, context) /\ Begun(d, v, context) = 0 /\ AskedOf(d) = {}
<1>1. IsFound(<<>>, v)
  BY DEF IsFound
<1>2. CASE Contexts(v, context) = 1
  <2> DEFINE d == [stage |-> "context", asks |-> Ask(1), found |-> <<>>, error |-> None]
  <2>1. /\ DOMAIN d = {"stage", "asks", "found", "error"} /\ d.stage = "context" /\ d.asks = Ask(1) /\ d.found = <<>>
    OBVIOUS
  <2> HIDE DEF d
  <2>2. /\ Ask(1) \in [1..1 -> AskRecord] /\ DOMAIN Ask(1) = 1..1 /\ \A i \in 1..1 : Ask(1)[i].status = "waiting"
    BY AskIs
  <2>3. AsksBegun(d) = 0
    BY <2>1, <2>2, SentIs
  <2>4. IsSlot(d, v, context) /\ Begun(d, v, context) = 0 /\ AskedOf(d) = {}
    BY <1>1, <1>2, <2>1, <2>2, <2>3 DEF IsSlot, Begun, AskedOf
  <2> QED BY <1>2, <2>4 DEF d
<1>3. CASE Contexts(v, context) # 1
  <2> DEFINE m == PromptsOf(v)
             d == [stage |-> "passes", asks |-> Ask(m), found |-> <<>>, error |-> None]
  <2>1. /\ DOMAIN d = {"stage", "asks", "found", "error"} /\ d.stage = "passes" /\ d.asks = Ask(m) /\ d.found = <<>>
    OBVIOUS
  <2>2. m \in Nat /\ Contexts(v, context) = 0
    BY <1>3, Prompts
  <2> HIDE DEF d, m
  <2>3. /\ Ask(m) \in [1..m -> AskRecord] /\ DOMAIN Ask(m) = 1..m /\ \A i \in 1..m : Ask(m)[i].status = "waiting"
    BY <2>2, AskIs
  <2>4. AsksBegun(d) = 0
    BY <2>1, <2>2, <2>3, SentIs
  <2>5. IsSlot(d, v, context) /\ Begun(d, v, context) = 0 /\ AskedOf(d) = {}
    BY <1>1, <2>1, <2>2, <2>3, <2>4 DEF IsSlot, Begun, AskedOf, m
  <2> QED BY <1>3, <2>5 DEF d, m
<1> QED BY <1>2, <1>3

\* A run begins with no call, and the counter of a variant with its first run.
LEMMA StartRunStep == ASSUME ContradictionInv, StartRun PROVE ContradictionInv'
<1> DEFINE v == Variant
           context == args.use_context
           C == DOMAIN args.cases
           d == IF Contexts(v, context) = 1
                THEN [stage |-> "context", asks |-> Ask(1), found |-> <<>>, error |-> None]
                ELSE [stage |-> "passes", asks |-> Ask(PromptsOf(v)), found |-> <<>>, error |-> None]
           E == [c \in C |-> d]
           f == BegunBy(E, v, context)
<1>1. /\ Running /\ detect = NoDetect /\ detect' = NewDetect(v) /\ counter' = IF turn.run = 1 THEN 0 ELSE counter
      /\ UNCHANGED <<args, turn, per_run, summary>>
  BY DEF StartRun
<1>2. HasContext(v) <=> Contexts(v, context) = 1
  BY DEF HasContext, Contexts
<1>3. detect' = E
  BY <1>1, <1>2 DEF NewDetect
<1>4. IsSlot(d, v, context) /\ Begun(d, v, context) = 0 /\ AskedOf(d) = {}
  <2> HIDE DEF v, context
  <2> QED BY NewSlot
<1>5. IsFiniteSet(C) /\ args.runs \in Nat /\ turn.run \in 1..args.runs /\ Owed(args, v) \in Nat /\ counter \in Nat
  BY ArgsAre, Prompts DEF ContradictionInv, TurnInv, Owed
<1> HIDE DEF d
<1>6. DOMAIN E = C /\ \A c \in C : E[c] = d
  OBVIOUS
<1>7. Asking(E) = {}
  BY <1>4, <1>6 DEF Asking, AskedOf
<1> HIDE DEF E, C, v, context
<1>8. FewAsking(E)
  BY <1>7, FS_EmptySet, BenchAssumption DEF FewAsking
<1>9. f \in [C -> Int] /\ \A c \in C : f[c] = 0
  <2>1. f = [c \in C |-> Begun(E[c], v, context)]
    BY <1>6 DEF BegunBy
  <2>2. \A c \in C : f[c] = 0
    BY <1>4, <1>6, <2>1
  <2> QED BY <2>1, <2>2
<1>10. SumOver(f) = 0
  <2>1. Cardinality(C) \in Nat
    BY <1>5, FS_CardinalityType
  <2> HIDE DEF f
  <2>2. SumOver(f) = 0 * Cardinality(C)
    BY <1>5, <1>9, TotalOfSame
  <2> QED BY <2>1, <2>2
<1>11. DetectInv'
  <2>1. Running' /\ DOMAIN detect' = DOMAIN args'.cases /\ FewAsking(detect')
    BY <1>1, <1>3, <1>6, <1>8 DEF Running, C
  <2>2. \A c \in DOMAIN detect' : IsSlot(detect'[c], Variant', args'.use_context)
    BY <1>1, <1>3, <1>4, <1>6 DEF v, context, Variant
  <2> QED BY <2>1, <2>2 DEF DetectInv
<1>12. CountInv'
  <2>1. Counted(args, v, turn.run, E, counter')
    <3>1. CASE turn.run = 1
      BY <1>1, <1>5, <1>10, <3>1 DEF Counted, f, context
    <3>2. CASE turn.run # 1
      <4>1. counter = (turn.run - 1) * Owed(args, v)
        BY <1>1, <3>2 DEF ContradictionInv, CountInv, Counted, v
      <4>2. counter' = counter
        BY <1>1, <3>2
      <4>3. counter' = (turn.run - 1) * Owed(args, v) + SumOver(f)
        BY <1>5, <1>10, <4>1, <4>2
      <4> QED BY <4>1, <4>2, <4>3 DEF Counted, f, context
    <3> QED BY <3>1, <3>2
  <2> QED BY <1>1, <1>3, <2>1 DEF CountInv, v, Variant
<1>13. TurnInv' /\ RunsInv' /\ SummaryInv'
  BY <1>1, <1>5 DEF ContradictionInv, TurnInv, RunsInv, SummaryInv
<1> QED BY <1>11, <1>12, <1>13 DEF ContradictionInv

\* What a case is when its stage has asks.
LEMMA SlotHas ==
  ASSUME NEW d, NEW v, NEW context, IsSlot(d, v, context), NEW i \in DOMAIN d.asks
  PROVE  /\ d.stage \in {"context", "passes"} /\ DOMAIN d = {"stage", "asks", "found", "error"} /\ IsFound(d.found, v)
         /\ \E m \in Nat : /\ m = (IF d.stage = "context" THEN 1 ELSE PromptsOf(v))
                           /\ d.asks \in [1..m -> AskRecord] /\ i \in 1..m
<1>1. DOMAIN d = {"stage", "asks", "found", "error"} /\ IsFound(d.found, v)
  BY DEF IsSlot
<1>2. CASE d.stage = "context" /\ d.asks \in [1..1 -> AskRecord]
  BY <1>1, <1>2
<1>3. CASE d.stage = "passes" /\ d.asks \in [1..PromptsOf(v) -> AskRecord]
  BY <1>1, <1>3, Prompts
<1>4. d.stage # "done"
  BY DEF IsSlot
<1> QED BY <1>2, <1>3, <1>4 DEF IsSlot

LEMMA StartAskStep == ASSUME ContradictionInv, NEW c \in DOMAIN detect, NEW i \in DOMAIN detect[c].asks, StartAsk(c, i) PROVE ContradictionInv'
<1> DEFINE v == Variant
           context == args.use_context
           old == detect[c]
           d == [old EXCEPT !.asks = [old.asks EXCEPT ![i] = [old.asks[i] EXCEPT !.status = "asking"]]]
           D == detect
           E == detect'
<1>1. /\ old.asks[i].status = "waiting" /\ InFlight < Permits /\ counter' = counter + 1
      /\ UNCHANGED <<args, turn, per_run, summary>>
  BY DEF StartAsk
<1>2. E = [D EXCEPT ![c] = d]
  BY DEF StartAsk
<1>3. IsSlot(old, v, context) /\ counter \in Nat /\ FewAsking(D)
  BY DEF ContradictionInv, DetectInv, TurnInv
<1>4. Cardinality(Asking(D)) < Permits
  BY <1>1 DEF InFlight, Asking
<1> HIDE DEF old, v, context, D, E
<1>5. i \in DOMAIN old.asks /\ c \in DOMAIN D
  BY DEF old, D
<1>6. /\ old.stage \in {"context", "passes"} /\ DOMAIN old = {"stage", "asks", "found", "error"} /\ IsFound(old.found, v)
      /\ \E m \in Nat : /\ m = (IF old.stage = "context" THEN 1 ELSE PromptsOf(v))
                        /\ old.asks \in [1..m -> AskRecord] /\ i \in 1..m
  BY <1>3, <1>5, SlotHas
<1>7. PICK m \in Nat : /\ m = (IF old.stage = "context" THEN 1 ELSE PromptsOf(v))
                       /\ old.asks \in [1..m -> AskRecord] /\ i \in 1..m
  BY <1>6
<1>8. /\ d.stage = old.stage /\ d.found = old.found /\ DOMAIN d = DOMAIN old
      /\ d.asks = [old.asks EXCEPT ![i] = [old.asks[i] EXCEPT !.status = "asking"]]
  BY <1>6
<1> HIDE DEF d
<1>9. /\ d.asks \in [1..m -> AskRecord] /\ d.asks[i].status = "asking"
      /\ \A j \in 1..m : j # i => d.asks[j] = old.asks[j]
  <2>1. old.asks[i] \in AskRecord
    BY <1>7
  <2>2. [old.asks[i] EXCEPT !.status = "asking"] \in AskRecord /\ [old.asks[i] EXCEPT !.status = "asking"].status = "asking"
    BY <2>1 DEF AskRecord
  <2> QED BY <1>7, <1>8, <2>2
<1>10. IsSlot(d, v, context)
  BY <1>3, <1>6, <1>7, <1>8, <1>9 DEF IsSlot
<1>11. AskedOf(d) = AskedOf(old) \cup {i}
  BY <1>7, <1>9 DEF AskedOf
<1>12. FewAsking(E)
  <2>1. AskedOf(d) = AskedOf(D[c]) \cup {i}
    BY <1>11 DEF old, D
  <2> QED BY <1>2, <1>3, <1>4, <1>5, <2>1, OneMoreAsking
<1>13. AsksBegun(d) = AsksBegun(old) + 1 /\ AsksBegun(old) \in Nat
  <2> DEFINE S == {j \in 1..m : old.asks[j].status # "waiting"}
             T == {j \in 1..m : d.asks[j].status # "waiting"}
  <2>1. AsksBegun(old) = Cardinality(S) /\ AsksBegun(d) = Cardinality(T)
    BY <1>7, <1>9 DEF AsksBegun
  <2>2. T = S \cup {i} /\ i \notin S
    BY <1>1, <1>7, <1>9
  <2>3. IsFiniteSet(S)
    <3>1. IsFiniteSet(1..m) /\ S \in SUBSET (1..m)
      BY FS_Interval
    <3> HIDE DEF S
    <3> QED BY <3>1, FS_Subset
  <2> HIDE DEF S, T
  <2>4. Cardinality(T) = Cardinality(S) + 1 /\ Cardinality(S) \in Nat
    BY <2>2, <2>3, FS_AddElement, FS_CardinalityType
  <2> QED BY <2>1, <2>4
<1>14. Begun(d, v, context) = Begun(old, v, context) + 1 /\ Begun(old, v, context) \in Nat
  <2>1. Contexts(v, context) \in {0, 1}
    BY Prompts
  <2> QED BY <1>6, <1>8, <1>13, <2>1 DEF Begun
<1>15. counter' = counter + (Begun(d, v, context) - Begun(old, v, context)) /\ counter' \in Nat
  BY <1>1, <1>3, <1>14
<1> QED BY <1>1, <1>2, <1>10, <1>12, <1>15, SlotStep DEF v, context, old, D, E

LEMMA EndAskStep == ASSUME ContradictionInv, NEW c \in DOMAIN detect, NEW i \in DOMAIN detect[c].asks, EndAsk(c, i) PROVE ContradictionInv'
<1> DEFINE v == Variant
           context == args.use_context
           old == detect[c]
           D == detect
           E == detect'
<1>1. PICK out \in Outputs : detect' = [detect EXCEPT ![c].asks[i] = [status |-> "answered", out |-> out]]
  BY DEF EndAsk
<1> DEFINE d == [old EXCEPT !.asks = [old.asks EXCEPT ![i] = [status |-> "answered", out |-> out]]]
<1>2. E = [D EXCEPT ![c] = d]
  BY <1>1
<1>3. old.asks[i].status = "asking" /\ UNCHANGED <<args, turn, counter, per_run, summary>>
  BY DEF EndAsk
<1>4. IsSlot(old, v, context) /\ counter \in Nat /\ FewAsking(D)
  BY DEF ContradictionInv, DetectInv, TurnInv
<1> HIDE DEF old, v, context, D, E
<1>5. i \in DOMAIN old.asks /\ c \in DOMAIN D
  BY DEF old, D
<1>6. /\ old.stage \in {"context", "passes"} /\ DOMAIN old = {"stage", "asks", "found", "error"} /\ IsFound(old.found, v)
      /\ \E m \in Nat : /\ m = (IF old.stage = "context" THEN 1 ELSE PromptsOf(v))
                        /\ old.asks \in [1..m -> AskRecord] /\ i \in 1..m
  BY <1>4, <1>5, SlotHas
<1>7. PICK m \in Nat : /\ m = (IF old.stage = "context" THEN 1 ELSE PromptsOf(v))
                       /\ old.asks \in [1..m -> AskRecord] /\ i \in 1..m
  BY <1>6
<1>8. /\ d.stage = old.stage /\ d.found = old.found /\ DOMAIN d = DOMAIN old
      /\ d.asks = [old.asks EXCEPT ![i] = [status |-> "answered", out |-> out]]
  BY <1>6
<1> HIDE DEF d
<1>9. /\ d.asks \in [1..m -> AskRecord] /\ d.asks[i].status = "answered"
      /\ \A j \in 1..m : j # i => d.asks[j] = old.asks[j]
  <2>1. [status |-> "answered", out |-> out] \in AskRecord
    BY DEF AskRecord
  <2> QED BY <1>7, <1>8, <2>1
<1>10. IsSlot(d, v, context)
  BY <1>4, <1>6, <1>7, <1>8, <1>9 DEF IsSlot
<1>11. FewAsking(E)
  <2>1. AskedOf(d) \subseteq AskedOf(old)
    BY <1>7, <1>9 DEF AskedOf
  <2>2. AskedOf(d) \subseteq AskedOf(D[c])
    BY <2>1 DEF old, D
  <2> QED BY <1>2, <1>4, <1>5, <2>2, FewerAsking
<1>12. Begun(d, v, context) = Begun(old, v, context) /\ Begun(old, v, context) \in Nat
  <2>1. {j \in 1..m : d.asks[j].status # "waiting"} = {j \in 1..m : old.asks[j].status # "waiting"}
    BY <1>3, <1>7, <1>9 DEF old
  <2>2. AsksBegun(d) = AsksBegun(old)
    BY <1>7, <1>9, <2>1 DEF AsksBegun
  <2> QED BY <1>4, <1>8, <2>2, SlotBegins DEF Begun
<1>13. counter' = counter + (Begun(d, v, context) - Begun(old, v, context)) /\ counter' \in Nat
  BY <1>3, <1>4, <1>12
<1> QED BY <1>2, <1>3, <1>10, <1>11, <1>13, SlotStep DEF v, context, old, D, E

LEMMA KnowContextStep == ASSUME ContradictionInv, NEW c \in DOMAIN detect, KnowContext(c) PROVE ContradictionInv'
<1> DEFINE v == Variant
           context == args.use_context
           old == detect[c]
           m == PromptsOf(v)
           d == [old EXCEPT !.stage = "passes", !.asks = Ask(m)]
           D == detect
           E == detect'
<1>1. E = [D EXCEPT ![c] = d]
  BY DEF KnowContext
<1>2. old.stage = "context" /\ AllAnswered(c) /\ UNCHANGED <<args, turn, counter, per_run, summary>>
  BY DEF KnowContext
<1>3. IsSlot(old, v, context) /\ counter \in Nat /\ FewAsking(D)
  BY DEF ContradictionInv, DetectInv, TurnInv
<1>4. \A i \in DOMAIN old.asks : old.asks[i].status = "answered"
  BY <1>2 DEF AllAnswered
<1> HIDE DEF old, v, context, D, E
<1>5. /\ DOMAIN old = {"stage", "asks", "found", "error"} /\ IsFound(old.found, v)
      /\ Contexts(v, context) = 1 /\ DOMAIN old.asks = 1..1
  BY <1>2, <1>3 DEF IsSlot
<1>6. /\ m \in Nat /\ Ask(m) \in [1..m -> AskRecord] /\ DOMAIN Ask(m) = 1..m
      /\ \A i \in 1..m : Ask(m)[i].status = "waiting"
  <2>1. m \in Nat
    BY Prompts
  <2> HIDE DEF m
  <2> QED BY <2>1, AskIs
<1>7. d.stage = "passes" /\ d.asks = Ask(m) /\ d.found = old.found /\ DOMAIN d = DOMAIN old
  BY <1>5
<1> HIDE DEF d
<1>8. IsSlot(d, v, context)
  BY <1>5, <1>6, <1>7 DEF IsSlot
<1> HIDE DEF m
<1>9. FewAsking(E)
  <2>1. AskedOf(d) = {}
    BY <1>6, <1>7 DEF AskedOf
  <2>2. AskedOf(d) \subseteq AskedOf(D[c]) /\ c \in DOMAIN D
    BY <2>1 DEF D
  <2> QED BY <1>1, <1>3, <2>2, FewerAsking
<1>10. Begun(d, v, context) = Begun(old, v, context) /\ Begun(old, v, context) \in Nat
  <2>1. AsksBegun(old) = 1
    <3>1. \A i \in 1..1 : old.asks[i].status # "waiting"
      BY <1>4, <1>5
    <3> QED BY <1>5, <3>1, SentIs
  <2>2. AsksBegun(d) = 0
    BY <1>6, <1>7, SentIs
  <2> QED BY <1>2, <1>5, <1>7, <2>1, <2>2 DEF Begun, old
<1>11. counter' = counter + (Begun(d, v, context) - Begun(old, v, context)) /\ counter' \in Nat
  BY <1>2, <1>3, <1>10
<1> QED BY <1>1, <1>2, <1>8, <1>9, <1>11, SlotStep DEF v, context, old, D, E

LEMMA EndDetectStep == ASSUME ContradictionInv, NEW c \in DOMAIN detect, EndDetect(c) PROVE ContradictionInv'
<1> DEFINE v == Variant
           context == args.use_context
           old == detect[c]
           m == PromptsOf(v)
           outs == [i \in DOMAIN old.asks |-> old.asks[i].out]
           failed == {i \in DOMAIN outs : outs[i] = None}
           d == IF InError(v, outs) THEN [stage |-> "done", asks |-> <<>>, found |-> <<>>, error |-> "error"]
                ELSE [stage |-> "done", asks |-> <<>>, found |-> Detected(v, outs), error |-> IF failed = {} THEN None ELSE "note"]
           D == detect
           E == detect'
<1>1. E = [D EXCEPT ![c] = d]
  BY Zenon DEF EndDetect
<1>2. old.stage = "passes" /\ AllAnswered(c) /\ UNCHANGED <<args, turn, counter, per_run, summary>>
  BY DEF EndDetect
<1>3. IsSlot(old, v, context) /\ counter \in Nat /\ FewAsking(D)
  BY DEF ContradictionInv, DetectInv, TurnInv
<1>4. \A i \in DOMAIN old.asks : old.asks[i].status = "answered"
  BY <1>2 DEF AllAnswered
<1> HIDE DEF old, v, context, D, E
<1>5. old.asks \in [1..m -> AskRecord] /\ m \in Nat /\ old.stage = "passes"
  BY <1>2, <1>3, Prompts DEF IsSlot, old
<1> HIDE DEF m
<1>6. DOMAIN outs = 1..m /\ \A i \in 1..m : outs[i] \in Outputs \cup {None}
  BY <1>5 DEF AskRecord
<1> HIDE DEF outs, failed
<1>7. IsFound(Detected(v, outs), v)
  BY <1>5, <1>6, DetectedIs DEF IsFound
<1>8. IsFound(<<>>, v)
  BY DEF IsFound
<1>9. /\ DOMAIN d = {"stage", "asks", "found", "error"} /\ d.stage = "done" /\ d.asks = <<>>
      /\ d.found \in {<<>>, Detected(v, outs)}
  OBVIOUS
<1> HIDE DEF d
<1>10. IsSlot(d, v, context)
  BY <1>7, <1>8, <1>9 DEF IsSlot
<1>11. FewAsking(E)
  <2>1. AskedOf(d) = {}
    BY <1>9 DEF AskedOf
  <2>2. AskedOf(d) \subseteq AskedOf(D[c]) /\ c \in DOMAIN D
    BY <2>1 DEF D
  <2> QED BY <1>1, <1>3, <2>2, FewerAsking
<1>12. Begun(d, v, context) = Begun(old, v, context) /\ Begun(old, v, context) \in Nat
  <2>1. AsksBegun(old) = m
    <3>1. DOMAIN old.asks = 1..m /\ \A i \in 1..m : old.asks[i].status # "waiting"
      BY <1>4, <1>5
    <3> QED BY <1>5, <3>1, SentIs
  <2>2. Begun(old, v, context) = Contexts(v, context) + m
    BY <1>5, <2>1 DEF Begun
  <2>3. Begun(d, v, context) = m + Contexts(v, context)
    BY <1>9 DEF Begun, PerCase, m
  <2>4. Contexts(v, context) \in {0, 1}
    BY Prompts
  <2> QED BY <1>5, <2>2, <2>3, <2>4
<1>13. counter' = counter + (Begun(d, v, context) - Begun(old, v, context)) /\ counter' \in Nat
  BY <1>2, <1>3, <1>12
<1> QED BY <1>1, <1>2, <1>10, <1>11, <1>13, SlotStep DEF v, context, old, D, E

\* The last case of a run is done: the run has the calls that its variant owes.
LEMMA DoneRun ==
  ASSUME ContradictionInv, detect # NoDetect, \A c \in DOMAIN detect : detect[c].stage = "done"
  PROVE  counter = turn.run * Owed(args, Variant)
<1> DEFINE v == Variant
           context == args.use_context
           D == detect
           C == DOMAIN args.cases
           f == BegunBy(D, v, context)
           p == PerCase(v, context)
           n == Len(args.cases)
<1>1. DOMAIN D = C /\ (\A c \in C : IsSlot(D[c], v, context) /\ D[c].stage = "done")
  BY DEF ContradictionInv, DetectInv
<1>2. IsFiniteSet(C) /\ Cardinality(C) = n /\ n \in Nat
  BY ArgsAre DEF ContradictionInv, TurnInv
<1>3. counter = (turn.run - 1) * Owed(args, v) + SumOver(f) /\ turn.run \in Nat
  BY ArgsAre DEF ContradictionInv, CountInv, Counted, TurnInv
<1>4. Owed(args, v) = n * p
  BY DEF Owed
<1>5. p \in Nat
  BY Prompts
<1> HIDE DEF D, C, v, context, n, p
<1>6. f \in [C -> Int] /\ \A c \in C : f[c] = p
  <2>1. f = [c \in C |-> Begun(D[c], v, context)]
    BY <1>1 DEF BegunBy
  <2>2. \A c \in C : f[c] = p
    BY <1>1, <2>1, SlotBegins DEF p
  <2> QED BY <1>5, <2>1, <2>2
<1> HIDE DEF f
<1>7. SumOver(f) = p * Cardinality(C)
  BY <1>2, <1>5, <1>6, TotalOfSame
<1> DEFINE w == n * p
           run == turn.run
<1>8. SumOver(f) = w /\ Owed(args, v) = w /\ w \in Int
  BY <1>2, <1>4, <1>5, <1>7
<1> HIDE DEF w, run
<1>9. counter = (run - 1) * w + w /\ run \in Nat /\ w \in Int
  BY <1>3, <1>8 DEF run
<1>10. counter = run * w
  BY <1>9
<1> QED BY <1>8, <1>10 DEF run, v

\* The findings of the controls are among those of the run.
LEMMA RunCounts ==
  ASSUME ContradictionInv, detect # NoDetect
  PROVE  /\ DetectedIn(DOMAIN detect) \in Nat
         /\ IsRun([detected |-> DetectedIn(DOMAIN detect), false_pos |-> DetectedIn(Controls)], args)
<1> DEFINE C == DOMAIN detect
           K == Controls
           R == C \ K
           f == [c \in C |-> Len(detect[c].found)]
           zero(S) == [c \in S |-> 0]
<1>1. C = DOMAIN args.cases /\ \A c \in C : Len(detect[c].found) \in Nat
  BY DEF ContradictionInv, DetectInv, IsSlot, IsFound
<1>2. K \subseteq C /\ K = CleanOf(args)
  BY <1>1 DEF Controls, CleanOf
<1>3. IsFiniteSet(C)
  BY <1>1, ArgsAre DEF ContradictionInv, TurnInv
<1>4. DetectedIn(C) = SumOver(f) /\ DetectedIn(K) = SumOver([c \in K |-> Len(detect[c].found)])
  <2>1. /\ DetectedIn(C) = Total([c \in C |-> Len(detect[c].found)])
        /\ DetectedIn(K) = Total([c \in K |-> Len(detect[c].found)])
    BY Zenon DEF DetectedIn
  <2> QED BY <2>1, TotalIs
<1>5. [c \in K |-> Len(detect[c].found)] = PartOf(f, K)
  BY <1>2 DEF PartOf
<1>6. f \in [C -> Int] /\ \A c \in C : f[c] \in Nat
  BY <1>1
<1> HIDE DEF C, K, f
<1>7. C = K \cup R /\ K \cap R = {}
  BY <1>2
<1>8. IsFiniteSet(K) /\ IsFiniteSet(R)
  <2>1. K \in SUBSET C /\ R \in SUBSET C
    BY <1>2
  <2> HIDE DEF R
  <2> QED BY <1>3, <2>1, FS_Subset
<1> HIDE DEF R
<1>9. SumOver(f) = SumOver(PartOf(f, K)) + SumOver(PartOf(f, R)) /\ SumOver(PartOf(f, K)) \in Int /\ SumOver(PartOf(f, R)) \in Int
  <2>1. f \in [K \cup R -> Int]
    BY <1>6, <1>7
  <2> QED BY <1>7, <1>8, <2>1, TotalOfUnion
<1>10. ASSUME NEW S, S \subseteq C, IsFiniteSet(S) PROVE 0 <= SumOver(PartOf(f, S)) /\ (S = {} => SumOver(PartOf(f, S)) = 0)
  <2> DEFINE g == PartOf(f, S)
             z == zero(S)
  <2>1. g \in [S -> Int] /\ \A c \in S : g[c] \in Nat
    BY <1>6, <1>10 DEF PartOf
  <2>2. z \in [S -> Int] /\ \A c \in S : z[c] = 0
    OBVIOUS
  <2> HIDE DEF g, z
  <2>3. \A c \in S : z[c] <= g[c]
    BY <2>1, <2>2
  <2>4. SumOver(z) <= SumOver(g) /\ SumOver(g) \in Int /\ SumOver(z) \in Int
    BY <1>10, <2>1, <2>2, <2>3, TotalsCompare
  <2>5. Cardinality(S) \in Nat
    BY <1>10, FS_CardinalityType
  <2>6. SumOver(z) = 0 * Cardinality(S)
    BY <1>10, <2>2, TotalOfSame
  <2>7. S = {} => SumOver(g) = 0 * Cardinality(S)
    <3>1. SUFFICES ASSUME S = {} PROVE SumOver(g) = 0 * Cardinality(S)
      OBVIOUS
    <3>2. \A c \in S : g[c] = 0
      BY <3>1
    <3> QED BY <1>10, <2>1, <3>2, TotalOfSame
  <2> QED BY <2>4, <2>5, <2>6, <2>7 DEF g
<1>11. 0 <= SumOver(PartOf(f, K)) /\ 0 <= SumOver(PartOf(f, R)) /\ (K = {} => SumOver(PartOf(f, K)) = 0)
  BY <1>2, <1>7, <1>8, <1>10
<1>12. DetectedIn(C) \in Nat /\ DetectedIn(K) <= DetectedIn(C) /\ (K = {} => DetectedIn(K) = 0)
  BY <1>4, <1>5, <1>9, <1>11
<1> QED BY <1>2, <1>12 DEF IsRun, C, K

LEMMA EndRunStep == ASSUME ContradictionInv, EndRun PROVE ContradictionInv'
<1> DEFINE run == [detected |-> DetectedIn(DOMAIN detect), false_pos |-> DetectedIn(Controls)]
           old == per_run
           list == Append(per_run, run)
           last == turn.run = args.runs
           row == [variant |-> Variant, calls |-> counter, per_run |-> list]
<1>1. /\ detect # NoDetect /\ \A c \in DOMAIN detect : detect[c].stage = "done"
      /\ per_run' = IF last THEN <<>> ELSE list
      /\ summary' = IF last THEN Append(summary, row) ELSE summary
      /\ turn' = IF last THEN [variant |-> turn.variant + 1, run |-> 1] ELSE [turn EXCEPT !.run = @ + 1]
      /\ detect' = NoDetect /\ UNCHANGED <<args, counter>>
  BY DEF EndRun
<1>2. /\ args \in Arguments /\ args.runs \in Nat \ {0} /\ turn \in [variant : Nat, run : 1..args.runs] /\ counter \in Nat
      /\ turn.run \in 1..args.runs /\ turn.run \in Nat
  BY ArgsAre DEF ContradictionInv, TurnInv
<1>3. IsRun(run, args)
  BY <1>1, RunCounts
<1>4. counter = turn.run * Owed(args, Variant)
  BY <1>1, DoneRun
<1>5. TurnInv'
  <2>1. turn' \in [variant : Nat, run : 1..args.runs]
    <3>1. CASE last
      BY <1>1, <1>2, <3>1
    <3>2. CASE ~ last
      <4>1. turn.run + 1 \in 1..args.runs
        BY <1>2, <3>2
      <4>2. turn' = [turn EXCEPT !.run = turn.run + 1]
        BY <1>1, <3>2
      <4> QED BY <1>2, <4>1, <4>2
    <3> QED BY <3>1, <3>2
  <2> QED BY <1>1, <1>2, <2>1 DEF TurnInv
<1>6. DetectInv'
  <2>1. IsFiniteSet({}) /\ Cardinality({}) = 0 /\ Permits \in Nat
    BY FS_EmptySet, BenchAssumption
  <2>2. Asking(<<>>) = {}
    BY DEF Asking
  <2>3. FewAsking(<<>>)
    <3>1. 0 <= Permits
      BY <2>1
    <3> QED BY <2>1, <2>2, <3>1, Zenon DEF FewAsking
  <2> QED BY <1>1, <2>3 DEF DetectInv, NoDetect
<1>7. CountInv'
  <2>1. CASE last
    BY <1>1, <2>1 DEF CountInv, Counted
  <2>2. CASE ~ last
    <3>1. turn'.run = turn.run + 1 /\ turn'.variant = turn.variant
      BY <1>1, <1>2, <2>2
    <3>2. Variant' = Variant
      BY <1>1, <3>1 DEF Variant
    <3>3. (turn'.run - 1) * Owed(args, Variant) = counter
      BY <1>2, <1>4, <3>1
    <3> QED BY <1>1, <3>2, <3>3 DEF CountInv, Counted
  <2> QED BY <2>1, <2>2
<1>8. /\ EndsWith(list, old, run) /\ Len(old) = turn.run - 1 /\ IsList(old)
      /\ \A n \in DOMAIN old : IsRun(old[n], args)
  <2>1. IsList(old) /\ Len(old) = turn.run - 1 /\ \A n \in DOMAIN old : IsRun(old[n], args)
    BY DEF ContradictionInv, RunsInv
  <2> HIDE DEF old, run
  <2>2. list = Append(old, run)
    BY DEF old
  <2> HIDE DEF list
  <2>3. EndsWith(list, old, run)
    BY <2>1, <2>2, Appended
  <2> QED BY <2>1, <2>3
<1> HIDE DEF list, run, old
<1>9. IsList(list) /\ Len(list) = turn.run /\ DOMAIN list = 1..turn.run /\ \A n \in DOMAIN list : IsRun(list[n], args)
  <2>1. DOMAIN old = 1..Len(old) /\ Len(old) + 1 = turn.run /\ Len(old) \in Nat
    BY <1>2, <1>8, ListHas
  <2>2. IsList(list) /\ Len(list) = turn.run /\ DOMAIN list = 1..turn.run
    BY <1>8, <2>1 DEF EndsWith
  <2>3. ASSUME NEW n \in 1..turn.run PROVE IsRun(list[n], args)
    <3>1. list[n] = IF n = turn.run THEN run ELSE old[n]
      BY <1>8, <2>1 DEF EndsWith
    <3>2. CASE n = turn.run
      BY <1>3, <3>1, <3>2
    <3>3. CASE n # turn.run
      <4>1. n \in DOMAIN old
        BY <1>2, <2>1, <3>3
      <4> QED BY <1>8, <3>1, <3>3, <4>1
    <3> QED BY <3>2, <3>3
  <2> QED BY <2>2, <2>3
<1>10. RunsInv'
  <2>1. CASE last
    BY <1>1, <2>1, EmptyList DEF RunsInv
  <2>2. CASE ~ last
    <3>1. turn'.run = turn.run + 1 /\ per_run' = list
      BY <1>1, <1>2, <2>2
    <3> QED BY <1>1, <1>2, <1>9, <3>1 DEF RunsInv
  <2> QED BY <2>1, <2>2
<1>11. SummaryInv'
  <2>1. CASE ~ last
    BY <1>1, <2>1 DEF ContradictionInv, SummaryInv
  <2>2. CASE last
    <3> DEFINE rows == summary
               new == summary'
    <3>1. IsList(rows) /\ \A r \in DOMAIN rows : IsRow(rows[r], args)
      BY DEF ContradictionInv, SummaryInv
    <3>2. IsRow(row, args)
      <4>1. row.variant = Variant /\ row.calls = counter /\ row.per_run = list
        OBVIOUS
      <4> DEFINE p == PerCase(Variant, args.use_context)
                 n == Len(args.cases)
                 k == args.runs
      <4>2. counter = k * (n * p) /\ k \in Nat /\ n \in Nat /\ p \in Nat
        BY <1>2, <1>4, <2>2, ArgsAre, Prompts DEF Owed
      <4> HIDE DEF p, n, k
      <4>3. counter = k * n * p
        BY <4>2
      <4> HIDE DEF row
      <4> QED BY <1>9, <2>2, <4>1, <4>3 DEF IsRow, p, n, k
    <3> HIDE DEF row
    <3>3. new = Append(rows, row)
      BY <1>1, <2>2
    <3> HIDE DEF rows, new
    <3>4. EndsWith(new, rows, row)
      BY <3>1, <3>3, Appended
    <3>5. Len(rows) \in Nat /\ DOMAIN rows = 1..Len(rows)
      BY <3>1, ListHas
    <3>6. IsList(new) /\ \A r \in DOMAIN new : IsRow(new[r], args)
      BY <3>1, <3>2, <3>4, <3>5 DEF EndsWith
    <3> QED BY <1>1, <3>6 DEF SummaryInv, new
  <2> QED BY <2>1, <2>2
<1> QED BY <1>5, <1>6, <1>7, <1>10, <1>11 DEF ContradictionInv

LEMMA ContradictionKept == ASSUME ContradictionInv, UNCHANGED contradictionVars PROVE ContradictionInv'
BY DEF ContradictionInv, TurnInv, DetectInv, CountInv, RunsInv, SummaryInv, contradictionVars, Running, Variant

LEMMA ContradictionIsSound == ASSUME ContradictionInv PROVE CallsAreCounted /\ FindingsAreReal
<1>1. CallsAreCounted
  <2>1. InFlight <= Permits
    BY DEF ContradictionInv, DetectInv, FewAsking, InFlight, Asking
  <2>2. ASSUME NEW r \in DOMAIN summary
        PROVE  LET v == summary[r].variant IN
               summary[r].calls = args.runs * Len(args.cases) * (PromptsOf(v) + IF HasContext(v) THEN 1 ELSE 0)
    <3>1. summary[r].calls = args.runs * Len(args.cases) * PerCase(summary[r].variant, args.use_context)
      BY DEF ContradictionInv, SummaryInv, IsRow
    <3> QED BY <3>1 DEF PerCase, Contexts, HasContext
  <2> QED BY <2>1, <2>2 DEF CallsAreCounted
<1>2. FindingsAreReal
  <2>1. ASSUME NEW r \in DOMAIN summary, NEW n \in 1..args.runs
        PROVE  /\ summary[r].per_run[n].false_pos <= summary[r].per_run[n].detected
               /\ Controls = {} => summary[r].per_run[n].false_pos = 0
    <3>1. IsRun(summary[r].per_run[n], args)
      BY DEF ContradictionInv, SummaryInv, IsRow
    <3> QED BY <3>1 DEF IsRun, Controls, CleanOf
  <2>2. ASSUME NEW c \in DOMAIN detect, Variant \in Grounding
        PROVE  \A n \in DOMAIN detect[c].found : IsGrounded(detect[c].found[n])
    BY <2>2 DEF ContradictionInv, DetectInv, IsSlot, IsFound
  <2> QED BY <2>1, <2>2 DEF FindingsAreReal
<1> QED BY <1>1, <1>2

-----------------------------------------------------------------------------
(* Both benches.                                                           *)

BenchInv == ExceptionInv /\ ContradictionInv

LEMMA BenchStep == BenchInv /\ [BenchNext]_benchVars => BenchInv'
<1> SUFFICES ASSUME BenchInv, [BenchNext]_benchVars PROVE BenchInv'
  OBVIOUS
<1>1. ExceptionInv /\ ContradictionInv
  BY DEF BenchInv
<1>2. CASE UNCHANGED benchVars
  <2>1. UNCHANGED exceptionVars /\ UNCHANGED contradictionVars
    BY <1>2 DEF benchVars
  <2> QED BY <1>1, <2>1, ExceptionKept, ContradictionKept DEF BenchInv
<1>3. CASE ExceptionNext
  <2>1. UNCHANGED contradictionVars
    BY <1>3 DEF ExceptionNext, NextTemperature, ScoreCase, EndTemperature
  <2>2. ExceptionInv'
    BY <1>1, <1>3, NextTemperatureStep, ScoreCaseStep, EndTemperatureStep DEF ExceptionNext
  <2> QED BY <1>1, <2>1, <2>2, ContradictionKept DEF BenchInv
<1>4. CASE ContradictionNext
  <2>1. CASE StartRun
    <3>1. UNCHANGED exceptionVars
      BY <2>1 DEF StartRun
    <3> QED BY <1>1, <2>1, <3>1, ExceptionKept, StartRunStep DEF BenchInv
  <2>2. CASE EndRun
    <3>1. UNCHANGED exceptionVars
      BY <2>2 DEF EndRun
    <3> QED BY <1>1, <2>2, <3>1, ExceptionKept, EndRunStep DEF BenchInv
  <2>3. ASSUME NEW c \in DOMAIN detect, KnowContext(c) PROVE BenchInv'
    <3>1. UNCHANGED exceptionVars
      BY <2>3 DEF KnowContext
    <3> QED BY <1>1, <2>3, <3>1, ExceptionKept, KnowContextStep DEF BenchInv
  <2>4. ASSUME NEW c \in DOMAIN detect, EndDetect(c) PROVE BenchInv'
    <3>1. UNCHANGED exceptionVars
      BY <2>4 DEF EndDetect
    <3> QED BY <1>1, <2>4, <3>1, ExceptionKept, EndDetectStep DEF BenchInv
  <2>5. ASSUME NEW c \in DOMAIN detect, NEW i \in DOMAIN detect[c].asks, StartAsk(c, i) PROVE BenchInv'
    <3>1. UNCHANGED exceptionVars
      BY <2>5 DEF StartAsk
    <3> QED BY <1>1, <2>5, <3>1, ExceptionKept, StartAskStep DEF BenchInv
  <2>6. ASSUME NEW c \in DOMAIN detect, NEW i \in DOMAIN detect[c].asks, EndAsk(c, i) PROVE BenchInv'
    <3>1. UNCHANGED exceptionVars
      BY <2>6 DEF EndAsk
    <3> QED BY <1>1, <2>6, <3>1, ExceptionKept, EndAskStep DEF BenchInv
  <2> QED BY <1>4, <2>1, <2>2, <2>3, <2>4, <2>5, <2>6 DEF ContradictionNext
<1> QED BY <1>2, <1>3, <1>4 DEF BenchNext

LEMMA BenchStarts == BenchInit => BenchInv
BY ExceptionStarts, ContradictionStarts DEF BenchInv

\* The types of the two commands: a case is scored once at a temperature, the rates are thousandths
\* (round(x, 3) of a ratio), and _detect is in one of its stages.
THEOREM TheBenchesAreTyped == BenchSpec => []BenchTypeOK
<1>1. BenchInv => BenchTypeOK
  <2> SUFFICES ASSUME BenchInv PROVE BenchTypeOK
    OBVIOUS
  <2>1. ExceptionInv /\ ContradictionInv
    BY DEF BenchInv
  <2>2. results # None => Len(results) <= Len(Corpus)
    BY <2>1 DEF ExceptionInv, CaseInv
  <2>3. \A a \in DOMAIN aggregates : aggregates[a].dimension_exception_rate \in 0..1000 /\ aggregates[a].project_review_rate \in 0..1000
    BY <2>1 DEF ExceptionInv, AggregatesInv, IsHonest
  <2>4. counter \in Nat /\ turn.run \in 1..args.runs
    BY <2>1 DEF ContradictionInv, TurnInv
  <2>5. \A c \in DOMAIN detect : detect[c].stage \in {"context", "passes", "done"}
    BY <2>1 DEF ContradictionInv, DetectInv, IsSlot
  <2> QED BY <2>2, <2>3, <2>4, <2>5 DEF BenchTypeOK
<1> QED BY <1>1, BenchStarts, BenchStep, PTL DEF BenchSpec

\* What the benches measure is what they say they measure (exception_bench._aggregate and
\* _set_temperature, contradiction_bench.run and _detect), whatever fails and in whatever
\* order the answers come.
THEOREM TheBenchesAreSound == BenchSpec => []BenchIsSound
<1>1. BenchInv => BenchIsSound
  BY ExceptionIsSound, ContradictionIsSound DEF BenchInv, BenchIsSound
<1> QED BY <1>1, BenchStarts, BenchStep, PTL DEF BenchSpec

-----------------------------------------------------------------------------
(* What surrounds a project, together (Projects).                          *)

\* The scorings, the vault, the audits, the workbench, the benches and the readings each run as they
\* would alone, whatever the others do.
LEMMA ProjectsRunApart ==
  ProjectsSpec => ScoringSpec /\ VaultSpec /\ AuditSpec /\ WorkbenchSpec /\ BenchSpec /\ JourneySpec
<1>1. ProjectsInit => ScoringInit /\ VaultInit /\ AuditInit /\ WorkbenchInit /\ BenchInit /\ JourneyInit
  BY DEF ProjectsInit
<1>2. [ProjectsNext]_projectsVars => [ScoringNext]_scoringVars
  BY DEF ProjectsNext, projectsVars
<1>3. [ProjectsNext]_projectsVars => [VaultNext]_vaultVars
  BY DEF ProjectsNext, projectsVars
<1>4. [ProjectsNext]_projectsVars => [AuditNext]_auditVars
  BY DEF ProjectsNext, projectsVars
<1>5. [ProjectsNext]_projectsVars => [WorkbenchNext]_workbenchVars
  BY DEF ProjectsNext, projectsVars
<1>6. [ProjectsNext]_projectsVars => [BenchNext]_benchVars
  BY DEF ProjectsNext, projectsVars
<1>7. [ProjectsNext]_projectsVars => [JourneyNext]_journeyVars
  BY DEF ProjectsNext, projectsVars
<1> QED
  BY <1>1, <1>2, <1>3, <1>4, <1>5, <1>6, <1>7, PTL
     DEF ProjectsSpec, ScoringSpec, VaultSpec, AuditSpec, WorkbenchSpec, BenchSpec, JourneySpec

\* However the scorings, the shares and deletions, the audits, the edits of decks and logos, the benches
\* and the readings of a project overlap, in any number, every row keeps its type: no condition on the
\* order in which the owner, the threads or the tabs go (scoring/service.py, documents/service.py,
\* inconsistencies/service.py, studio, pitch and reports).
THEOREM TheProjectsAreTyped == ProjectsSpec => []ProjectsTypeOK
BY ProjectsRunApart, TheScoresAreTyped, TheVaultIsTyped, TheAuditIsTyped, TheWorkbenchIsTyped,
   TheBenchesAreTyped, TheJourneyIsTyped, PTL DEF ProjectsTypeOK
=============================================================================
