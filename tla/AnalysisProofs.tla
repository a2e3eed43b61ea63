--------------------------- MODULE AnalysisProofs ---------------------------
(***************************************************************************)
(* What holds of the analyses of a project: the audit of a lot (Audit),    *)
(* and the scores with their memory (Scoring), for any grid, any lot and   *)
(* any calls that overlap.                                                 *)
(***************************************************************************)
EXTENDS Audit, Scoring, FoldLemmas

-----------------------------------------------------------------------------
(* The audit of a lot.                                                     *)

\* The sequence o has the members of seq that are in S, each from a place of seq.
Kept(o, seq, n, S) ==
    /\ o \in Seq(S) /\ Len(o) <= n
    /\ \A j \in DOMAIN o : \E i \in 1..n : o[j] = seq[i]
    /\ \A i \in 1..n : seq[i] \in S => \E j \in DOMAIN o : o[j] = seq[i]
    /\ (\A i, j \in 1..n : seq[i] = seq[j] => i = j) => \A i, j \in DOMAIN o : o[i] = o[j] => i = j

LEMMA KeptGrows ==
  ASSUME NEW seq, NEW k \in Nat \ {0}, NEW S, NEW old, Kept(old, seq, k - 1, S)
  PROVE  Kept(IF seq[k] \in S THEN Append(old, seq[k]) ELSE old, seq, k, S)
<1> DEFINE One(m) == \A i, j \in 1..m : seq[i] = seq[j] => i = j
<1>1. /\ old \in Seq(S) /\ Len(old) <= k - 1 /\ \A j \in DOMAIN old : \E i \in 1..(k - 1) : old[j] = seq[i]
      /\ \A i \in 1..(k - 1) : seq[i] \in S => \E j \in DOMAIN old : old[j] = seq[i]
      /\ One(k - 1) => \A i, j \in DOMAIN old : old[i] = old[j] => i = j
  BY DEF Kept
<1>2. k \in 1..k /\ 1..(k - 1) \subseteq 1..k /\ \A i \in 1..k : i # k => i \in 1..(k - 1)
  OBVIOUS
<1>3. One(k) => One(k - 1)
  BY <1>2
<1>4. CASE seq[k] \notin S
  <2>1. \A j \in DOMAIN old : \E i \in 1..k : old[j] = seq[i]
    BY <1>1, <1>2
  <2>2. \A i \in 1..k : seq[i] \in S => \E j \in DOMAIN old : old[j] = seq[i]
    BY <1>1, <1>2, <1>4
  <2> QED BY <1>1, <1>3, <1>4, <2>1, <2>2 DEF Kept
<1>5. CASE seq[k] \in S
  <2> DEFINE new == Append(old, seq[k])
  <2>1. new \in Seq(S) /\ DOMAIN old = 1..Len(old) /\ Len(old) \in Nat
    BY <1>1, <1>5
  <2>2. DOMAIN new = 1..(Len(old) + 1) /\ new[Len(old) + 1] = seq[k] /\ \A i \in 1..Len(old) : new[i] = old[i]
    BY <1>1, <1>5
  <2> HIDE DEF new
  <2>3. \A j \in DOMAIN new : j \in DOMAIN old \/ j = Len(old) + 1
    BY <2>1, <2>2
  <2>4. \A j \in DOMAIN new : \E i \in 1..k : new[j] = seq[i]
    <3> SUFFICES ASSUME NEW j \in DOMAIN new PROVE \E i \in 1..k : new[j] = seq[i]
      OBVIOUS
    <3>1. CASE j \in DOMAIN old
      <4>1. PICK i \in 1..(k - 1) : old[j] = seq[i]
        BY <1>1, <3>1
      <4> QED BY <1>2, <2>1, <2>2, <3>1, <4>1
    <3> QED BY <1>2, <2>2, <2>3, <3>1
  <2>5. \A i \in 1..k : seq[i] \in S => \E j \in DOMAIN new : new[j] = seq[i]
    <3> SUFFICES ASSUME NEW i \in 1..k, seq[i] \in S PROVE \E j \in DOMAIN new : new[j] = seq[i]
      OBVIOUS
    <3>1. CASE i = k
      <4>1. Len(old) + 1 \in DOMAIN new
        BY <2>1, <2>2
      <4> QED BY <2>2, <3>1, <4>1
    <3>2. CASE i # k
      <4>1. PICK j \in DOMAIN old : old[j] = seq[i]
        BY <1>1, <1>2, <3>2
      <4>2. j \in DOMAIN new /\ new[j] = old[j]
        BY <2>1, <2>2
      <4> QED BY <4>1, <4>2
    <3> QED BY <3>1, <3>2
  <2>6. ASSUME One(k), NEW i \in DOMAIN new, NEW j \in DOMAIN new, new[i] = new[j] PROVE i = j
    <3>1. \A l \in DOMAIN old : new[l] = old[l] /\ old[l] # seq[k]
      <4> SUFFICES ASSUME NEW l \in DOMAIN old PROVE new[l] = old[l] /\ old[l] # seq[k]
        OBVIOUS
      <4>1. PICK m \in 1..(k - 1) : old[l] = seq[m]
        BY <1>1
      <4>2. m \in 1..k /\ m # k
        OBVIOUS
      <4> QED BY <1>2, <2>1, <2>2, <2>6, <4>1, <4>2
    <3> QED BY <1>1, <1>3, <2>2, <2>3, <2>6, <3>1
  <2>7. Len(new) = Len(old) + 1
    BY <1>5, <2>1 DEF new
  <2>8. Kept(new, seq, k, S)
    BY <1>1, <2>1, <2>4, <2>5, <2>6, <2>7 DEF Kept
  <2> QED BY <1>5, <2>8 DEF new
<1> QED BY <1>4, <1>5

LEMMA OnlyKeeps ==
  ASSUME NEW seq, NEW n \in Nat, DOMAIN seq = 1..n, NEW S
  PROVE  Kept(Only(seq, S), seq, n, S)
<1> DEFINE Put(kept, x) == IF x \in S THEN Append(kept, x) ELSE kept
           B == Seq(S)
           F == [x \in B \X (1..n) |-> Put(x[1], seq[x[2]])]
           h == CHOOSE g : g = [s \in SUBSET DOMAIN seq |->
                    IF s = {} THEN <<>> ELSE Put(g[s \ {Max(s)}], seq[Max(s)])]
<1>1. Only(seq, S) = h[DOMAIN seq]
  <2>1. FoldLeft(LAMBDA kept, x : IF x \in S THEN Append(kept, x) ELSE kept, <<>>, seq)
        = LET iter[s \in SUBSET DOMAIN seq] ==
                IF s = {} THEN <<>> ELSE Put(iter[s \ {Max(s)}], seq[Max(s)])
          IN iter[DOMAIN seq]
    BY Zenon DEF FoldLeft, MapThenFoldSet
  <2> QED BY <2>1 DEF Only
<1>2. \A b \in B, i \in 1..n : Put(b, seq[i]) \in B
  OBVIOUS
<1>3. <<>> \in B
  OBVIOUS
<1> HIDE DEF B
<1>4. F \in [B \X (1..n) -> B] /\ \A b \in B, i \in 1..n : F[<<b, i>>] = Put(b, seq[i])
  BY <1>2
<1> HIDE DEF F, Put
<1>5. \A s \in SUBSET (1..n) : s # {} => Max(s) \in 1..n
  BY MaxIn
<1>6. h = [s \in SUBSET (1..n) |-> IF s = {} THEN <<>> ELSE Put(h[s \ {Max(s)}], seq[Max(s)])]
  <2>1. PICK g \in [SUBSET (1..n) -> B] : FoldedBy(g, n, <<>>, F)
    BY <1>3, <1>4, FoldExists
  <2>2. ASSUME NEW s \in SUBSET (1..n), s # {} PROVE g[s] = Put(g[s \ {Max(s)}], seq[Max(s)])
    <3>1. g[s \ {Max(s)}] \in B /\ Max(s) \in 1..n
      BY <1>5, <2>1, <2>2
    <3> QED BY <1>4, <2>1, <2>2, <3>1 DEF FoldedBy
  <2>3. g = [s \in SUBSET (1..n) |-> IF s = {} THEN <<>> ELSE Put(g[s \ {Max(s)}], seq[Max(s)])]
    BY <2>1, <2>2 DEF FoldedBy
  <2> QED BY <2>3
<1> HIDE DEF h
<1>7. FoldedIn(h, n, B, <<>>, F)
  BY <1>4, <1>5, <1>6 DEF FoldedIn
<1>8. PICK it \in [0..n -> B] : it[n] = h[1..n] /\ StepsOf(it, n, <<>>, F)
  BY <1>3, <1>4, <1>7, FoldSteps
<1> DEFINE I == [k \in 0..n |-> {b \in B : Kept(b, seq, k, S)}]
<1>9. <<>> \in I[0]
  <2>1. Kept(<<>>, seq, 0, S)
    BY DEF Kept
  <2> QED BY <1>3, <2>1
<1>10. Keeps(I, n, F)
  <2> SUFFICES ASSUME NEW k \in 1..n, NEW b \in I[k - 1] PROVE F[<<b, k>>] \in I[k]
    BY Zenon DEF Keeps
  <2>1. k - 1 \in 0..n /\ k \in 0..n /\ k \in Nat \ {0}
    OBVIOUS
  <2>2. b \in B /\ Kept(b, seq, k - 1, S)
    BY <2>1
  <2>3. Kept(Put(b, seq[k]), seq, k, S)
    BY <2>1, <2>2, KeptGrows DEF Put
  <2>4. F[<<b, k>>] = Put(b, seq[k]) /\ F[<<b, k>>] \in B
    BY <1>4, <2>2
  <2> QED BY <2>1, <2>3, <2>4
<1>11. it[n] \in I[n]
  <2> HIDE DEF I
  <2> QED BY <1>8, <1>9, <1>10, FoldKeeps
<1>12. n \in 0..n
  OBVIOUS
<1> QED BY <1>1, <1>8, <1>11, <1>12

\* What the answers of the LLM become: findings with their two quotes.
LEMMA FindingsAreTyped ==
  ASSUME NEW raws, NEW n \in Nat, DOMAIN raws = 1..n, NEW fallback,
         \A i \in 1..n : {raws[i].quote_a, raws[i].quote_b} \subseteq Quotes \cup {None}
  PROVE  ParseFindings(raws, fallback) \in Seq(AuditFinding)
<1> DEFINE S == {raw \in ToSet(raws) : Verifiable(raw)}
           kept == Only(raws, S)
<1>1. kept \in Seq(S)
  BY OnlyKeeps DEF Kept
<1>2. \A raw \in S : raw.quote_a \in Quotes /\ raw.quote_b \in Quotes
  BY DEF ToSet, Verifiable
<1>3. "internal" \in InconsistencyType
  <2>1. 6 \in DOMAIN SPECIFICITY /\ SPECIFICITY[6] = "internal"
    BY DEF SPECIFICITY
  <2> QED BY <2>1 DEF InconsistencyType
<1>4. \A raw \in S : ParseFinding(raw, fallback) \in AuditFinding
  <2> SUFFICES ASSUME NEW raw \in S PROVE ParseFinding(raw, fallback) \in AuditFinding
    OBVIOUS
  <2>1. (IF raw.severity \in Severity THEN raw.severity ELSE 1) \in Severity
    BY DEF Severity
  <2>2. \A type : (IF type \in InconsistencyType THEN type ELSE "internal") \in InconsistencyType
    BY <1>3
  <2> QED BY <1>2, <2>1, <2>2 DEF ParseFinding, AuditFinding
<1> HIDE DEF S, kept
<1>5. [i \in DOMAIN kept |-> ParseFinding(kept[i], fallback)] \in Seq(AuditFinding)
  BY <1>1, <1>4
<1> QED BY <1>5 DEF ParseFindings, kept, S

EntriesAreLists(answer, n) ==
    \A i \in 1..n : answer[i] # None =>
        LET raws == answer[i].findings IN
        /\ Len(raws) \in Nat /\ DOMAIN raws = 1..Len(raws)
        /\ \A m \in DOMAIN raws : {raws[m].quote_a, raws[m].quote_b} \subseteq Quotes \cup {None}

LEMMA AnalysisIsTyped ==
  ASSUME NEW answer, NEW n \in Nat, DOMAIN answer = 1..n, EntriesAreLists(answer, n)
  PROVE  ParseAnalysis(answer) \in Seq(AuditFinding)
<1> DEFINE Add(findings, entry) ==
             IF entry = None THEN findings ELSE findings \o ParseFindings(entry.findings, entry.type)
           B == Seq(AuditFinding)
           F == [x \in B \X (1..n) |-> Add(x[1], answer[x[2]])]
           h == CHOOSE g : g = [s \in SUBSET DOMAIN answer |->
                    IF s = {} THEN <<>> ELSE Add(g[s \ {Max(s)}], answer[Max(s)])]
<1>1. ParseAnalysis(answer) = h[DOMAIN answer]
  <2>1. FoldLeft(LAMBDA findings, entry :
                   IF entry = None THEN findings ELSE findings \o ParseFindings(entry.findings, entry.type),
                 <<>>, answer)
        = LET iter[s \in SUBSET DOMAIN answer] ==
                IF s = {} THEN <<>> ELSE Add(iter[s \ {Max(s)}], answer[Max(s)])
          IN iter[DOMAIN answer]
    BY Zenon DEF FoldLeft, MapThenFoldSet
  <2> QED BY <2>1 DEF ParseAnalysis
<1>2. \A b \in B, i \in 1..n : Add(b, answer[i]) \in B
  <2> SUFFICES ASSUME NEW b \in B, NEW i \in 1..n, answer[i] # None
               PROVE  b \o ParseFindings(answer[i].findings, answer[i].type) \in B
    OBVIOUS
  <2> DEFINE raws == answer[i].findings
  <2>1. /\ Len(raws) \in Nat /\ DOMAIN raws = 1..Len(raws)
        /\ \A m \in DOMAIN raws : {raws[m].quote_a, raws[m].quote_b} \subseteq Quotes \cup {None}
    BY DEF EntriesAreLists
  <2> HIDE DEF raws
  <2>2. ParseFindings(raws, answer[i].type) \in Seq(AuditFinding)
    BY <2>1, FindingsAreTyped
  <2> QED BY <2>2 DEF raws
<1>3. <<>> \in B
  OBVIOUS
<1> HIDE DEF B
<1>4. F \in [B \X (1..n) -> B] /\ \A b \in B, i \in 1..n : F[<<b, i>>] = Add(b, answer[i])
  BY <1>2
<1> HIDE DEF F, Add
<1>5. \A s \in SUBSET (1..n) : s # {} => Max(s) \in 1..n
  BY MaxIn
<1>6. h = [s \in SUBSET (1..n) |-> IF s = {} THEN <<>> ELSE Add(h[s \ {Max(s)}], answer[Max(s)])]
  <2>1. PICK g \in [SUBSET (1..n) -> B] : FoldedBy(g, n, <<>>, F)
    BY <1>3, <1>4, FoldExists
  <2>2. ASSUME NEW s \in SUBSET (1..n), s # {} PROVE g[s] = Add(g[s \ {Max(s)}], answer[Max(s)])
    <3>1. g[s \ {Max(s)}] \in B /\ Max(s) \in 1..n
      BY <1>5, <2>1, <2>2
    <3> QED BY <1>4, <2>1, <2>2, <3>1 DEF FoldedBy
  <2>3. g = [s \in SUBSET (1..n) |-> IF s = {} THEN <<>> ELSE Add(g[s \ {Max(s)}], answer[Max(s)])]
    BY <2>1, <2>2 DEF FoldedBy
  <2> QED BY <2>3
<1> HIDE DEF h
<1>7. FoldedIn(h, n, B, <<>>, F)
  BY <1>4, <1>5, <1>6 DEF FoldedIn
<1>8. PICK it \in [0..n -> B] : it[n] = h[1..n] /\ StepsOf(it, n, <<>>, F)
  BY <1>3, <1>4, <1>7, FoldSteps
<1>9. n \in 0..n
  OBVIOUS
<1> QED BY <1>1, <1>8, <1>9 DEF B

\* No cluster is empty.
Clusters(X) == Seq(Seq(X) \ {<<>>})
\* The clusters of the first k findings: each finding is in one.
Grouped(clusters, findings, k) ==
    \A m \in 1..k : \E c \in DOMAIN clusters : \E i \in DOMAIN clusters[c] : clusters[c][i] = findings[m]

LEMMA ClusteredGroups ==
  ASSUME NEW X, NEW clusters \in Clusters(X), NEW findings \in Seq(X), NEW k \in 1..Len(findings),
         Grouped(clusters, findings, k - 1)
  PROVE  /\ Clustered(clusters, findings[k]) \in Clusters(X)
         /\ Grouped(Clustered(clusters, findings[k]), findings, k)
<1> DEFINE f == findings[k]
           near == {c \in DOMAIN clusters : \E i \in DOMAIN clusters[c] : SamePair(f, clusters[c][i])}
           new == Clustered(clusters, f)
<1>1. f \in X
  OBVIOUS
<1>2. \A m \in 1..k : m = k \/ m \in 1..(k - 1)
  OBVIOUS
<1>3. CASE near = {}
  <2>1. new = Append(clusters, <<f>>)
    BY <1>3, Zenon DEF Clustered
  <2>2. <<f>> \in Seq(X) \ {<<>>} /\ clusters \in Seq(Seq(X) \ {<<>>})
    BY <1>1 DEF Clusters
  <2> HIDE DEF new, f
  <2>3. /\ new \in Clusters(X) /\ DOMAIN new = 1..(Len(clusters) + 1) /\ Len(clusters) \in Nat
        /\ new[Len(clusters) + 1] = <<f>> /\ \A c \in DOMAIN clusters : c \in DOMAIN new /\ new[c] = clusters[c]
    BY <2>1, <2>2 DEF Clusters
  <2>4. Len(clusters) + 1 \in DOMAIN new /\ 1 \in DOMAIN <<f>> /\ <<f>>[1] = f
    BY <2>3
  <2>5. Grouped(new, findings, k)
    <3> SUFFICES ASSUME NEW m \in 1..k
                 PROVE  \E c \in DOMAIN new : \E i \in DOMAIN new[c] : new[c][i] = findings[m]
      BY DEF Grouped
    <3>1. CASE m = k
      <4>1. new[Len(clusters) + 1][1] = findings[m] /\ 1 \in DOMAIN new[Len(clusters) + 1]
        BY <2>3, <2>4, <3>1 DEF f
      <4> QED BY <2>4, <4>1
    <3>2. CASE m \in 1..(k - 1)
      <4>1. PICK c \in DOMAIN clusters : \E i \in DOMAIN clusters[c] : clusters[c][i] = findings[m]
        BY <3>2 DEF Grouped
      <4> QED BY <2>3, <4>1
    <3> QED BY <1>2, <3>1, <3>2
  <2> QED BY <2>3, <2>5 DEF new, f
<1>4. CASE near # {}
  <2> DEFINE first == CHOOSE c \in near : \A d \in near : c <= d
  <2>1. new = [clusters EXCEPT ![first] = Append(@, f)]
    BY <1>4, Zenon DEF Clustered
  <2>2. first \in DOMAIN clusters
    <3>1. near \in SUBSET Nat
      OBVIOUS
    <3> HIDE DEF near
    <3>2. \E c \in near : \A d \in near : c <= d
      BY <1>4, <3>1, SmallestOf
    <3>3. first \in near
      BY <3>2
    <3> QED BY <3>3 DEF near
  <2> HIDE DEF new, f, first, near
  <2> DEFINE joined == Append(clusters[first], f)
  <2>3. joined \in Seq(X) /\ clusters[first] \in Seq(X) /\ joined # <<>>
    <3>1. clusters[first] \in Seq(X)
      BY <2>2 DEF Clusters
    <3> QED BY <1>1, <3>1
  <2>4. /\ new \in Clusters(X) /\ DOMAIN new = DOMAIN clusters
        /\ \A c \in DOMAIN clusters : new[c] = IF c = first THEN joined ELSE clusters[c]
    <3>1. DOMAIN new = 1..Len(clusters) /\ DOMAIN clusters = 1..Len(clusters) /\ Len(clusters) \in Nat
      BY <2>1 DEF Clusters
    <3>2. \A c \in DOMAIN clusters : new[c] = IF c = first THEN joined ELSE clusters[c]
      BY <2>1
    <3> HIDE DEF joined
    <3>3. \A c \in DOMAIN clusters : new[c] \in Seq(X) \ {<<>>}
      <4>1. \A c \in DOMAIN clusters : clusters[c] \in Seq(X) \ {<<>>}
        BY DEF Clusters
      <4> QED BY <2>3, <3>2, <4>1
    <3>4. new = [c \in 1..Len(clusters) |-> new[c]]
      BY <2>1, <3>1
    <3> QED BY <3>1, <3>2, <3>3, <3>4 DEF Clusters
  <2>5. /\ DOMAIN joined = 1..(Len(clusters[first]) + 1) /\ Len(clusters[first]) \in Nat
        /\ joined[Len(clusters[first]) + 1] = f
        /\ \A i \in DOMAIN clusters[first] : i \in DOMAIN joined /\ joined[i] = clusters[first][i]
    BY <1>1, <2>3
  <2>6. Len(clusters[first]) + 1 \in DOMAIN joined
    BY <2>5
  <2> HIDE DEF joined
  <2>7. Grouped(new, findings, k)
    <3> SUFFICES ASSUME NEW m \in 1..k
                 PROVE  \E c \in DOMAIN new : \E i \in DOMAIN new[c] : new[c][i] = findings[m]
      BY DEF Grouped
    <3>1. CASE m = k
      BY <2>2, <2>4, <2>5, <2>6, <3>1 DEF f
    <3>2. CASE m \in 1..(k - 1)
      <4>1. PICK c \in DOMAIN clusters : \E i \in DOMAIN clusters[c] : clusters[c][i] = findings[m]
        BY <3>2 DEF Grouped
      <4>2. PICK i \in DOMAIN clusters[c] : clusters[c][i] = findings[m]
        BY <4>1
      <4>3. i \in DOMAIN new[c] /\ new[c][i] = findings[m]
        BY <2>4, <2>5, <4>2
      <4> QED BY <2>4, <4>3
    <3> QED BY <1>2, <3>1, <3>2
  <2> QED BY <2>4, <2>7 DEF new, f
<1> QED BY <1>3, <1>4

LEMMA FindingsAreGrouped ==
  ASSUME NEW X, NEW findings \in Seq(X)
  PROVE  LET clusters == FoldLeft(Clustered, <<>>, findings) IN
         clusters \in Clusters(X) /\ Grouped(clusters, findings, Len(findings))
<1> DEFINE n == Len(findings)
           B == Clusters(X)
           F == [x \in B \X (1..n) |-> Clustered(x[1], findings[x[2]])]
           h == CHOOSE g : g = [s \in SUBSET DOMAIN findings |->
                    IF s = {} THEN <<>> ELSE Clustered(g[s \ {Max(s)}], findings[Max(s)])]
           clusters == FoldLeft(Clustered, <<>>, findings)
<1>1. clusters = h[DOMAIN findings]
  <2>1. clusters = LET iter[s \in SUBSET DOMAIN findings] ==
                          IF s = {} THEN <<>> ELSE Clustered(iter[s \ {Max(s)}], findings[Max(s)])
                   IN iter[DOMAIN findings]
    BY Zenon DEF FoldLeft, MapThenFoldSet
  <2> QED BY <2>1
<1>2. \A b \in B, i \in 1..n : Clustered(b, findings[i]) \in B
  <2> SUFFICES ASSUME NEW b \in B, NEW i \in 1..n PROVE Clustered(b, findings[i]) \in B
    OBVIOUS
  <2> DEFINE one == <<findings[i]>>
  <2>1. one \in Seq(X) /\ Len(one) = 1 /\ one[1] = findings[i] /\ 1 \in 1..Len(one)
    OBVIOUS
  <2> HIDE DEF one
  <2>2. Grouped(b, one, 1 - 1)
    BY DEF Grouped
  <2>3. Clustered(b, one[1]) \in B
    BY <2>1, <2>2, ClusteredGroups
  <2> QED BY <2>1, <2>3
<1>3. <<>> \in B /\ n \in Nat /\ DOMAIN findings = 1..n
  BY DEF Clusters
<1> HIDE DEF B, n, clusters
<1>4. F \in [B \X (1..n) -> B] /\ \A b \in B, i \in 1..n : F[<<b, i>>] = Clustered(b, findings[i])
  BY <1>2
<1> HIDE DEF F
<1>5. \A s \in SUBSET (1..n) : s # {} => Max(s) \in 1..n
  BY <1>3, MaxIn
<1>6. h = [s \in SUBSET (1..n) |-> IF s = {} THEN <<>> ELSE Clustered(h[s \ {Max(s)}], findings[Max(s)])]
  <2>1. PICK g \in [SUBSET (1..n) -> B] : FoldedBy(g, n, <<>>, F)
    BY <1>3, <1>4, FoldExists
  <2>2. ASSUME NEW s \in SUBSET (1..n), s # {} PROVE g[s] = Clustered(g[s \ {Max(s)}], findings[Max(s)])
    <3>1. g[s \ {Max(s)}] \in B /\ Max(s) \in 1..n
      BY <1>5, <2>1, <2>2
    <3> QED BY <1>4, <2>1, <2>2, <3>1 DEF FoldedBy
  <2>3. g = [s \in SUBSET (1..n) |-> IF s = {} THEN <<>> ELSE Clustered(g[s \ {Max(s)}], findings[Max(s)])]
    BY <2>1, <2>2 DEF FoldedBy
  <2> QED BY <1>3, <2>3
<1> HIDE DEF h
<1>7. FoldedIn(h, n, B, <<>>, F)
  BY <1>4, <1>5, <1>6 DEF FoldedIn
<1>8. PICK it \in [0..n -> B] : it[n] = h[1..n] /\ StepsOf(it, n, <<>>, F)
  BY <1>3, <1>4, <1>7, FoldSteps
<1> DEFINE I == [k \in 0..n |-> {b \in B : Grouped(b, findings, k)}]
<1>9. <<>> \in I[0]
  <2>1. Grouped(<<>>, findings, 0) /\ 0 \in 0..n
    BY <1>3 DEF Grouped
  <2> QED BY <1>3, <2>1
<1>10. Keeps(I, n, F)
  <2> SUFFICES ASSUME NEW k \in 1..n, NEW b \in I[k - 1] PROVE F[<<b, k>>] \in I[k]
    BY Zenon DEF Keeps
  <2>1. k - 1 \in 0..n /\ k \in 0..n
    BY <1>3
  <2>2. b \in B /\ Grouped(b, findings, k - 1)
    BY <2>1
  <2>3. Grouped(Clustered(b, findings[k]), findings, k)
    BY <2>2, ClusteredGroups DEF B, n
  <2>4. F[<<b, k>>] = Clustered(b, findings[k]) /\ F[<<b, k>>] \in B
    BY <1>4, <2>2
  <2> QED BY <2>1, <2>3, <2>4
<1>11. it[n] \in I[n]
  <2> HIDE DEF I
  <2> QED BY <1>3, <1>8, <1>9, <1>10, FoldKeeps
<1>12. n \in 0..n
  BY <1>3
<1>13. clusters = it[n]
  BY <1>1, <1>3, <1>8
<1>14. clusters \in B /\ Grouped(clusters, findings, n)
  BY <1>11, <1>12, <1>13
<1> QED BY <1>14 DEF clusters, B, n

\* A merge keeps the type of each of its findings, and no severity of theirs is above its own.
LEMMA MergeAccounts ==
  ASSUME NEW cluster \in Seq(AuditFinding), NEW i \in DOMAIN cluster
  PROVE  /\ cluster[i].type \in Merge(cluster).merged_types \cup {Merge(cluster).type}
         /\ cluster[i].severity <= Merge(cluster).severity
<1> DEFINE All == {cluster[j].severity : j \in DOMAIN cluster}
           Highest(s) == \A j \in DOMAIN cluster : cluster[j].severity <= s
<1>1. \A j \in DOMAIN cluster : cluster[j].severity \in {0, 1, 2}
  <2>1. \A j \in DOMAIN cluster : cluster[j] \in AuditFinding
    OBVIOUS
  <2>2. Severity = {0, 1, 2}
    BY DEF Severity
  <2> QED BY <2>1, <2>2 DEF AuditFinding
<1>2. \E s \in All : Highest(s)
  <2>1. CASE 2 \in All
    <3>1. Highest(2)
      BY <1>1
    <3> QED BY <2>1, <3>1
  <2>2. CASE 2 \notin All /\ 1 \in All
    <3>1. \A j \in DOMAIN cluster : cluster[j].severity \in {0, 1}
      BY <1>1, <2>2
    <3>2. Highest(1)
      BY <3>1
    <3> QED BY <2>2, <3>2
  <2>3. CASE 2 \notin All /\ 1 \notin All
    <3>1. cluster[i].severity = 0 /\ \A j \in DOMAIN cluster : cluster[j].severity = 0
      BY <1>1, <2>3
    <3> QED BY <3>1
  <2> QED BY <2>1, <2>2, <2>3
<1>3. Highest(CHOOSE s \in All : Highest(s))
  <2> HIDE DEF All, Highest
  <2> QED BY <1>2
<1>4. Merge(cluster).severity = CHOOSE s \in All : Highest(s)
  BY DEF Merge
<1>5. cluster[i].type \in Merge(cluster).merged_types \cup {Merge(cluster).type}
  <2> DEFINE Rank(j) == <<Specificity(cluster[j].type), j>>
             kept == CHOOSE j \in DOMAIN cluster : \A l \in DOMAIN cluster :
                        Rank(j)[1] < Rank(l)[1] \/ (Rank(j)[1] = Rank(l)[1] /\ j <= l)
  <2>1. /\ Merge(cluster).type = cluster[kept].type
        /\ Merge(cluster).merged_types = {cluster[j].type : j \in DOMAIN cluster} \ {cluster[kept].type}
    BY DEF Merge
  <2> HIDE DEF kept
  <2> QED BY <2>1
<1> QED BY <1>3, <1>4, <1>5

\* What was heard of a dossier is in its findings.
AllAccounted(a) == \A n \in DOMAIN a.heard : Accounted(a, a.heard[n])

LEMMA AnalysesAreSound ==
  ASSUME NEW r, NEW a \in Analyses(r)
  PROVE  a.reference = r /\ AllAccounted(a)
<1>1. PICK q \in Said \cup {None}, t \in Said \cup {None} : a = DossierAnalysis(r, q, t)
  BY DEF Analyses
<1> DEFINE Parsed(output) == IF output = None THEN <<>> ELSE ParseAnalysis(output)
           said == Parsed(q) \o Parsed(t)
           heard == KeepGrounded(said)
           clusters == FoldLeft(Clustered, <<>>, heard)
<1>2. ASSUME NEW o \in Said \cup {None} PROVE Parsed(o) \in Seq(AuditFinding)
  <2>1. CASE o = None
    BY <2>1
  <2>2. CASE o # None
    <3>1. Len(o) \in Nat /\ DOMAIN o = 1..Len(o) /\ EntriesAreLists(o, Len(o))
      BY <1>2, <2>2, SaidAssumption DEF EntriesAreLists
    <3> QED BY <2>2, <3>1, AnalysisIsTyped
  <2> QED BY <2>1, <2>2
<1>3. said \in Seq(AuditFinding)
  BY <1>2
<1>4. a.reference = r /\ a.heard = heard /\ a.findings = Deduplicate(heard)
  BY <1>1 DEF DossierAnalysis
<1> HIDE DEF said
<1>5. heard \in Seq(AuditFinding)
  <2> DEFINE S == {f \in ToSet(said) : IsGrounded(f)}
  <2>1. Len(said) \in Nat /\ DOMAIN said = 1..Len(said) /\ S \subseteq AuditFinding
    BY <1>3 DEF ToSet
  <2> HIDE DEF S
  <2>2. Only(said, S) \in Seq(S)
    BY <2>1, OnlyKeeps DEF Kept
  <2>3. Only(said, S) \in Seq(AuditFinding)
    BY <2>1, <2>2
  <2> QED BY <2>3 DEF KeepGrounded, S
<1> HIDE DEF heard
<1>6. clusters \in Clusters(AuditFinding) /\ Grouped(clusters, heard, Len(heard))
  BY <1>5, FindingsAreGrouped
<1>7. Deduplicate(heard) = [c \in DOMAIN clusters |-> Merge(clusters[c])]
  BY DEF Deduplicate
<1> HIDE DEF clusters
<1>8. ASSUME NEW m \in DOMAIN heard PROVE Accounted(a, heard[m])
  <2>1. m \in 1..Len(heard)
    BY <1>5
  <2>2. PICK c \in DOMAIN clusters : \E i \in DOMAIN clusters[c] : clusters[c][i] = heard[m]
    BY <1>6, <2>1 DEF Grouped
  <2>3. PICK i \in DOMAIN clusters[c] : clusters[c][i] = heard[m]
    BY <2>2
  <2>4. clusters[c] \in Seq(AuditFinding)
    BY <1>6, <2>2 DEF Clusters
  <2>5. c \in DOMAIN a.findings /\ a.findings[c] = Merge(clusters[c])
    BY <1>4, <1>7
  <2>6. /\ heard[m].type \in Merge(clusters[c]).merged_types \cup {Merge(clusters[c]).type}
        /\ heard[m].severity <= Merge(clusters[c]).severity
    BY <2>3, <2>4, MergeAccounts
  <2> QED BY <2>5, <2>6 DEF Accounted
<1> QED BY <1>4, <1>8 DEF AllAccounted

\* The dossiers that can be analysed have references of their own: nothing in the code sees to it.
Distinct(dossiers) == \A i, j \in DOMAIN dossiers : dossiers[i].reference = dossiers[j].reference => i = j
Numbered(seq) == Len(seq) \in Nat /\ DOMAIN seq = 1..Len(seq)

\* audit.json has every dossier that the batch was given, once, with what was heard of it.
LotInv ==
    Readable(audit) =>
        /\ Numbered(audit.analyses)
        /\ \A i \in DOMAIN audit.analyses : AllAccounted(audit.analyses[i])
        /\ \A r \in taken : \E i \in DOMAIN audit.analyses :
            /\ audit.analyses[i].reference = r
            /\ \A j \in DOMAIN audit.analyses : audit.analyses[j].reference = r => j = i

\* A batch has what it resumes from and what it has to ask for, one or the other for each dossier it
\* was given; what it was answered is about the dossier at that place.
BatchInv ==
    batch.stage # "idle" =>
        /\ IsFiniteSet(batch.previous)
        /\ \A a \in batch.previous : AllAccounted(a)
        /\ \A a, b \in batch.previous : a.reference = b.reference => a = b
        /\ Numbered(batch.todo) /\ Distinct(batch.todo)
        /\ \A i \in DOMAIN batch.todo : \A a \in batch.previous : a.reference # batch.todo[i].reference
        /\ \A r \in batch.chosen :
            \/ \E a \in batch.previous : a.reference = r
            \/ \E i \in DOMAIN batch.todo : batch.todo[i].reference = r
        /\ batch.fresh = [i \in DOMAIN batch.todo |-> batch.fresh[i]]
        /\ \A i \in DOMAIN batch.todo : batch.fresh[i] # None =>
            batch.fresh[i].reference = batch.todo[i].reference /\ AllAccounted(batch.fresh[i])
        /\ batch.stage = "writing" => \A i \in DOMAIN batch.todo : batch.fresh[i] # None
BatchFields == batch = [stage |-> batch.stage, previous |-> batch.previous, todo |-> batch.todo,
                        fresh |-> batch.fresh, chosen |-> batch.chosen]

\* A decision « keep » in the file of the reviewer is his.
ReviewInv ==
    /\ review # None => /\ review = [id \in DOMAIN review |-> review[id]]
                        /\ \A id \in DOMAIN review : review[id] = "keep" => id \in vetted
    /\ NothingUnseen

AuditInv == LotInv /\ BatchInv /\ BatchFields /\ ReviewInv

LEMMA AuditStarts == AuditInit => AuditInv
<1> SUFFICES ASSUME AuditInit PROVE AuditInv
  OBVIOUS
<1>1. LotInv
  BY DEF AuditInit, LotInv, Readable
<1>2. BatchInv /\ BatchFields
  BY DEF AuditInit, BatchInv, BatchFields, NoBatch
<1>3. ReviewInv
  BY DEF AuditInit, ReviewInv, NothingUnseen
<1> QED BY <1>1, <1>2, <1>3 DEF AuditInv

LEMMA FileMakesComplete == LotInv => AuditIsComplete
<1> SUFFICES ASSUME LotInv, Readable(audit) PROVE AuditIsComplete
  BY DEF AuditIsComplete
<1>1. ASSUME NEW r \in taken PROVE Cardinality({i \in DOMAIN audit.analyses : audit.analyses[i].reference = r}) = 1
  <2>1. PICK i \in DOMAIN audit.analyses :
            /\ audit.analyses[i].reference = r
            /\ \A j \in DOMAIN audit.analyses : audit.analyses[j].reference = r => j = i
    BY <1>1 DEF LotInv
  <2>2. {j \in DOMAIN audit.analyses : audit.analyses[j].reference = r} = {i}
    BY <2>1
  <2> QED BY <2>2, FS_Singleton
<1>2. \A i \in DOMAIN audit.analyses : AllAccounted(audit.analyses[i])
  BY DEF LotInv
<1> QED BY <1>1, <1>2 DEF AuditIsComplete, AllAccounted

\* What --resume takes from the file.
LEMMA PreviousIsSound ==
  ASSUME LotInv
  PROVE  /\ IsFiniteSet(LoadPrevious(audit))
         /\ \A a \in LoadPrevious(audit) : AllAccounted(a)
         /\ \A a, b \in LoadPrevious(audit) : a.reference = b.reference => a = b
<1>1. CASE ~ Readable(audit)
  <2>1. LoadPrevious(audit) = {}
    BY <1>1 DEF LoadPrevious
  <2> QED BY <2>1, FS_EmptySet
<1>2. CASE Readable(audit)
  <2> DEFINE file == audit.analyses
             Latest(i) == ~ file[i].error /\
                        \A j \in DOMAIN file : file[j].reference = file[i].reference /\ ~ file[j].error => j <= i
             D == {i \in DOMAIN file : Latest(i)}
  <2>1. LoadPrevious(audit) = {file[i] : i \in D}
    BY <1>2 DEF LoadPrevious
  <2>2. DOMAIN file = 1..Len(file) /\ Len(file) \in Nat /\ \A i \in DOMAIN file : AllAccounted(file[i])
    BY <1>2 DEF LotInv, Numbered
  <2> HIDE DEF file
  <2>3. IsFiniteSet(D)
    <3>1. IsFiniteSet(1..Len(file)) /\ D \subseteq 1..Len(file)
      BY <2>2, FS_Interval
    <3> HIDE DEF D
    <3> QED BY <3>1, FS_Subset
  <2>4. IsFiniteSet({file[i] : i \in D})
    <3> DEFINE f == [i \in D |-> file[i]]
               T == {file[i] : i \in D}
    <3> HIDE DEF D
    <3>1. f \in Surjection(D, T)
      BY DEF Surjection
    <3> HIDE DEF f, T
    <3>2. IsFiniteSet(T)
      BY <2>3, <3>1, FS_Surjection
    <3> QED BY <3>2 DEF T
  <2>5. \A i, j \in D : file[i].reference = file[j].reference => i = j
    <3> SUFFICES ASSUME NEW i \in D, NEW j \in D, file[i].reference = file[j].reference PROVE i = j
      OBVIOUS
    <3>1. i <= j /\ j <= i /\ i \in Nat /\ j \in Nat
      BY <2>2
    <3> QED BY <3>1
  <2>6. \A i \in D : AllAccounted(file[i])
    BY <2>2
  <2> HIDE DEF D
  <2> QED BY <2>1, <2>4, <2>5, <2>6
<1> QED BY <1>1, <1>2

\* Some dossiers of a lot, each once.
LEMMA SomeAreDistinct ==
  ASSUME NEW seq, Numbered(seq), Distinct(seq), NEW S
  PROVE  /\ Numbered(Only(seq, S)) /\ Distinct(Only(seq, S))
         /\ \A j \in DOMAIN Only(seq, S) : Only(seq, S)[j] \in S
         /\ \A i \in DOMAIN seq : seq[i] \in S => \E j \in DOMAIN Only(seq, S) : Only(seq, S)[j] = seq[i]
<1> DEFINE o == Only(seq, S)
           n == Len(seq)
<1>1. n \in Nat /\ DOMAIN seq = 1..n
  BY DEF Numbered
<1>2. Kept(o, seq, n, S)
  BY <1>1, OnlyKeeps
<1> HIDE DEF o, n
<1>3. o \in Seq(S)
  BY <1>2 DEF Kept
<1>4. \A i, j \in 1..n : seq[i] = seq[j] => i = j
  BY <1>1 DEF Distinct
<1>5. Distinct(o)
  <2> SUFFICES ASSUME NEW i \in DOMAIN o, NEW j \in DOMAIN o, o[i].reference = o[j].reference PROVE i = j
    BY DEF Distinct
  <2>1. PICK a \in 1..n : o[i] = seq[a]
    BY <1>2 DEF Kept
  <2>2. PICK b \in 1..n : o[j] = seq[b]
    BY <1>2 DEF Kept
  <2>3. a = b
    BY <1>1, <2>1, <2>2 DEF Distinct
  <2>4. o[i] = o[j]
    BY <2>1, <2>2, <2>3
  <2> QED BY <1>2, <1>4, <2>4 DEF Kept
<1>6. Numbered(o)
  BY <1>3 DEF Numbered
<1>7. \A j \in DOMAIN o : o[j] \in S
  BY <1>3
<1>8. \A i \in DOMAIN seq : seq[i] \in S => \E j \in DOMAIN o : o[j] = seq[i]
  BY <1>1, <1>2 DEF Kept
<1> QED BY <1>5, <1>6, <1>7, <1>8 DEF o

LEMMA SomeFirst ==
  ASSUME NEW seq, NEW S, seq \in Seq(S), Distinct(seq), NEW m \in 0..Len(seq)
  PROVE  Numbered(SubSeq(seq, 1, m)) /\ Distinct(SubSeq(seq, 1, m))
<1> DEFINE sub == SubSeq(seq, 1, m)
<1>1. Len(sub) = m /\ DOMAIN sub = 1..m /\ \A i \in 1..m : sub[i] = seq[i]
  <2>1. Len(seq) \in Nat /\ m \in Nat
    OBVIOUS
  <2> QED BY <2>1
<1>2. 1..m \subseteq DOMAIN seq /\ m \in Nat
  OBVIOUS
<1> HIDE DEF sub
<1>3. Numbered(sub) /\ Distinct(sub)
  BY <1>1, <1>2 DEF Numbered, Distinct
<1> QED BY <1>3 DEF sub

LEMMA StartBatchStep ==
  ASSUME Distinct(LoadLot), AuditInv, NEW limit \in Limits, NEW resume \in BOOLEAN, StartBatch(limit, resume)
  PROVE  AuditInv'
<1> DEFINE m == IF limit < Len(LoadLot) THEN limit ELSE Len(LoadLot)
           dossiers == SubSeq(LoadLot, 1, m)
           previous == IF resume THEN LoadPrevious(audit) ELSE {}
           todo == IF resume THEN Pending(previous, dossiers, audit) ELSE dossiers
<1>1. /\ batch' = [stage |-> "asking", previous |-> previous, todo |-> todo,
                   fresh |-> [i \in DOMAIN todo |-> None], chosen |-> {dossiers[i].reference : i \in DOMAIN dossiers}]
      /\ UNCHANGED <<audit, review, published, taken, vetted>>
  BY DEF StartBatch
<1>2. Numbered(dossiers) /\ Distinct(dossiers)
  <2> DEFINE S == {d \in ToSet(Lot) : d.narrative = "readable"}
  <2>1. Kept(LoadLot, Lot, Len(Lot), S)
    BY AuditAssumption, OnlyKeeps DEF LoadLot
  <2>2. LoadLot \in Seq(S)
    BY <2>1 DEF Kept
  <2> HIDE DEF S
  <2>3. limit \in Nat /\ Len(LoadLot) \in Nat
    BY <2>2, AuditAssumption
  <2>4. m \in 0..Len(LoadLot)
    BY <2>3
  <2> HIDE DEF m
  <2> QED BY <2>2, <2>4, SomeFirst
<1> HIDE DEF m, dossiers
<1>3. /\ IsFiniteSet(previous) /\ \A a \in previous : AllAccounted(a)
      /\ \A a, b \in previous : a.reference = b.reference => a = b
  BY PreviousIsSound, FS_EmptySet DEF AuditInv
<1> DEFINE S == {d \in ToSet(dossiers) : \A a \in previous : a.reference # d.reference}
<1>4. /\ Numbered(todo) /\ Distinct(todo)
      /\ \A i \in DOMAIN todo : \A a \in previous : a.reference # todo[i].reference
      /\ \A i \in DOMAIN dossiers :
            (\E a \in previous : a.reference = dossiers[i].reference) \/ \E j \in DOMAIN todo : todo[j] = dossiers[i]
  <2>1. CASE ~ resume
    BY <1>2, <2>1
  <2>2. CASE resume
    <3>1. todo = Only(dossiers, S)
      BY <2>2 DEF Pending
    <3> HIDE DEF todo, previous
    <3>2. \A i \in DOMAIN dossiers : dossiers[i] \in S \/ \E a \in previous : a.reference = dossiers[i].reference
      BY DEF ToSet
    <3>3. \A d \in S : \A a \in previous : a.reference # d.reference
      OBVIOUS
    <3> HIDE DEF S
    <3> QED BY <1>2, <3>1, <3>2, <3>3, SomeAreDistinct
  <2> QED BY <2>1, <2>2
<1> HIDE DEF previous, todo
<1>5. BatchInv'
  <2> DEFINE chosen == {dossiers[i].reference : i \in DOMAIN dossiers}
             fresh == [i \in DOMAIN todo |-> None]
  <2>1. \A r \in chosen : (\E a \in previous : a.reference = r) \/ \E i \in DOMAIN todo : todo[i].reference = r
    BY <1>4
  <2>2. fresh = [i \in DOMAIN todo |-> fresh[i]] /\ \A i \in DOMAIN todo : fresh[i] = None
    OBVIOUS
  <2>3. /\ batch'.stage = "asking" /\ batch'.previous = previous /\ batch'.todo = todo
        /\ batch'.fresh = fresh /\ batch'.chosen = chosen
    BY <1>1
  <2> HIDE DEF chosen, fresh
  <2> QED BY <1>3, <1>4, <2>1, <2>2, <2>3 DEF BatchInv
<1>6. BatchFields'
  BY <1>1 DEF BatchFields
<1>7. LotInv' /\ ReviewInv'
  BY <1>1 DEF AuditInv, LotInv, Readable, ReviewInv, NothingUnseen
<1> QED BY <1>5, <1>6, <1>7 DEF AuditInv

LEMMA AnalyzeDossierStep == ASSUME AuditInv, NEW i, AnalyzeDossier(i) PROVE AuditInv'
<1>1. PICK a \in Analyses(batch.todo[i].reference) : batch' = [batch EXCEPT !.fresh[i] = a]
  BY DEF AnalyzeDossier
<1>2. /\ batch.stage = "asking" /\ i \in DOMAIN batch.todo
      /\ UNCHANGED <<audit, batches, review, published, taken, vetted>>
  BY DEF AnalyzeDossier
<1>3. a.reference = batch.todo[i].reference /\ AllAccounted(a)
  BY AnalysesAreSound
<1> DEFINE fresh == [batch.fresh EXCEPT ![i] = a]
<1>4. /\ batch'.stage = "asking" /\ batch'.previous = batch.previous /\ batch'.todo = batch.todo
      /\ batch'.chosen = batch.chosen /\ batch'.fresh = fresh
  BY <1>1, <1>2 DEF AuditInv, BatchFields
<1>5. BatchFields'
  BY <1>1, <1>2 DEF AuditInv, BatchFields
<1>6. /\ fresh = [k \in DOMAIN batch.todo |-> fresh[k]]
      /\ \A k \in DOMAIN batch.todo : fresh[k] = IF k = i THEN a ELSE batch.fresh[k]
  BY <1>2 DEF AuditInv, BatchInv
<1> HIDE DEF fresh
<1>7. BatchInv'
  <2>1. \A k \in DOMAIN batch.todo : fresh[k] # None =>
            fresh[k].reference = batch.todo[k].reference /\ AllAccounted(fresh[k])
    <3> SUFFICES ASSUME NEW k \in DOMAIN batch.todo, fresh[k] # None
                 PROVE  fresh[k].reference = batch.todo[k].reference /\ AllAccounted(fresh[k])
      OBVIOUS
    <3>1. CASE k = i
      BY <1>3, <1>6, <3>1
    <3>2. CASE k # i
      BY <1>2, <1>6, <3>2 DEF AuditInv, BatchInv
    <3> QED BY <3>1, <3>2
  <2>2. /\ IsFiniteSet(batch.previous)
        /\ \A x \in batch.previous : AllAccounted(x)
        /\ \A x, y \in batch.previous : x.reference = y.reference => x = y
        /\ Numbered(batch.todo) /\ Distinct(batch.todo)
        /\ \A k \in DOMAIN batch.todo : \A x \in batch.previous : x.reference # batch.todo[k].reference
        /\ \A r \in batch.chosen :
            \/ \E x \in batch.previous : x.reference = r
            \/ \E k \in DOMAIN batch.todo : batch.todo[k].reference = r
    BY <1>2 DEF AuditInv, BatchInv
  <2>3. batch'.stage # "writing"
    BY <1>4
  <2>4. batch'.fresh = [k \in DOMAIN batch'.todo |-> batch'.fresh[k]]
    BY <1>4, <1>6
  <2>5. \A k \in DOMAIN batch'.todo : batch'.fresh[k] # None =>
            batch'.fresh[k].reference = batch'.todo[k].reference /\ AllAccounted(batch'.fresh[k])
    BY <1>4, <2>1
  <2> QED BY <1>4, <2>2, <2>3, <2>4, <2>5 DEF BatchInv
<1>8. LotInv' /\ ReviewInv'
  BY <1>2 DEF AuditInv, LotInv, Readable, ReviewInv, NothingUnseen
<1> QED BY <1>5, <1>7, <1>8 DEF AuditInv

LEMMA OpenOutputStep == ASSUME AuditInv, OpenOutput PROVE AuditInv'
<1>1. /\ batch.stage = "asking" /\ \A i \in DOMAIN batch.todo : batch.fresh[i] # None
      /\ audit' = Truncated /\ batch' = [batch EXCEPT !.stage = "writing"]
      /\ UNCHANGED <<review, published, taken, vetted>>
  BY DEF OpenOutput
<1>2. /\ batch'.stage = "writing" /\ batch'.previous = batch.previous /\ batch'.todo = batch.todo
      /\ batch'.chosen = batch.chosen /\ batch'.fresh = batch.fresh /\ BatchFields'
  BY <1>1 DEF AuditInv, BatchFields
<1>3. BatchInv'
  BY <1>1, <1>2 DEF AuditInv, BatchInv
<1>4. LotInv'
  BY <1>1 DEF LotInv, Readable
<1>5. ReviewInv'
  BY <1>1 DEF AuditInv, ReviewInv, NothingUnseen
<1> QED BY <1>2, <1>3, <1>4, <1>5 DEF AuditInv

\* A finite set, as a sequence, has each of its members once.
LEMMA SetInSequence ==
  ASSUME NEW S, IsFiniteSet(S)
  PROVE  /\ SetToSeq(S) \in Seq(S)
         /\ \A i, j \in DOMAIN SetToSeq(S) : SetToSeq(S)[i] = SetToSeq(S)[j] => i = j
         /\ \A x \in S : \E i \in DOMAIN SetToSeq(S) : SetToSeq(S)[i] = x
<1> DEFINE n == Cardinality(S)
           Lists(f) == IsInjective(f)
           s == CHOOSE f \in [1..n -> S] : Lists(f)
<1>1. n \in Nat /\ IsFiniteSet(1..n) /\ Cardinality(1..n) = n
  BY FS_CardinalityType, FS_Interval
<1>2. s \in [1..n -> S] /\ IsInjective(s)
  <2>1. PICK f \in Bijection(1..n, S) : TRUE
    BY FS_CardinalityType DEF ExistsBijection
  <2>2. f \in [1..n -> S] /\ Lists(f)
    BY <2>1, Zenon DEF Bijection, Injection
  <2> HIDE DEF Lists
  <2>3. s \in [1..n -> S] /\ Lists(s)
    BY <2>2
  <2> QED BY <2>3 DEF Lists
<1>3. SetToSeq(S) = s
  BY DEF SetToSeq
<1> HIDE DEF s, n
<1>4. s \in Surjection(1..n, S)
  <2>1. s \in Injection(1..n, S)
    BY <1>2, Zenon DEF Injection
  <2> QED BY <1>1, <2>1, FS_Injection DEF n
<1>5. \A x \in S : \E i \in 1..n : s[i] = x
  BY <1>4, Zenon DEF Surjection
<1>6. DOMAIN s = 1..n /\ s \in Seq(S)
  BY <1>1, <1>2
<1> QED BY <1>2, <1>3, <1>5, <1>6 DEF IsInjective

LEMMA FinishBatchStep == ASSUME AuditInv, FinishBatch PROVE AuditInv'
<1> DEFINE old == SetToSeq(batch.previous)
           new == batch.fresh
           T == batch.previous \cup {new[i] : i \in DOMAIN new}
           file == old \o new
<1>1. /\ batch.stage = "writing" /\ audit' = [analyses |-> file, skipped |-> Skipped] /\ taken' = batch.chosen
      /\ batch' = NoBatch /\ UNCHANGED <<review, published, vetted>>
  BY DEF FinishBatch
<1>2. BatchInv /\ batch.stage # "idle"
  BY <1>1 DEF AuditInv
<1>3. /\ old \in Seq(batch.previous)
      /\ \A i, j \in DOMAIN old : old[i] = old[j] => i = j
      /\ \A a \in batch.previous : \E i \in DOMAIN old : old[i] = a
  BY <1>2, SetInSequence DEF BatchInv
<1>4. DOMAIN new = 1..Len(batch.todo) /\ Len(batch.todo) \in Nat /\ DOMAIN batch.todo = 1..Len(batch.todo)
  BY <1>2 DEF BatchInv, Numbered
<1>5. new \in Seq(T) /\ Len(new) = Len(batch.todo)
  <2>1. new = [i \in 1..Len(batch.todo) |-> new[i]]
    BY <1>2, <1>4 DEF BatchInv
  <2>2. \A i \in 1..Len(batch.todo) : new[i] \in T
    BY <1>4
  <2> HIDE DEF new, T
  <2> QED BY <1>4, <2>1, <2>2
<1> HIDE DEF old
<1>6. old \in Seq(T)
  BY <1>3
<1>7. /\ \A i \in DOMAIN new : new[i].reference = batch.todo[i].reference /\ AllAccounted(new[i])
      /\ \A i, j \in DOMAIN new : new[i].reference = new[j].reference => i = j
      /\ \A i \in DOMAIN new, a \in batch.previous : a.reference # new[i].reference
  <2>1. \A i \in DOMAIN new : new[i].reference = batch.todo[i].reference /\ AllAccounted(new[i])
    BY <1>1, <1>2, <1>4 DEF BatchInv
  <2> QED BY <1>2, <1>4, <2>1 DEF BatchInv, Distinct
<1>8. \A i \in DOMAIN old : old[i] \in batch.previous
  BY <1>3
<1>9. /\ \A i \in DOMAIN old : AllAccounted(old[i])
      /\ \A i, j \in DOMAIN old : old[i].reference = old[j].reference => i = j
      /\ \A i \in DOMAIN old, j \in DOMAIN new : old[i].reference # new[j].reference
  BY <1>2, <1>3, <1>7, <1>8 DEF BatchInv
<1>10. \A r \in batch.chosen : (\E i \in DOMAIN old : old[i].reference = r) \/ \E i \in DOMAIN new : new[i].reference = r
  <2> SUFFICES ASSUME NEW r \in batch.chosen
               PROVE  (\E i \in DOMAIN old : old[i].reference = r) \/ \E i \in DOMAIN new : new[i].reference = r
    OBVIOUS
  <2>1. CASE \E a \in batch.previous : a.reference = r
    BY <1>3, <2>1
  <2>2. CASE \E i \in DOMAIN batch.todo : batch.todo[i].reference = r
    BY <1>4, <1>7, <2>2
  <2> QED BY <1>2, <2>1, <2>2 DEF BatchInv
<1> DEFINE n == Len(old)
           k == Len(new)
<1> HIDE DEF new, T
<1>11. /\ n \in Nat /\ k \in Nat /\ DOMAIN old = 1..n /\ DOMAIN new = 1..k
       /\ file \in Seq(T) /\ Len(file) = n + k /\ DOMAIN file = 1..(n + k)
       /\ \A i \in 1..n : file[i] = old[i]
       /\ \A i \in 1..k : file[n + i] = new[i]
  <2>1. Len(file) = n + k /\ file \in Seq(T)
    BY <1>5, <1>6
  <2>2. n \in Nat /\ k \in Nat /\ DOMAIN old = 1..n /\ DOMAIN new = 1..k /\ DOMAIN file = 1..(n + k)
    BY <1>5, <1>6, <2>1
  <2>3. \A i \in 1..(n + k) : file[i] = IF i <= n THEN old[i] ELSE new[i - n]
    BY <1>5, <1>6, ConcatProperties
  <2>4. \A i \in 1..k : n + i \in 1..(n + k) /\ ~ (n + i <= n) /\ (n + i) - n = i
    BY <2>2
  <2>5. \A i \in 1..n : i \in 1..(n + k) /\ i <= n
    BY <2>2
  <2> HIDE DEF file, n, k
  <2> QED BY <2>1, <2>2, <2>3, <2>4, <2>5
<1> HIDE DEF file, n, k
<1>12. \A i \in DOMAIN file : \/ i \in DOMAIN old /\ file[i] = old[i]
                              \/ \E j \in DOMAIN new : i = n + j /\ file[i] = new[j]
  <2> SUFFICES ASSUME NEW i \in DOMAIN file
               PROVE  \/ i \in DOMAIN old /\ file[i] = old[i]
                      \/ \E j \in DOMAIN new : i = n + j /\ file[i] = new[j]
    OBVIOUS
  <2>1. CASE i \in 1..n
    BY <1>11, <2>1
  <2>2. CASE i \notin 1..n
    <3>1. i - n \in 1..k /\ i = n + (i - n)
      BY <1>11, <2>2
    <3>2. i - n \in DOMAIN new /\ file[n + (i - n)] = new[i - n]
      BY <1>11, <3>1
    <3> QED BY <3>1, <3>2
  <2> QED BY <2>1, <2>2
<1>13. \A i, j \in DOMAIN file : file[i].reference = file[j].reference => i = j
  BY <1>9, <1>7, <1>12
<1>14. \A i \in DOMAIN file : AllAccounted(file[i])
  BY <1>7, <1>9, <1>12
<1>15. \A r \in batch.chosen : \E i \in DOMAIN file : file[i].reference = r
  <2> SUFFICES ASSUME NEW r \in batch.chosen PROVE \E i \in DOMAIN file : file[i].reference = r
    OBVIOUS
  <2>1. CASE \E i \in DOMAIN old : old[i].reference = r
    <3>1. \A i \in 1..n : i \in 1..(n + k)
      BY <1>11
    <3> QED BY <1>11, <2>1, <3>1
  <2>2. CASE \E i \in DOMAIN new : new[i].reference = r
    <3>1. \A i \in 1..k : n + i \in 1..(n + k)
      BY <1>11
    <3> QED BY <1>11, <2>2, <3>1
  <2> QED BY <1>10, <2>1, <2>2
<1>16. LotInv'
  <2>1. audit'.analyses = file /\ Numbered(file)
    BY <1>1, <1>11 DEF Numbered
  <2> QED BY <1>1, <1>13, <1>14, <1>15, <2>1 DEF LotInv
<1>17. BatchInv' /\ BatchFields'
  BY <1>1 DEF BatchInv, BatchFields, NoBatch
<1>18. ReviewInv'
  BY <1>1 DEF AuditInv, ReviewInv, NothingUnseen
<1> QED BY <1>16, <1>17, <1>18 DEF AuditInv

LEMMA KillBatchStep == ASSUME AuditInv, KillBatch PROVE AuditInv'
<1>1. batch' = NoBatch /\ UNCHANGED <<audit, review, published, taken, vetted>>
  BY DEF KillBatch
<1>2. BatchInv' /\ BatchFields'
  BY <1>1 DEF BatchInv, BatchFields, NoBatch
<1>3. LotInv' /\ ReviewInv'
  BY <1>1 DEF AuditInv, LotInv, Readable, ReviewInv, NothingUnseen
<1> QED BY <1>2, <1>3 DEF AuditInv

\* The reviewer touches no file of the batch.
LEMMA BatchKept == ASSUME AuditInv, UNCHANGED <<audit, batch, taken>> PROVE LotInv' /\ BatchInv' /\ BatchFields'
<1>1. LotInv'
  BY DEF AuditInv, LotInv, Readable
<1>2. BatchInv' /\ BatchFields'
  BY DEF AuditInv, BatchInv, BatchFields
<1> QED BY <1>1, <1>2

LEMMA WriteReviewStep == ASSUME AuditInv, WriteReview PROVE AuditInv'
<1>1. review' = [id \in IdsOf(audit) |-> "pending"] /\ UNCHANGED <<audit, batch, taken, published, vetted>>
  BY DEF WriteReview
<1>2. ReviewInv'
  BY <1>1 DEF AuditInv, ReviewInv, NothingUnseen
<1> QED BY <1>1, <1>2, BatchKept DEF AuditInv

LEMMA DecideStep == ASSUME AuditInv, NEW id, Decide(id) PROVE AuditInv'
<1>1. PICK decision \in {"keep", "drop"} :
        /\ review' = [review EXCEPT ![id] = decision]
        /\ vetted' = IF decision = "keep" THEN vetted \cup {id} ELSE vetted
  BY DEF Decide
<1>2. review # None /\ id \in DOMAIN review /\ UNCHANGED <<audit, batch, taken, published>>
  BY DEF Decide
<1>3. /\ DOMAIN review' = DOMAIN review /\ review' = [x \in DOMAIN review' |-> review'[x]]
      /\ \A x \in DOMAIN review : review'[x] = IF x = id THEN decision ELSE review[x]
  BY <1>1
<1>4. \A x \in DOMAIN review' : review'[x] = "keep" => x \in vetted'
  BY <1>1, <1>2, <1>3 DEF AuditInv, ReviewInv
<1>5. NothingUnseen'
  BY <1>1, <1>2 DEF AuditInv, ReviewInv, NothingUnseen
<1>6. ReviewInv'
  BY <1>3, <1>4, <1>5 DEF ReviewInv
<1> QED BY <1>2, <1>6, BatchKept DEF AuditInv

LEMMA LoseRowStep == ASSUME AuditInv, NEW id, LoseRow(id) PROVE AuditInv'
<1>1. /\ review # None /\ review' = [other \in DOMAIN review \ {id} |-> review[other]]
      /\ UNCHANGED <<audit, batch, taken, published, vetted>>
  BY DEF LoseRow
<1>2. ReviewInv'
  BY <1>1 DEF AuditInv, ReviewInv, NothingUnseen
<1> QED BY <1>1, <1>2, BatchKept DEF AuditInv

LEMMA PublishStep == ASSUME AuditInv, Publish PROVE AuditInv'
<1>1. review # None /\ published' = KeptFindings(audit) /\ UNCHANGED <<audit, batch, taken, review, vetted>>
  BY DEF Publish
<1>2. \A row \in KeptFindings(audit) : FindingId(row[1], row[2]) \in vetted
  <2> SUFFICES ASSUME NEW row \in KeptFindings(audit) PROVE FindingId(row[1], row[2]) \in vetted
    OBVIOUS
  <2> DEFINE id == FindingId(row[1], row[2])
  <2>1. Decision(id) = "keep"
    BY DEF KeptFindings
  <2> HIDE DEF id
  <2>2. id \in DOMAIN review /\ review[id] = "keep"
    BY <2>1 DEF Decision
  <2>3. id \in vetted
    BY <1>1, <2>2 DEF AuditInv, ReviewInv
  <2> QED BY <2>3 DEF id
<1>3. ReviewInv'
  BY <1>1, <1>2 DEF AuditInv, ReviewInv, NothingUnseen
<1> QED BY <1>1, <1>3, BatchKept DEF AuditInv

LEMMA AuditStep ==
  ASSUME Distinct(LoadLot) PROVE AuditInv /\ [AuditNext]_auditVars => AuditInv'
<1> SUFFICES ASSUME AuditInv, [AuditNext]_auditVars PROVE AuditInv'
  OBVIOUS
<1>1. CASE UNCHANGED auditVars
  BY <1>1, BatchKept DEF auditVars, AuditInv, ReviewInv, NothingUnseen
<1>2. CASE Operator
  <2>1. CASE \E limit \in Limits, resume \in BOOLEAN : StartBatch(limit, resume)
    BY <2>1, StartBatchStep
  <2>2. CASE \E i \in 1..Len(Lot) : AnalyzeDossier(i)
    BY <2>2, AnalyzeDossierStep
  <2> QED BY <1>2, <2>1, <2>2, OpenOutputStep, FinishBatchStep, KillBatchStep DEF Operator
<1>3. CASE Reviewer
  BY <1>3, WriteReviewStep, DecideStep, LoseRowStep, PublishStep DEF Reviewer
<1> QED BY <1>1, <1>2, <1>3 DEF AuditNext

\* When the references of the dossiers differ, nothing disappears between what the LLM said and the
\* audit, whatever is killed, resumed or merged; and nothing is published that the reviewer did not say
\* « keep » of, whatever is exported, lost or analysed again (run_batch.py, dedup.py, review.py).
THEOREM TheAuditIsSound == ASSUME Distinct(LoadLot) PROVE AuditSpec => []AuditIsSound
<1>1. AuditInv => AuditIsSound
  BY FileMakesComplete DEF AuditInv, ReviewInv, AuditIsSound
<1> QED BY <1>1, AuditStarts, AuditStep, PTL DEF AuditSpec

\* The types of the two files and of the batch; a result has the place of its dossier.
AuditTypeInv ==
    /\ AuditTypeOK
    /\ BatchFields
    /\ Numbered(batch.todo) /\ batch.fresh = [i \in DOMAIN batch.todo |-> batch.fresh[i]]
    /\ review # None => review = [id \in DOMAIN review |-> review[id]]

LEMMA SameLength ==
  ASSUME NEW seq, NEW dossiers, Numbered(dossiers), seq = [i \in DOMAIN dossiers |-> seq[i]]
  PROVE  Len(seq) = Len(dossiers)
<1> DEFINE n == Len(dossiers)
           T == {seq[i] : i \in 1..n}
<1>1. n \in Nat /\ seq = [i \in 1..n |-> seq[i]]
  BY DEF Numbered
<1>2. \A i \in 1..n : seq[i] \in T
  OBVIOUS
<1> HIDE DEF n, T
<1>3. Len(seq) = n
  BY <1>1, <1>2
<1> QED BY <1>3 DEF n

LEMMA SomeNumbered == ASSUME NEW seq, Numbered(seq), NEW S PROVE Numbered(Only(seq, S))
<1>1. Kept(Only(seq, S), seq, Len(seq), S)
  BY OnlyKeeps DEF Numbered
<1>2. Only(seq, S) \in Seq(S)
  BY <1>1 DEF Kept
<1> QED BY <1>2 DEF Numbered

LEMMA StartBatchTypes ==
  ASSUME AuditTypeInv, NEW limit \in Limits, NEW resume \in BOOLEAN, StartBatch(limit, resume)
  PROVE  AuditTypeInv'
<1> DEFINE m == IF limit < Len(LoadLot) THEN limit ELSE Len(LoadLot)
           dossiers == SubSeq(LoadLot, 1, m)
           previous == IF resume THEN LoadPrevious(audit) ELSE {}
           todo == IF resume THEN Pending(previous, dossiers, audit) ELSE dossiers
           chosen == {dossiers[i].reference : i \in DOMAIN dossiers}
           fresh == [i \in DOMAIN todo |-> None]
<1>1. /\ batch' = [stage |-> "asking", previous |-> previous, todo |-> todo, fresh |-> fresh, chosen |-> chosen]
      /\ batches < MaxBatches /\ batches' = batches + 1 /\ UNCHANGED <<audit, review>>
  BY DEF StartBatch
<1>2. Numbered(dossiers)
  <2> DEFINE S == {d \in ToSet(Lot) : d.narrative = "readable"}
  <2>1. Kept(LoadLot, Lot, Len(Lot), S)
    BY AuditAssumption, OnlyKeeps DEF LoadLot
  <2>2. LoadLot \in Seq(S)
    BY <2>1 DEF Kept
  <2> HIDE DEF S
  <2>3. limit \in Nat /\ Len(LoadLot) \in Nat
    BY <2>2, AuditAssumption
  <2>4. m \in 0..Len(LoadLot)
    BY <2>3
  <2> HIDE DEF m
  <2>5. Len(dossiers) = m /\ DOMAIN dossiers = 1..m
    BY <2>2, <2>3, <2>4
  <2> QED BY <2>3, <2>4, <2>5 DEF Numbered
<1> HIDE DEF m, dossiers
<1>3. Numbered(todo)
  <2>1. CASE ~ resume
    BY <1>2, <2>1
  <2>2. CASE resume
    <3> DEFINE S == {d \in ToSet(dossiers) : \A a \in previous : a.reference # d.reference}
    <3>1. todo = Only(dossiers, S)
      BY <2>2 DEF Pending
    <3> HIDE DEF todo, previous, S
    <3> QED BY <1>2, <3>1, SomeNumbered
  <2> QED BY <2>1, <2>2
<1> HIDE DEF previous, todo, chosen
<1>4. fresh = [i \in DOMAIN todo |-> fresh[i]]
  OBVIOUS
<1> HIDE DEF fresh
<1>5. Len(fresh) = Len(todo)
  BY <1>3, <1>4, SameLength
<1>6. batch'.stage = "asking" /\ batch'.todo = todo /\ batch'.fresh = fresh
  BY <1>1
<1>7. batches' \in 0..MaxBatches
  BY <1>1, AuditAssumption DEF AuditTypeInv, AuditTypeOK
<1>8. AuditTypeOK'
  BY <1>1, <1>5, <1>6, <1>7 DEF AuditTypeInv, AuditTypeOK, Readable
<1>9. BatchFields'
  BY <1>1 DEF BatchFields
<1> QED BY <1>1, <1>3, <1>4, <1>6, <1>8, <1>9 DEF AuditTypeInv

LEMMA AuditTypeStep == AuditTypeInv /\ [AuditNext]_auditVars => AuditTypeInv'
<1> SUFFICES ASSUME AuditTypeInv, [AuditNext]_auditVars PROVE AuditTypeInv'
  OBVIOUS
<1>1. CASE UNCHANGED auditVars
  BY <1>1 DEF auditVars, AuditTypeInv, AuditTypeOK, Readable, BatchFields
<1>2. ASSUME NEW limit \in Limits, NEW resume \in BOOLEAN, StartBatch(limit, resume) PROVE AuditTypeInv'
  BY <1>2, StartBatchTypes
<1>3. ASSUME NEW i \in 1..Len(Lot), AnalyzeDossier(i) PROVE AuditTypeInv'
  <2>1. PICK a \in Analyses(batch.todo[i].reference) : batch' = [batch EXCEPT !.fresh[i] = a]
    BY <1>3 DEF AnalyzeDossier
  <2>2. batch.stage = "asking" /\ UNCHANGED <<audit, batches, review>>
    BY <1>3 DEF AnalyzeDossier
  <2> DEFINE fresh == [batch.fresh EXCEPT ![i] = a]
  <2>3. batch'.stage = "asking" /\ batch'.todo = batch.todo /\ batch'.fresh = fresh /\ BatchFields'
    BY <2>1, <2>2 DEF AuditTypeInv, BatchFields
  <2>4. fresh = [k \in DOMAIN batch.todo |-> fresh[k]]
    BY DEF AuditTypeInv
  <2> HIDE DEF fresh
  <2>5. Numbered(batch.todo)
    BY DEF AuditTypeInv
  <2>6. Len(fresh) = Len(batch.todo)
    BY <2>4, <2>5, SameLength
  <2>7. AuditTypeOK'
    BY <2>2, <2>3, <2>6 DEF AuditTypeInv, AuditTypeOK, Readable
  <2> QED BY <2>2, <2>3, <2>4, <2>5, <2>7 DEF AuditTypeInv
<1>4. CASE OpenOutput
  <2>1. audit' = Truncated /\ batch' = [batch EXCEPT !.stage = "writing"] /\ UNCHANGED <<batches, review>>
    BY <1>4 DEF OpenOutput
  <2>2. batch'.stage = "writing" /\ batch'.todo = batch.todo /\ batch'.fresh = batch.fresh /\ BatchFields'
    BY <2>1 DEF AuditTypeInv, BatchFields
  <2>3. AuditTypeOK'
    BY <2>1, <2>2 DEF AuditTypeInv, AuditTypeOK, Readable
  <2> QED BY <2>1, <2>2, <2>3 DEF AuditTypeInv
<1>5. ASSUME batch' = NoBatch, UNCHANGED <<batches, review>>, Readable(audit') => audit'.skipped = Skipped
      PROVE  AuditTypeInv'
  <2>1. /\ batch'.stage = "idle" /\ batch'.todo = <<>> /\ batch'.fresh = <<>> /\ BatchFields'
        /\ Len(<<>>) = 0 /\ DOMAIN <<>> = 1..0 /\ <<>> = [i \in DOMAIN <<>> |-> <<>>[i]]
    BY <1>5 DEF NoBatch, BatchFields
  <2>2. AuditTypeOK'
    BY <1>5, <2>1 DEF AuditTypeInv, AuditTypeOK, Readable
  <2> QED BY <1>5, <2>1, <2>2 DEF AuditTypeInv, Numbered
<1>6. CASE FinishBatch
  BY <1>5, <1>6 DEF FinishBatch
<1>7. CASE KillBatch
  BY <1>5, <1>7 DEF KillBatch, AuditTypeInv, AuditTypeOK, Readable
<1>8. ASSUME UNCHANGED <<audit, batch, batches>>,
             review' # None =>
                /\ review' = [id \in DOMAIN review' |-> review'[id]]
                /\ \A id \in DOMAIN review' : review'[id] \in {"pending", "keep", "drop"}
      PROVE  AuditTypeInv'
  BY <1>8 DEF AuditTypeInv, AuditTypeOK, Readable, BatchFields
<1>9. CASE WriteReview
  BY <1>8, <1>9 DEF WriteReview
<1>10. ASSUME NEW id, Decide(id) PROVE AuditTypeInv'
  <2>1. PICK decision \in {"keep", "drop"} : review' = [review EXCEPT ![id] = decision]
    BY <1>10 DEF Decide
  <2>2. review # None /\ id \in DOMAIN review /\ UNCHANGED <<audit, batch, batches>>
    BY <1>10 DEF Decide
  <2> QED BY <1>8, <2>1, <2>2 DEF AuditTypeInv, AuditTypeOK
<1>11. ASSUME NEW id, LoseRow(id) PROVE AuditTypeInv'
  BY <1>8, <1>11 DEF LoseRow, AuditTypeInv, AuditTypeOK
<1>12. CASE Publish
  BY <1>1, <1>12 DEF Publish, AuditTypeInv, AuditTypeOK, Readable, BatchFields
<1>13. CASE Operator
  BY <1>2, <1>3, <1>4, <1>6, <1>7, <1>13 DEF Operator
<1>14. CASE Reviewer
  BY <1>9, <1>10, <1>11, <1>12, <1>14 DEF Reviewer
<1> QED BY <1>1, <1>13, <1>14 DEF AuditNext

\* Whatever is killed, resumed, lost or decided, and whatever the references of the dossiers, the two
\* files have their shape, and a batch one place for the result of each dossier (AuditTypeOK;
\* run_batch.py, review.py).
THEOREM TheAuditIsTyped == AuditSpec => []AuditTypeOK
<1>1. AuditInit => AuditTypeInv
  BY AuditAssumption DEF AuditInit, AuditTypeInv, AuditTypeOK, NoBatch, Readable, Numbered, BatchFields
<1>2. AuditTypeInv => AuditTypeOK
  BY DEF AuditTypeInv
<1> QED BY <1>1, <1>2, AuditTypeStep, PTL DEF AuditSpec
-----------------------------------------------------------------------------
(* The numbers.                                                            *)

LEMMA FloorIsBelow ==
  ASSUME NEW n \in Int, NEW d \in Nat \ {0}
  PROVE  n \div d \in Int /\ (n \div d) * d <= n
<1> DEFINE q == n \div d
           e == n % d
<1>1. q \in Int /\ e \in 0..(d - 1) /\ n = d * q + e
  OBVIOUS
<1> HIDE DEF q, e
<1>2. q * d = d * q
  BY <1>1
<1>3. q \in Int /\ q * d <= n
  BY <1>1, <1>2
<1> QED BY <1>3 DEF q

\* round() is next to its argument, and keeps the order.
LEMMA RoundBounds ==
  ASSUME NEW n \in Int, NEW d \in Nat \ {0}, NEW lo \in Int, NEW hi \in Int, lo * d <= n, n <= hi * d
  PROVE  RoundHalfEven(n, d) \in Int /\ lo <= RoundHalfEven(n, d) /\ RoundHalfEven(n, d) <= hi
<1> DEFINE q == n \div d
           e == n % d
<1>1. q \in Int /\ e \in 0..(d - 1) /\ n = d * q + e
  OBVIOUS
<1>2. RoundHalfEven(n, d) \in {q, q + 1} /\ (RoundHalfEven(n, d) = q + 1 => 2 * e >= d)
  BY <1>1 DEF RoundHalfEven
<1> HIDE DEF q, e
<1>3. lo <= q
  <2>1. SUFFICES ASSUME q + 1 <= lo PROVE FALSE
    BY <1>1
  <2>2. (q + 1) * d <= lo * d
    BY <1>1, <2>1
  <2>3. (q + 1) * d = d * q + d
    BY <1>1
  <2> QED BY <1>1, <2>2, <2>3
<1>4. q <= hi /\ (q = hi => e = 0)
  <2>1. ASSUME hi + 1 <= q PROVE FALSE
    <3>1. (hi + 1) * d <= q * d
      BY <1>1, <2>1
    <3>2. (hi + 1) * d = hi * d + d /\ q * d = d * q
      BY <1>1
    <3> QED BY <1>1, <3>1, <3>2
  <2>2. ASSUME q = hi PROVE e = 0
    <3>1. hi * d = d * q
      BY <1>1, <2>2
    <3> QED BY <1>1, <3>1
  <2> QED BY <1>1, <2>1, <2>2
<1> QED BY <1>1, <1>2, <1>3, <1>4

LEMMA RoundMonotone ==
  ASSUME NEW n \in Int, NEW m \in Int, NEW d \in Nat \ {0}, n <= m
  PROVE  RoundHalfEven(n, d) <= RoundHalfEven(m, d)
<1> DEFINE q == n \div d
           e == n % d
           p == m \div d
           b == m % d
<1>1. q \in Int /\ e \in 0..(d - 1) /\ n = d * q + e
  OBVIOUS
<1>2. p \in Int /\ b \in 0..(d - 1) /\ m = d * p + b
  OBVIOUS
<1>3. /\ RoundHalfEven(n, d) = IF 2 * e < d \/ (2 * e = d /\ q % 2 = 0) THEN q ELSE q + 1
      /\ RoundHalfEven(m, d) = IF 2 * b < d \/ (2 * b = d /\ p % 2 = 0) THEN p ELSE p + 1
  BY DEF RoundHalfEven
<1> HIDE DEF q, e, p, b
<1>4. q <= p
  <2>1. SUFFICES ASSUME p + 1 <= q PROVE FALSE
    BY <1>1, <1>2
  <2>2. d * (p + 1) <= d * q
    BY <1>1, <1>2, <2>1
  <2>3. d * (p + 1) = d * p + d
    BY <1>2
  <2> QED BY <1>1, <1>2, <2>2, <2>3
<1>5. q = p => e <= b
  BY <1>1, <1>2
<1> QED BY <1>1, <1>2, <1>3, <1>4, <1>5

LEMMA RoundOfHalf == ASSUME NEW n \in Int PROVE RoundHalfEven(2 * n, 2) = n
<1>1. (2 * n) \div 2 = n /\ (2 * n) % 2 = 0
  OBVIOUS
<1> QED BY <1>1 DEF RoundHalfEven

\* A higher score is not of a lower level.
LEMMA LevelMonotone ==
  ASSUME NEW x \in Nat, NEW y \in Nat, x <= y
  PROVE  MaturityLevel(x) <= MaturityLevel(y)
<1> DEFINE Level(z) == IF z <= 25 THEN 1 ELSE IF z <= 45 THEN 2 ELSE IF z <= 60 THEN 3 ELSE
                       IF z <= 75 THEN 4 ELSE IF z <= 85 THEN 5 ELSE 6
<1>1. ASSUME NEW z \in Nat PROVE MaturityLevel(z) = Level(z)
  <2> DEFINE fit == {i \in 1..6 : MATURITY_LEVELS[i][1] <= z /\ z <= MATURITY_LEVELS[i][2]}
  <2>1. DOMAIN MATURITY_LEVELS = 1..6 /\ Len(MATURITY_LEVELS) = 6
    BY DEF MATURITY_LEVELS
  <2>2. MaturityLevel(z) = IF fit = {} THEN 6 ELSE Min(fit)
    BY <2>1 DEF MaturityLevel
  <2>3. /\ MATURITY_LEVELS[1] = <<0, 25>> /\ MATURITY_LEVELS[2] = <<26, 45>> /\ MATURITY_LEVELS[3] = <<46, 60>>
        /\ MATURITY_LEVELS[4] = <<61, 75>> /\ MATURITY_LEVELS[5] = <<76, 85>> /\ MATURITY_LEVELS[6] = <<86, 100>>
    BY DEF MATURITY_LEVELS
  <2>4. \A i \in 1..6 : i \in fit <=> i = Level(z) /\ z <= 100
    BY <2>3
  <2>5. Level(z) \in 1..6
    OBVIOUS
  <2>6. z > 100 => Level(z) = 6
    OBVIOUS
  <2> HIDE DEF Level
  <2>7. IF z <= 100 THEN fit = {Level(z)} ELSE fit = {}
    BY <2>4, <2>5
  <2> HIDE DEF fit
  <2>8. Min({Level(z)}) = Level(z)
    BY <2>5 DEF Min
  <2> QED BY <2>2, <2>6, <2>7, <2>8
<1>2. Level(x) <= Level(y)
  OBVIOUS
<1> HIDE DEF Level
<1> QED BY <1>1, <1>2

-----------------------------------------------------------------------------
(* What a run is worth.                                                    *)

GradedIn(v, scores) == DOMAIN scores = Keys(Grids[v]) /\ \A k \in Keys(Grids[v]) : scores[k] \in Int
ScoresOf(scores) == {scores[k] : k \in DOMAIN scores}

LEMMA TotalIs == \A f : Total(f) = SumOver(f)
BY Zenon DEF Total, SumOver

LEMMA GridKeys ==
  ASSUME NEW v \in Versions
  PROVE  IsFiniteSet(Keys(Grids[v])) /\ Keys(Grids[v]) # {}
<1> DEFINE axes == Grids[v].axes
           n == Len(axes)
           h == [i \in 1..n |-> axes[i].key]
<1>1. n \in Nat \ {0} /\ DOMAIN axes = 1..n
  BY GridAssumption
<1>2. Keys(Grids[v]) = {h[i] : i \in 1..n}
  BY <1>1 DEF Keys
<1>3. DOMAIN h = 1..n
  OBVIOUS
<1>4. 1 \in 1..n /\ IsFiniteSet(1..n)
  BY <1>1, FS_Interval
<1> HIDE DEF n, h
<1>5. IsFiniteSet({h[i] : i \in 1..n})
  BY <1>3, <1>4, ValuesFinite
<1>6. {h[i] : i \in 1..n} # {}
  BY <1>4
<1> QED BY <1>2, <1>5, <1>6

\* The weights of a grid, and their total.
LEMMA WeightsTotal ==
  ASSUME NEW v \in Versions
  PROVE  LET w == Weights(Grids[v], Category) IN
         /\ w \in [Keys(Grids[v]) -> Int] /\ \A k \in Keys(Grids[v]) : w[k] \in Nat \ {0}
         /\ Total(w) \in Nat \ {0}
<1> DEFINE w == Weights(Grids[v], Category)
           K == Keys(Grids[v])
<1>1. w \in [K -> Int] /\ \A k \in K : w[k] \in Nat \ {0} /\ w[k] > 0
  <2>1. \A k \in K : Weight(Grids[v], Category, k) \in Nat \ {0}
    BY Zenon, GridAssumption
  <2>2. w = [k \in K |-> Weight(Grids[v], Category, k)]
    BY DEF Weights
  <2> QED BY <2>1, <2>2
<1>2. IsFiniteSet(K) /\ K # {}
  BY GridKeys
<1> HIDE DEF w, K
<1>3. Total(w) \in Int /\ Total(w) > 0
  BY <1>1, <1>2, TotalIsPositive, TotalIs
<1>4. Total(w) \in Nat \ {0}
  BY <1>3
<1> QED BY <1>1, <1>4 DEF w, K

LEMMA WeightedScores ==
  ASSUME NEW v \in Versions, NEW scores, GradedIn(v, scores)
  PROVE  LET w == Weights(Grids[v], Category)  f == Weighted(Grids[v], Category, scores) IN
         /\ f \in [Keys(Grids[v]) -> Int]
         /\ \A k \in Keys(Grids[v]) : f[k] = scores[k] * w[k]
         /\ WeightedOverall(Grids[v], Category, scores) = RoundHalfEven(Total(f), Total(w))
<1> DEFINE w == Weights(Grids[v], Category)
           f == Weighted(Grids[v], Category, scores)
           K == Keys(Grids[v])
<1>1. \A k \in K : w[k] = Weight(Grids[v], Category, k) /\ w[k] \in Int
  BY WeightsTotal DEF Weights
<1>2. \A k \in K : Get(scores, k) = scores[k] /\ scores[k] \in Int
  BY DEF GradedIn, Get
<1>3. f = [k \in K |-> scores[k] * w[k]]
  BY <1>1, <1>2 DEF Weighted
<1>4. \A k \in K : scores[k] * w[k] \in Int
  BY <1>1, <1>2
<1>5. Total(w) # 0
  BY WeightsTotal
<1> HIDE DEF w, f
<1>6. f \in [K -> Int] /\ \A k \in K : f[k] = scores[k] * w[k]
  BY <1>3, <1>4
<1>7. WeightedOverall(Grids[v], Category, scores) = RoundHalfEven(Total(f), Total(w))
  BY <1>5 DEF WeightedOverall, w, f
<1> QED BY <1>6, <1>7 DEF w, f

\* The weighted score is between the lowest score and the highest one.
LEMMA OverallBetween ==
  ASSUME NEW v \in Versions, NEW scores, GradedIn(v, scores)
  PROVE  LET overall == WeightedOverall(Grids[v], Category, scores) IN
         overall \in Int /\ Min(ScoresOf(scores)) <= overall /\ overall <= Max(ScoresOf(scores))
<1> DEFINE w == Weights(Grids[v], Category)
           f == Weighted(Grids[v], Category, scores)
           K == Keys(Grids[v])
           lo == Min(ScoresOf(scores))
           hi == Max(ScoresOf(scores))
           low == [k \in K |-> lo * w[k]]
           high == [k \in K |-> hi * w[k]]
<1>1. IsFiniteSet(K) /\ K # {}
  BY GridKeys
<1>2. DOMAIN scores = K /\ \A k \in K : scores[k] \in Int
  BY DEF GradedIn
<1>3. lo \in Int /\ hi \in Int /\ \A k \in K : lo <= scores[k] /\ scores[k] <= hi
  <2>1. IsFiniteSet(ScoresOf(scores)) /\ ScoresOf(scores) \in SUBSET Int /\ ScoresOf(scores) # {}
    BY <1>1, <1>2, ValuesFinite DEF ScoresOf
  <2>2. \A k \in K : scores[k] \in ScoresOf(scores)
    BY <1>2 DEF ScoresOf
  <2> QED BY <2>1, <2>2, ExtremaOf
<1>4. w \in [K -> Int] /\ (\A k \in K : w[k] \in Nat \ {0}) /\ Total(w) \in Nat \ {0}
  BY WeightsTotal
<1>5. /\ f \in [K -> Int] /\ \A k \in K : f[k] = scores[k] * w[k]
      /\ WeightedOverall(Grids[v], Category, scores) = RoundHalfEven(Total(f), Total(w))
  BY WeightedScores
<1> HIDE DEF w, f, K, lo, hi
<1>6. ASSUME NEW k \in K PROVE lo * w[k] <= f[k] /\ f[k] <= hi * w[k]
  <2> DEFINE x == scores[k]
             y == w[k]
  <2>1. x \in Int /\ y \in Nat /\ lo <= x /\ x <= hi /\ f[k] = x * y
    BY <1>2, <1>3, <1>4, <1>5
  <2> HIDE DEF x, y
  <2>2. lo * y <= x * y /\ x * y <= hi * y
    BY <1>3, <2>1
  <2> QED BY <2>1, <2>2 DEF y
<1>7. low \in [K -> Int] /\ high \in [K -> Int] /\ \A k \in K : low[k] = lo * w[k] /\ high[k] = hi * w[k]
  BY <1>3, <1>4
<1> HIDE DEF low, high
<1>8. Total(low) = lo * Total(w) /\ Total(high) = hi * Total(w)
  <2>1. IsFiniteSet(K) /\ w \in [K -> Int] /\ lo \in Int /\ hi \in Int /\ low \in [K -> Int] /\ high \in [K -> Int]
    BY <1>1, <1>3, <1>4, <1>7
  <2>2. (\A k \in K : low[k] = lo * w[k]) /\ (\A k \in K : high[k] = hi * w[k])
    BY <1>7
  <2>3. SumOver(low) = lo * SumOver(w)
    BY <2>1, <2>2, TotalOfMultiples
  <2>4. SumOver(high) = hi * SumOver(w)
    BY <2>1, <2>2, TotalOfMultiples
  <2> QED BY <2>3, <2>4, TotalIs
<1>9. Total(low) <= Total(f) /\ Total(f) <= Total(high) /\ Total(f) \in Int
  <2>1. \A k \in K : low[k] <= f[k] /\ f[k] <= high[k]
    BY <1>6, <1>7
  <2> QED BY <1>1, <1>5, <1>7, <2>1, TotalsCompare, TotalIs
<1>10. LET r == RoundHalfEven(Total(f), Total(w)) IN r \in Int /\ lo <= r /\ r <= hi
  <2> DEFINE n == Total(f)
             d == Total(w)
  <2>1. n \in Int /\ d \in Nat \ {0} /\ lo * d <= n /\ n <= hi * d
    BY <1>4, <1>8, <1>9
  <2> HIDE DEF n, d
  <2>2. RoundHalfEven(n, d) \in Int /\ lo <= RoundHalfEven(n, d) /\ RoundHalfEven(n, d) <= hi
    BY <1>3, <2>1, RoundBounds
  <2> QED BY <2>2 DEF n, d
<1> QED BY <1>5, <1>10 DEF lo, hi

\* Scores that are not lower have a weighted score that is not lower.
LEMMA OverallMonotone ==
  ASSUME NEW v \in Versions, NEW scores, GradedIn(v, scores), NEW better, GradedIn(v, better),
         \A k \in Keys(Grids[v]) : scores[k] <= better[k]
  PROVE  WeightedOverall(Grids[v], Category, scores) <= WeightedOverall(Grids[v], Category, better)
<1> DEFINE w == Weights(Grids[v], Category)
           f == Weighted(Grids[v], Category, scores)
           g == Weighted(Grids[v], Category, better)
           K == Keys(Grids[v])
<1>1. IsFiniteSet(K)
  BY GridKeys
<1>2. (\A k \in K : w[k] \in Nat) /\ Total(w) \in Nat \ {0}
  BY WeightsTotal
<1>3. f \in [K -> Int] /\ g \in [K -> Int] /\ \A k \in K : f[k] = scores[k] * w[k] /\ g[k] = better[k] * w[k]
  BY WeightedScores
<1>4. /\ WeightedOverall(Grids[v], Category, scores) = RoundHalfEven(Total(f), Total(w))
      /\ WeightedOverall(Grids[v], Category, better) = RoundHalfEven(Total(g), Total(w))
  BY WeightedScores
<1>5. \A k \in K : scores[k] \in Int /\ better[k] \in Int /\ scores[k] <= better[k]
  BY DEF GradedIn
<1> HIDE DEF w, f, g, K
<1>6. ASSUME NEW k \in K PROVE f[k] <= g[k]
  <2> DEFINE x == scores[k]
             y == better[k]
             z == w[k]
  <2>1. x \in Int /\ y \in Int /\ z \in Nat /\ x <= y /\ f[k] = x * z /\ g[k] = y * z
    BY <1>2, <1>3, <1>5
  <2> HIDE DEF x, y, z
  <2>2. x * z <= y * z
    BY <2>1
  <2> QED BY <2>1, <2>2
<1>7. Total(f) \in Int /\ Total(g) \in Int /\ Total(f) <= Total(g)
  BY <1>1, <1>3, <1>6, TotalsCompare, TotalIs
<1> QED BY <1>2, <1>4, <1>7, RoundMonotone

LEMMA ThreePlaces == IsFiniteSet(1..3)
<1>1. 1 \in Int /\ 3 \in Int
  OBVIOUS
<1> QED BY <1>1, FS_Interval

\* The median of three values is between any two of them.
LEMMA MedianOfThree ==
  ASSUME NEW s, DOMAIN s = 1..3, Len(s) = 3, \A i \in 1..3 : s[i] \in Int, NEW i \in 1..3, NEW j \in 1..3, i # j
  PROVE  Min({s[i], s[j]}) <= RoundedMedian(s) /\ RoundedMedian(s) <= Max({s[i], s[j]})
<1> DEFINE Below(x) == {l \in 1..3 : s[l] <= x}
           S == {s[x] : x \in {y \in 1..3 : Cardinality(Below(s[y])) >= 2}}
           m == Min(S)
<1>1. RoundedMedian(s) = RoundHalfEven(m + m, 2)
  BY DEF RoundedMedian, TwiceMedian, Smallest
<1>2. \A x \in Int : IsFiniteSet(Below(x)) /\ Cardinality(Below(x)) \in Nat
  <2> SUFFICES ASSUME NEW x \in Int PROVE IsFiniteSet(Below(x)) /\ Cardinality(Below(x)) \in Nat
    OBVIOUS
  <2>1. Below(x) \in SUBSET (1..3) /\ IsFiniteSet(1..3)
    BY ThreePlaces
  <2> HIDE DEF Below
  <2> QED BY <2>1, FS_Subset, FS_CardinalityType
<1>3. ASSUME NEW x \in Int, s[i] <= x, s[j] <= x PROVE Cardinality(Below(x)) >= 2
  <2>1. {i, j} \subseteq Below(x)
    BY <1>3
  <2>2. IsFiniteSet({i, j}) /\ Cardinality({i, j}) = 2
    <3>1. IsFiniteSet({i}) /\ Cardinality({i}) = 1
      BY FS_Singleton
    <3>2. {i, j} = {i} \cup {j} /\ j \notin {i}
      OBVIOUS
    <3>3. Cardinality({i} \cup {j}) = Cardinality({i}) + 1 /\ IsFiniteSet({i} \cup {j})
      BY <3>1, <3>2, FS_AddElement
    <3>4. 1 + 1 = 2
      OBVIOUS
    <3> QED BY <3>1, <3>2, <3>3, <3>4
  <2>3. Cardinality({i, j}) <= Cardinality(Below(x))
    BY <1>2, <1>3, <2>1, FS_Subset
  <2> QED BY <1>2, <1>3, <2>2, <2>3
<1>4. ASSUME NEW x \in Int, Cardinality(Below(x)) >= 2 PROVE s[i] <= x \/ s[j] <= x
  <2> SUFFICES ASSUME ~ s[i] <= x, ~ s[j] <= x PROVE FALSE
    OBVIOUS
  <2>1. PICK l \in 1..3 : Below(x) \subseteq {l}
    <3>1. \E l \in 1..3 : l # i /\ l # j
      OBVIOUS
    <3>2. PICK l \in 1..3 : l # i /\ l # j
      BY <3>1
    <3>3. \A y \in 1..3 : y = i \/ y = j \/ y = l
      BY <3>2
    <3>4. \A y \in Below(x) : y = l
      BY <3>3
    <3> QED BY <3>4
  <2>2. IsFiniteSet({l}) /\ Cardinality({l}) = 1
    BY FS_Singleton
  <2>3. Cardinality(Below(x)) <= 1
    BY <2>1, <2>2, FS_Subset
  <2> HIDE DEF Below
  <2> QED BY <1>2, <1>4, <2>3
<1> HIDE DEF Below
<1>5. \A x \in {s[i], s[j]} : s[i] <= x /\ s[j] <= x => x \in S
  BY <1>3
<1>6. PICK top \in {s[i], s[j]} : s[i] <= top /\ s[j] <= top
  <2>1. s[i] \in Int /\ s[j] \in Int
    OBVIOUS
  <2>2. s[i] <= s[j] \/ s[j] <= s[i]
    BY <2>1
  <2> QED BY <2>1, <2>2
<1>7. S \in SUBSET Int /\ S # {} /\ IsFiniteSet(S) /\ top \in S
  <2>1. S \subseteq {s[x] : x \in 1..3}
    OBVIOUS
  <2>2. IsFiniteSet({s[x] : x \in 1..3})
    <3>1. IsFiniteSet(1..3)
      BY ThreePlaces
    <3> QED BY <3>1, ValuesFinite
  <2>3. IsFiniteSet(S)
    BY <2>1, <2>2, FS_Subset
  <2> HIDE DEF S
  <2>4. \A x \in {s[x] : x \in 1..3} : x \in Int
    OBVIOUS
  <2> QED BY <1>5, <1>6, <2>1, <2>3, <2>4
<1>8. m \in S /\ m \in Int /\ m <= top
  BY <1>7, ExtremaOf
<1>9. s[i] <= m \/ s[j] <= m
  <2>1. Cardinality(Below(m)) >= 2
    BY <1>8
  <2> HIDE DEF m
  <2> QED BY <1>4, <1>8, <2>1
<1> HIDE DEF m, S
<1>10. RoundedMedian(s) = m
  <2>1. m + m = 2 * m
    BY <1>8
  <2> QED BY <1>1, <1>8, <2>1, RoundOfHalf
<1>11. IsFiniteSet({s[i], s[j]}) /\ {s[i], s[j]} \in SUBSET Int /\ {s[i], s[j]} # {}
  <2>1. IsFiniteSet({s[i]})
    BY FS_Singleton
  <2>2. {s[i], s[j]} = {s[i]} \cup {s[j]}
    OBVIOUS
  <2> QED BY <2>1, <2>2, FS_AddElement
<1>12. /\ Min({s[i], s[j]}) \in Int /\ Max({s[i], s[j]}) \in Int
       /\ Min({s[i], s[j]}) <= s[i] /\ Min({s[i], s[j]}) <= s[j] /\ top <= Max({s[i], s[j]})
  BY <1>11, ExtremaOf
<1>13. s[i] \in Int /\ s[j] \in Int /\ top \in Int
  BY <1>11
<1> QED BY <1>8, <1>9, <1>10, <1>12, <1>13

-----------------------------------------------------------------------------
(* The runs, and what a consensus is worth.                                *)

MachineRun(v, kept) == ScoreRun(v, Consensus(Grids[v], kept).axes, "llm", kept, Consensus(Grids[v], kept))
HumanRun(v, axes) == ScoreRun(v, axes, "human", <<>>, NoConsensus)
Agreed == {x \in Versions \X Returned :
    Consensual(Grids[x[1]], x[2]) /\ ValidAxes(Grids[x[1]], Consensus(Grids[x[1]], x[2]).axes)}
MachineRuns == {MachineRun(x[1], x[2]) : x \in Agreed}
HumanRuns == {HumanRun(x[1], x[2]) : x \in {y \in Versions \X HumanScores : ValidAxes(Grids[y[1]], y[2])}}

\* There is a grid that is active, and every run comes from a consensus or from an analyst.
GridInv ==
    /\ grids \in SUBSET Versions /\ grids # {}
    /\ activation \in [Admins -> [version : Versions \cup {None}, cleared : SUBSET Versions,
                                  stage : {"none", "waiting", "holding"}]]
    /\ \A a \in Admins : activation[a].stage # "none" => activation[a].version \in Versions
RunInv ==
    /\ runs \in Seq(MachineRuns \cup HumanRuns)
    /\ DOMAIN adjust = Adjusts
    /\ \A a \in Adjusts : adjust[a] # NoAdjust => adjust[a].run \in HumanRuns

LEMMA RoundType == ASSUME NEW n \in Int, NEW d \in Nat \ {0} PROVE RoundHalfEven(n, d) \in Int
BY DEF RoundHalfEven

LEMMA ValidIsGraded ==
  ASSUME NEW v \in Versions, NEW scores, ValidAxes(Grids[v], scores)
  PROVE  GradedIn(v, scores) /\ \A k \in Keys(Grids[v]) : scores[k] >= 0 /\ scores[k] <= Grids[v].scale
<1>1. DOMAIN scores = Keys(Grids[v]) /\ \A i \in DOMAIN Grids[v].axes : scores[Grids[v].axes[i].key] \in 0..Grids[v].scale
  BY Zenon DEF ValidAxes
<1>2. Grids[v].scale \in Nat
  BY GridAssumption
<1>3. \A k \in Keys(Grids[v]) : scores[k] \in 0..Grids[v].scale
  BY <1>1 DEF Keys
<1> QED BY <1>1, <1>2, <1>3 DEF GradedIn

\* What the passes say of one axis.
Opinions(kept, k) == {Values(kept, k)[i] : i \in DOMAIN Values(kept, k)}

LEMMA PassValues ==
  ASSUME NEW v \in Versions, NEW kept \in Returned, Consensual(Grids[v], kept), NEW k \in Keys(Grids[v])
  PROVE  /\ Len(kept) \in Nat \ {0} /\ DOMAIN kept = 1..Len(kept)
         /\ DOMAIN Values(kept, k) = 1..Len(kept) /\ Len(Values(kept, k)) = Len(kept)
         /\ \A i \in DOMAIN kept : Values(kept, k)[i] = kept[i][k] /\ kept[i][k] \in Int
         /\ IsFiniteSet(Opinions(kept, k)) /\ Opinions(kept, k) \in SUBSET Int /\ Opinions(kept, k) # {}
         /\ \A i \in DOMAIN kept : kept[i][k] \in Opinions(kept, k)
<1> DEFINE values == Values(kept, k)
           V == {values[i] : i \in DOMAIN values}
<1>1. PICK m \in 0..N_PASSES : kept \in [1..m -> PassResults]
  BY DEF Returned, SeqOf
<1>2. m \in Nat /\ Len(kept) = m /\ DOMAIN kept = 1..m
  BY <1>1 DEF N_PASSES
<1>3. m # 0
  <2>1. kept # <<>>
    BY DEF Consensual
  <2> QED BY <1>1, <1>2, <2>1
<1>4. Grids[v].scale \in Nat
  BY GridAssumption
<1>5. \A i \in 1..m : kept[i][k] \in Int
  <2>1. \A i \in 1..m : kept[i][k] \in 0..Grids[v].scale
    BY <1>2 DEF Consensual
  <2> QED BY <1>4, <2>1
<1>6. values = [i \in 1..m |-> kept[i][k]]
  BY <1>2 DEF Values
<1>7. Len(values) = m
  BY <1>2, <1>6
<1>8. IsFiniteSet(V)
  <2>1. IsFiniteSet(1..m) /\ DOMAIN values = 1..m
    BY <1>2, <1>6, FS_Interval
  <2> HIDE DEF values
  <2> QED BY <2>1, ValuesFinite
<1>9. V \in SUBSET Int /\ (\A i \in 1..m : kept[i][k] \in V) /\ 1 \in 1..m
  BY <1>2, <1>3, <1>5, <1>6
<1>10. V # {}
  BY <1>9
<1> HIDE DEF values
<1> QED BY <1>2, <1>3, <1>5, <1>6, <1>7, <1>8, <1>9, <1>10 DEF values, Opinions

\* No two passes are further apart than the spread of an axis.
LEMMA SpreadIs ==
  ASSUME NEW v \in Versions, NEW kept \in Returned, Consensual(Grids[v], kept), NEW k \in Keys(Grids[v])
  PROVE  /\ Spread(Values(kept, k)) \in Nat
         /\ \A i, j \in DOMAIN kept : kept[i][k] - kept[j][k] <= Spread(Values(kept, k))
<1> DEFINE V == Opinions(kept, k)
           top == Max(V)
           low == Min(V)
<1>1. IsFiniteSet(V) /\ V \in SUBSET Int /\ V # {} /\ \A i \in DOMAIN kept : kept[i][k] \in V
  BY PassValues
<1>2. Spread(Values(kept, k)) = top - low
  BY DEF Spread, Opinions
<1> HIDE DEF V
<1>3. top \in Int /\ low \in Int /\ \A x \in V : x \in Int /\ x <= top /\ low <= x
  BY <1>1, ExtremaOf
<1> HIDE DEF top, low
<1>4. ASSUME NEW i \in DOMAIN kept, NEW j \in DOMAIN kept PROVE kept[i][k] - kept[j][k] <= top - low
  <2> DEFINE x == kept[i][k]
             y == kept[j][k]
  <2>1. x \in Int /\ y \in Int /\ x <= top /\ low <= y
    BY <1>1, <1>3
  <2> HIDE DEF x, y
  <2>2. x - y <= top - low
    BY <1>3, <2>1
  <2> QED BY <2>2 DEF x, y
<1>5. top - low \in Nat
  <2>1. PICK x : x \in V
    BY <1>1
  <2>2. x \in Int /\ x <= top /\ low <= x
    BY <1>3, <2>1
  <2> QED BY <1>3, <2>2
<1> QED BY <1>2, <1>4, <1>5

\* The mean of the spreads, in hundredths.
LEMMA MeanIs ==
  ASSUME NEW v \in Versions, NEW spread, DOMAIN spread = Keys(Grids[v]), spread \in [Keys(Grids[v]) -> Nat]
  PROVE  MeanSpread(spread) \in Nat
<1> DEFINE K == Keys(Grids[v])
           total == SumOver(spread)
           n == Cardinality(K)
<1>1. IsFiniteSet(K) /\ K # {}
  BY GridKeys
<1>2. spread \in [K -> Nat]
  OBVIOUS
<1> HIDE DEF K
<1>3. total \in Nat
  BY <1>1, <1>2, TotalIsNat
<1>4. n \in Nat \ {0}
  BY <1>1, FS_CardinalityType, FS_EmptySet
<1> HIDE DEF total, n
<1> DEFINE sum == 100 * total
<1>5. sum \in Nat
  BY <1>3
<1> HIDE DEF sum
<1>6. sum \div n \in Nat
  BY <1>4, <1>5
<1>7. RoundHalfEven(sum, n) \in Nat
  BY <1>6 DEF RoundHalfEven
<1>8. MeanSpread(spread) = RoundHalfEven(sum, n)
  BY TotalIs DEF MeanSpread, total, n, K, sum
<1> QED BY <1>7, <1>8

\* A confidence is in thousandths.
LEMMA ConfidenceType ==
  ASSUME NEW v \in Versions, NEW m \in Nat
  PROVE  Confidence(m, Grids[v].scale) \in 0..1000
<1> DEFINE scale == Grids[v].scale
           n == 1000 * (50 * scale - m)
           d == 50 * scale
           q == n \div d
           x == RoundHalfEven(n, d)
<1>1. scale \in Nat \ {0}
  BY GridAssumption
<1>2. Confidence(m, scale) = Max({0, x})
  BY DEF Confidence
<1> HIDE DEF scale
<1>3. n \in Int /\ d \in Nat \ {0} /\ n <= 1000 * d
  BY <1>1
<1> HIDE DEF n, d
<1>4. q \in Int /\ q * d <= n
  BY <1>3, FloorIsBelow
<1> HIDE DEF q
<1>5. x \in Int /\ x <= 1000
  <2> DEFINE top == 1000
  <2>1. top \in Int /\ n <= top * d
    BY <1>3
  <2> HIDE DEF top
  <2>2. x \in Int /\ x <= top
    BY <1>3, <1>4, <2>1, RoundBounds
  <2> QED BY <2>2 DEF top
<1> HIDE DEF x
<1>6. IsFiniteSet({0, x}) /\ {0, x} \in SUBSET Int /\ {0, x} # {}
  <2>1. IsFiniteSet({0}) /\ {0, x} = {0} \cup {x}
    BY FS_Singleton
  <2>2. IsFiniteSet({0, x})
    BY <2>1, FS_AddElement
  <2> QED BY <1>5, <2>2
<1>7. Max({0, x}) \in {0, x} /\ 0 <= Max({0, x})
  BY <1>6, ExtremaOf
<1>8. Confidence(m, scale) \in 0..1000
  BY <1>2, <1>5, <1>7
<1> QED BY <1>8 DEF scale

LEMMA MachineRunIs ==
  ASSUME NEW run \in MachineRuns
  PROVE  \E v \in Versions, kept \in Returned :
            /\ Consensual(Grids[v], kept) /\ ValidAxes(Grids[v], Consensus(Grids[v], kept).axes)
            /\ run = MachineRun(v, kept)
<1>1. PICK x \in Agreed : run = MachineRun(x[1], x[2])
  BY DEF MachineRuns
<1>2. x[1] \in Versions /\ x[2] \in Returned
  BY DEF Agreed
<1>3. Consensual(Grids[x[1]], x[2]) /\ ValidAxes(Grids[x[1]], Consensus(Grids[x[1]], x[2]).axes)
  BY DEF Agreed
<1> QED BY <1>1, <1>2, <1>3

LEMMA HumanRunIs ==
  ASSUME NEW run \in HumanRuns
  PROVE  \E v \in Versions, axes \in HumanScores : ValidAxes(Grids[v], axes) /\ run = HumanRun(v, axes)
<1>1. PICK x \in {y \in Versions \X HumanScores : ValidAxes(Grids[y[1]], y[2])} : run = HumanRun(x[1], x[2])
  BY DEF HumanRuns
<1> QED BY <1>1

\* The fields of the runs.
LEMMA MachineRunFields ==
  ASSUME NEW v \in Versions, NEW kept \in Returned
  PROVE  /\ MachineRun(v, kept).grid_version = v
         /\ MachineRun(v, kept).axes = Consensus(Grids[v], kept).axes
         /\ MachineRun(v, kept).source = "llm"
         /\ MachineRun(v, kept).passes = kept
         /\ MachineRun(v, kept).spread = Consensus(Grids[v], kept).spread
         /\ MachineRun(v, kept).confidence = Consensus(Grids[v], kept).confidence
         /\ MachineRun(v, kept).needs_review = Consensus(Grids[v], kept).needs_review
         /\ MachineRun(v, kept).overall = WeightedOverall(Grids[v], Category, Consensus(Grids[v], kept).axes)
<1> DEFINE c == Consensus(Grids[v], kept)
<1>1. MachineRun(v, kept) = ScoreRun(v, c.axes, "llm", kept, c)
  BY DEF MachineRun
<1> HIDE DEF c
<1>2. LET run == ScoreRun(v, c.axes, "llm", kept, c) IN
         /\ run.grid_version = v /\ run.axes = c.axes /\ run.source = "llm" /\ run.passes = kept
         /\ run.spread = c.spread /\ run.confidence = c.confidence /\ run.needs_review = c.needs_review
         /\ run.overall = WeightedOverall(Grids[v], Category, c.axes)
  BY Zenon DEF ScoreRun
<1> QED BY <1>1, <1>2 DEF c

LEMMA ConsensusFields ==
  ASSUME NEW v \in Versions, NEW kept \in Returned
  PROVE  LET c == Consensus(Grids[v], kept) IN
         /\ c.axes = [k \in Keys(Grids[v]) |-> ConsensusAxis(Values(kept, k))]
         /\ c.spread = [k \in Keys(Grids[v]) |-> Spread(Values(kept, k))]
         /\ c.confidence = Confidence(MeanSpread(c.spread), Grids[v].scale)
         /\ c.needs_review = (UncertainAxes(c.spread, Grids[v].scale) # {} \/ c.confidence < MinConfidence \/ Len(kept) < 3)
BY Zenon DEF Consensus

LEMMA HumanRunFields ==
  ASSUME NEW v \in Versions, NEW axes
  PROVE  LET run == HumanRun(v, axes) IN
         /\ run.grid_version = v /\ run.axes = axes /\ run.source = "human" /\ run.spread = <<>>
         /\ run.overall = WeightedOverall(Grids[v], Category, axes)
BY Zenon DEF HumanRun, ScoreRun, NoConsensus

\* The axes of a run are those of its grid, and its score is their weighted mean.
LEMMA RunIsGraded ==
  ASSUME NEW run \in MachineRuns \cup HumanRuns
  PROVE  /\ run.grid_version \in Versions /\ ValidAxes(Grids[run.grid_version], run.axes)
         /\ run.overall = WeightedOverall(Grids[run.grid_version], Category, run.axes)
<1>1. CASE run \in MachineRuns
  <2>1. PICK v \in Versions, kept \in Returned :
            ValidAxes(Grids[v], Consensus(Grids[v], kept).axes) /\ run = MachineRun(v, kept)
    BY <1>1, MachineRunIs
  <2>2. /\ run.grid_version = v /\ run.axes = Consensus(Grids[v], kept).axes
        /\ run.overall = WeightedOverall(Grids[v], Category, Consensus(Grids[v], kept).axes)
    BY <2>1, MachineRunFields
  <2> QED BY <2>1, <2>2
<1>2. CASE run \in HumanRuns
  <2>1. PICK v \in Versions, axes \in HumanScores : ValidAxes(Grids[v], axes) /\ run = HumanRun(v, axes)
    BY <1>2, HumanRunIs
  <2>2. run.grid_version = v /\ run.axes = axes /\ run.overall = WeightedOverall(Grids[v], Category, axes)
    BY <2>1, HumanRunFields
  <2> QED BY <2>1, <2>2
<1> QED BY <1>1, <1>2

LEMMA TrustOfRun ==
  ASSUME NEW v \in Versions, NEW kept \in Returned, Consensual(Grids[v], kept)
  PROVE  LET run == MachineRun(v, kept) IN ~ run.needs_review =>
            /\ Len(run.passes) >= 3 /\ run.confidence >= MinConfidence
            /\ \A k \in DOMAIN run.axes, i, j \in DOMAIN run.passes :
                5 * (run.passes[i][k] - run.passes[j][k]) <= Grids[v].scale
<1> DEFINE run == MachineRun(v, kept)
           K == Keys(Grids[v])
           spread == [k \in K |-> Spread(Values(kept, k))]
           scale == Grids[v].scale
           c == Confidence(MeanSpread(spread), scale)
<1>1. /\ run.passes = kept /\ run.spread = spread /\ run.confidence = c
      /\ run.needs_review = (UncertainAxes(spread, scale) # {} \/ c < MinConfidence \/ Len(kept) < 3)
      /\ DOMAIN run.axes = K
  <2>1. /\ run.passes = kept /\ run.axes = Consensus(Grids[v], kept).axes
        /\ run.spread = Consensus(Grids[v], kept).spread
        /\ run.confidence = Consensus(Grids[v], kept).confidence
        /\ run.needs_review = Consensus(Grids[v], kept).needs_review
    BY MachineRunFields
  <2>2. Consensus(Grids[v], kept).spread = spread
    BY Zenon, ConsensusFields
  <2>3. Consensus(Grids[v], kept).confidence = c
    BY Zenon, <2>2, ConsensusFields
  <2>4. Consensus(Grids[v], kept).needs_review = (UncertainAxes(spread, scale) # {} \/ c < MinConfidence \/ Len(kept) < 3)
    BY Zenon, <2>2, <2>3, ConsensusFields
  <2>5. DOMAIN Consensus(Grids[v], kept).axes = K
    BY Zenon, ConsensusFields
  <2> HIDE DEF run, c, spread, scale, K
  <2> QED BY <2>1, <2>2, <2>3, <2>4, <2>5
<1>2. IsFiniteSet(K) /\ K # {}
  BY GridKeys
<1>3. Len(kept) \in Nat /\ \A i \in DOMAIN kept, k \in K : kept[i][k] \in Int
  BY <1>2, PassValues
<1>4. \A k \in K : spread[k] \in Nat /\ \A i, j \in DOMAIN kept : kept[i][k] - kept[j][k] <= spread[k]
  BY SpreadIs
<1>5. spread \in [K -> Nat] /\ DOMAIN spread = K
  BY <1>4
<1>6. scale \in Nat
  BY GridAssumption
<1> HIDE DEF spread
<1>7. c \in Int
  <2>1. MeanSpread(spread) \in Nat
    BY <1>5, MeanIs
  <2>2. c \in 0..1000
    BY <2>1, ConfidenceType
  <2> QED BY <2>2
<1> HIDE DEF c, scale, run
<1>8. ASSUME ~ run.needs_review PROVE Len(run.passes) >= 3 /\ run.confidence >= MinConfidence
  <2>1. ~ (c < MinConfidence) /\ ~ (Len(kept) < 3)
    BY <1>1, <1>8, Zenon
  <2> QED BY <1>1, <1>3, <1>7, <2>1 DEF MinConfidence
<1>9. ASSUME ~ run.needs_review, NEW k \in K, NEW i \in DOMAIN kept, NEW j \in DOMAIN kept
      PROVE  5 * (kept[i][k] - kept[j][k]) <= scale
  <2> DEFINE x == kept[i][k]
             y == kept[j][k]
             z == spread[k]
  <2>1. x \in Int /\ y \in Int /\ z \in Int /\ x - y <= z
    BY <1>3, <1>4
  <2>2. ~ 5 * z > scale
    BY <1>1, <1>5, <1>9 DEF UncertainAxes
  <2> HIDE DEF x, y, z
  <2>3. 5 * (x - y) <= scale
    BY <1>6, <2>1, <2>2
  <2> QED BY <2>3 DEF x, y
<1>10. ~ run.needs_review =>
            /\ Len(run.passes) >= 3 /\ run.confidence >= MinConfidence
            /\ \A k \in DOMAIN run.axes, i, j \in DOMAIN run.passes :
                5 * (run.passes[i][k] - run.passes[j][k]) <= scale
  BY <1>1, <1>8, <1>9
<1> QED BY <1>10 DEF run, scale

LEMMA OnePassOfRun ==
  ASSUME NEW v \in Versions, NEW kept \in Returned, Consensual(Grids[v], kept), Len(kept) = 3,
         NEW k \in Keys(Grids[v]), NEW i \in 1..3, NEW j \in 1..3, i # j
  PROVE  /\ MachineRun(v, kept).axes[k] >= Min({kept[i][k], kept[j][k]})
         /\ MachineRun(v, kept).axes[k] <= Max({kept[i][k], kept[j][k]})
<1> DEFINE s == Values(kept, k)
<1>1. MachineRun(v, kept).axes[k] = RoundedMedian(s)
  <2>1. MachineRun(v, kept).axes = Consensus(Grids[v], kept).axes
    BY MachineRunFields
  <2>2. Consensus(Grids[v], kept).axes = [l \in Keys(Grids[v]) |-> ConsensusAxis(Values(kept, l))]
    BY Zenon, ConsensusFields
  <2> QED BY <2>1, <2>2 DEF ConsensusAxis
<1>2. /\ DOMAIN s = 1..3 /\ Len(s) = 3
      /\ \A l \in 1..3 : s[l] = kept[l][k] /\ s[l] \in Int
  BY PassValues
<1> HIDE DEF s
<1>3. Min({s[i], s[j]}) <= RoundedMedian(s) /\ RoundedMedian(s) <= Max({s[i], s[j]})
  BY <1>2, MedianOfThree
<1> QED BY <1>1, <1>2, <1>3

LEMMA TrustHolds == RunInv => TrustIsEarned
<1> SUFFICES ASSUME RunInv, NEW r \in LLMRuns, ~ runs[r].needs_review
             PROVE  /\ Len(runs[r].passes) >= 3 /\ runs[r].confidence >= MinConfidence
                    /\ \A k \in DOMAIN runs[r].axes, i, j \in DOMAIN runs[r].passes :
                        5 * (runs[r].passes[i][k] - runs[r].passes[j][k]) <= Grids[runs[r].grid_version].scale
  BY Zenon DEF TrustIsEarned
<1>1. runs[r] \in MachineRuns \cup HumanRuns /\ runs[r].source = "llm"
  BY DEF RunInv, LLMRuns
<1>2. runs[r] \in MachineRuns
  <2>1. \A run \in HumanRuns : run.source = "human"
    BY HumanRunIs, HumanRunFields
  <2> QED BY <1>1, <2>1
<1>3. PICK v \in Versions, kept \in Returned : Consensual(Grids[v], kept) /\ runs[r] = MachineRun(v, kept)
  BY <1>2, MachineRunIs
<1>4. runs[r].grid_version = v
  BY <1>3, MachineRunFields
<1> QED BY Zenon, <1>3, <1>4, TrustOfRun

LEMMA OnePassHolds == RunInv => OnePassCannotPull
<1> SUFFICES ASSUME RunInv, NEW r \in LLMRuns, Len(runs[r].passes) = 3,
                    NEW k \in DOMAIN runs[r].axes, NEW i \in 1..3, NEW j \in 1..3, i # j
             PROVE  /\ runs[r].axes[k] >= Min({runs[r].passes[i][k], runs[r].passes[j][k]})
                    /\ runs[r].axes[k] <= Max({runs[r].passes[i][k], runs[r].passes[j][k]})
  BY Zenon DEF OnePassCannotPull
<1>1. runs[r] \in MachineRuns \cup HumanRuns /\ runs[r].source = "llm"
  BY DEF RunInv, LLMRuns
<1>2. runs[r] \in MachineRuns
  <2>1. \A run \in HumanRuns : run.source = "human"
    BY HumanRunIs, HumanRunFields
  <2> QED BY <1>1, <2>1
<1>3. PICK v \in Versions, kept \in Returned : Consensual(Grids[v], kept) /\ runs[r] = MachineRun(v, kept)
  BY <1>2, MachineRunIs
<1>4. runs[r].passes = kept /\ DOMAIN runs[r].axes = Keys(Grids[v])
  <2>1. Consensus(Grids[v], kept).axes = [l \in Keys(Grids[v]) |-> ConsensusAxis(Values(kept, l))]
    BY Zenon, ConsensusFields
  <2> QED BY <1>3, <2>1, MachineRunFields
<1> QED BY <1>3, <1>4, OnePassOfRun

LEMMA AverageHolds == RunInv => OverallIsAnAverage
<1> SUFFICES ASSUME RunInv, NEW r \in DOMAIN runs
             PROVE  /\ Min(ScoresOf(runs[r].axes)) <= runs[r].overall
                    /\ runs[r].overall <= Max(ScoresOf(runs[r].axes))
  BY Zenon DEF OverallIsAnAverage, ScoresOf
<1> DEFINE run == runs[r]
           v == run.grid_version
<1>1. run \in MachineRuns \cup HumanRuns
  BY DEF RunInv
<1> HIDE DEF run
<1>2. v \in Versions /\ ValidAxes(Grids[v], run.axes) /\ run.overall = WeightedOverall(Grids[v], Category, run.axes)
  BY <1>1, RunIsGraded
<1> HIDE DEF v
<1>3. GradedIn(v, run.axes)
  BY <1>2, ValidIsGraded
<1>4. Min(ScoresOf(run.axes)) <= run.overall /\ run.overall <= Max(ScoresOf(run.axes))
  BY <1>2, <1>3, OverallBetween
<1> QED BY <1>4 DEF run

\* To do better on any axis is never to score less.
LEMMA BetterPays ==
  ASSUME NEW v \in Versions, NEW axes, ValidAxes(Grids[v], axes), NEW key, NEW better \in (axes[key] + 1)..Grids[v].scale
  PROVE  LET before == WeightedOverall(Grids[v], Category, axes)
             after == WeightedOverall(Grids[v], Category, [axes EXCEPT ![key] = better]) IN
         after >= before /\ MaturityLevel(10 * after) >= MaturityLevel(10 * before)
<1> DEFINE K == Keys(Grids[v])
           new == [axes EXCEPT ![key] = better]
           before == WeightedOverall(Grids[v], Category, axes)
           after == WeightedOverall(Grids[v], Category, new)
<1>1. GradedIn(v, axes) /\ \A k \in K : axes[k] >= 0 /\ axes[k] <= Grids[v].scale
  BY ValidIsGraded
<1>2. Grids[v].scale \in Nat
  BY GridAssumption
<1>3. DOMAIN axes = K /\ \A k \in K : axes[k] \in Int
  BY <1>1 DEF GradedIn
<1>4. DOMAIN new = K /\ \A k \in K : new[k] = IF k = key THEN better ELSE axes[k]
  BY <1>3
<1>5. ASSUME NEW k \in K PROVE new[k] \in Int /\ axes[k] <= new[k]
  <2>1. CASE k = key
    <3>1. axes[key] \in Int /\ new[k] = better
      BY <1>3, <1>4, <2>1
    <3>2. better \in Int /\ axes[key] <= better
      BY <1>2, <3>1
    <3> QED BY <2>1, <3>1, <3>2
  <2>2. CASE k # key
    <3>1. new[k] = axes[k]
      BY <1>4, <2>2
    <3> QED BY <1>3, <3>1
  <2> QED BY <2>1, <2>2
<1> HIDE DEF new
<1>6. GradedIn(v, new)
  BY <1>4, <1>5 DEF GradedIn
<1>7. before <= after
  BY <1>1, <1>5, <1>6, OverallMonotone
<1>8. before \in Int /\ after \in Int /\ Min(ScoresOf(axes)) <= before
  BY <1>1, <1>6, OverallBetween
<1>9. Min(ScoresOf(axes)) \in Int /\ 0 <= Min(ScoresOf(axes))
  <2>1. IsFiniteSet(ScoresOf(axes)) /\ ScoresOf(axes) \in SUBSET Int /\ ScoresOf(axes) # {}
    BY <1>3, GridKeys, ValuesFinite DEF ScoresOf
  <2>2. Min(ScoresOf(axes)) \in ScoresOf(axes)
    BY <2>1, ExtremaOf
  <2>3. \A x \in ScoresOf(axes) : x \in Int /\ 0 <= x
    BY <1>1, <1>3 DEF ScoresOf
  <2> QED BY <2>2, <2>3
<1> HIDE DEF before, after
<1>10. MaturityLevel(10 * before) <= MaturityLevel(10 * after)
  <2>1. 10 * before \in Nat /\ 10 * after \in Nat /\ 10 * before <= 10 * after
    BY <1>7, <1>8, <1>9
  <2> QED BY <2>1, LevelMonotone
<1>11. after >= before /\ MaturityLevel(10 * after) >= MaturityLevel(10 * before)
  BY <1>7, <1>10
<1> QED BY <1>11 DEF before, after, new

LEMMA WorkHolds == RunInv => WorkPays
<1> SUFFICES ASSUME RunInv, NEW r \in DOMAIN runs, NEW key, NEW better \in (runs[r].axes[key] + 1)..Grids[runs[r].grid_version].scale
             PROVE  LET run == runs[r]  grid == Grids[run.grid_version]
                        after == WeightedOverall(grid, Category, [run.axes EXCEPT ![key] = better]) IN
                    after >= run.overall /\ MaturityLevel(10 * after) >= MaturityLevel(10 * run.overall)
  BY Zenon DEF WorkPays
<1> DEFINE run == runs[r]
           v == run.grid_version
<1>1. run \in MachineRuns \cup HumanRuns
  BY DEF RunInv
<1>2. v \in Versions /\ ValidAxes(Grids[v], run.axes) /\ run.overall = WeightedOverall(Grids[v], Category, run.axes)
  <2> HIDE DEF run
  <2> QED BY <1>1, RunIsGraded
<1>3. LET before == WeightedOverall(Grids[v], Category, run.axes)
          after == WeightedOverall(Grids[v], Category, [run.axes EXCEPT ![key] = better]) IN
      after >= before /\ MaturityLevel(10 * after) >= MaturityLevel(10 * before)
  BY <1>2, BetterPays
<1> QED BY <1>2, <1>3

LEMMA ScoringStarts == ScoringInit => GridInv /\ RunInv
<1> SUFFICES ASSUME ScoringInit PROVE GridInv /\ RunInv
  OBVIOUS
<1>1. GridInv
  BY DEF ScoringInit, GridInv, NoActivation
<1>2. RunInv
  <2>1. runs = <<>> /\ adjust = [a \in Adjusts |-> NoAdjust]
    BY DEF ScoringInit
  <2> QED BY <2>1 DEF RunInv
<1> QED BY <1>1, <1>2

LEMMA GridStep == ASSUME GridInv, [ScoringNext]_scoringVars PROVE GridInv'
<1> DEFINE Rows == [version : Versions \cup {None}, cleared : SUBSET Versions, stage : {"none", "waiting", "holding"}]
<1>1. ASSUME UNCHANGED <<grids, activation>> PROVE GridInv'
  BY <1>1 DEF GridInv
<1>2. ASSUME NEW a \in Admins, NEW v \in Versions, ClearActive(a, v) PROVE GridInv'
  BY <1>2 DEF GridInv, ClearActive
<1>3. ASSUME NEW a \in Admins, HoldLocks(a) PROVE GridInv'
  BY <1>3 DEF GridInv, HoldLocks
<1>4. ASSUME NEW a \in Admins, CommitActivation(a) PROVE GridInv'
  BY <1>4 DEF GridInv, CommitActivation, SetActive, NoActivation
<1>5. ASSUME NEW a \in Admins, AbortActivation(a) PROVE GridInv'
  BY <1>5 DEF GridInv, AbortActivation, NoActivation
<1>6. CASE GridNext
  BY <1>2, <1>3, <1>4, <1>5, <1>6 DEF GridNext, Activate
<1>7. CASE RunNext
  <2>1. UNCHANGED <<grids, activation>>
    BY <1>7 DEF RunNext, LoadGrid, StoreScore, FailScore, BuildScore, AdjustScores
  <2> QED BY <1>1, <2>1
<1>8. CASE MemoryNext /\ UNCHANGED <<grids, activation, scoring, adjust, runs>>
  BY <1>1, <1>8
<1>9. CASE UNCHANGED scoringVars
  BY <1>1, <1>9 DEF scoringVars
<1> QED BY <1>6, <1>7, <1>8, <1>9 DEF ScoringNext

LEMMA RunStep == ASSUME GridInv, RunInv, [ScoringNext]_scoringVars PROVE RunInv'
<1>1. ASSUME UNCHANGED <<runs, adjust>> PROVE RunInv'
  BY <1>1 DEF RunInv
<1>2. ASSUME NEW s \in Scorings, StoreScore(s) PROVE RunInv'
  <2>1. PICK kept \in Returned : \E run \in BuildConsensusScore(kept) : runs' = Append(runs, run)
    BY <1>2, Zenon DEF StoreScore
  <2>2. PICK run \in BuildConsensusScore(kept) : runs' = Append(runs, run)
    BY <2>1
  <2>3. run \in MachineRuns
    <3>1. PICK v \in ResolveGrid(None) : /\ Consensual(Grids[v], kept) /\ ValidAxes(Grids[v], Consensus(Grids[v], kept).axes)
                                         /\ run = MachineRun(v, kept)
      BY <2>2, Zenon DEF BuildConsensusScore, MachineRun
    <3>2. v \in Versions
      BY DEF ResolveGrid, GridInv
    <3>3. <<v, kept>> \in Agreed
      BY <2>1, <3>1, <3>2 DEF Agreed
    <3> QED BY <3>1, <3>3 DEF MachineRuns
  <2>4. adjust' = adjust
    BY <1>2, Zenon DEF StoreScore
  <2>5. runs' \in Seq(MachineRuns \cup HumanRuns)
    BY <2>2, <2>3 DEF RunInv
  <2> QED BY <2>4, <2>5 DEF RunInv
<1>3. ASSUME NEW a \in Adjusts, BuildScore(a) PROVE RunInv'
  <2>1. PICK axes \in HumanScores, version \in Versions \cup {None} : \E v \in ResolveGrid(version) :
            /\ ValidAxes(Grids[v], axes)
            /\ adjust' = [adjust EXCEPT ![a] = [run |-> HumanRun(v, axes), projections |-> Project(Grids[v], HumanRun(v, axes), memory)]]
    BY <1>3, Zenon DEF BuildScore, HumanRun
  <2>2. PICK v \in ResolveGrid(version) :
            /\ ValidAxes(Grids[v], axes)
            /\ adjust' = [adjust EXCEPT ![a] = [run |-> HumanRun(v, axes), projections |-> Project(Grids[v], HumanRun(v, axes), memory)]]
    BY <2>1
  <2>3. v \in Versions
    BY DEF ResolveGrid, GridInv
  <2>4. HumanRun(v, axes) \in HumanRuns
    <3>1. <<v, axes>> \in {y \in Versions \X HumanScores : ValidAxes(Grids[y[1]], y[2])}
      BY <2>1, <2>2, <2>3
    <3> QED BY <3>1 DEF HumanRuns
  <2>5. runs' = runs
    BY <1>3 DEF BuildScore
  <2> DEFINE run == HumanRun(v, axes)
             projections == Project(Grids[v], run, memory)
  <2>6. adjust' = [adjust EXCEPT ![a] = [run |-> run, projections |-> projections]] /\ run \in HumanRuns
    BY <2>2, <2>4
  <2> HIDE DEF run, projections
  <2> QED BY <2>5, <2>6 DEF RunInv
<1>4. ASSUME NEW a \in Adjusts, AdjustScores(a) PROVE RunInv'
  <2>1. adjust[a].run \in HumanRuns /\ runs' = Append(runs, adjust[a].run) /\ adjust' = [adjust EXCEPT ![a] = NoAdjust]
    BY <1>4 DEF AdjustScores, RunInv
  <2>2. runs' \in Seq(MachineRuns \cup HumanRuns)
    BY <2>1 DEF RunInv
  <2> QED BY <2>1, <2>2 DEF RunInv
<1>5. CASE GridNext
  <2>1. UNCHANGED <<runs, adjust>>
    BY <1>5 DEF GridNext, Activate, ClearActive, HoldLocks, CommitActivation, AbortActivation
  <2> QED BY <1>1, <2>1
<1>6. CASE RunNext
  <2>1. ASSUME NEW s \in Scorings, LoadGrid(s) \/ FailScore(s) PROVE RunInv'
    BY <1>1, <2>1 DEF LoadGrid, FailScore
  <2> QED BY <1>2, <1>3, <1>4, <1>6, <2>1 DEF RunNext
<1>7. CASE MemoryNext /\ UNCHANGED <<grids, activation, scoring, adjust, runs>>
  BY <1>1, <1>7
<1>8. CASE UNCHANGED scoringVars
  BY <1>1, <1>8 DEF scoringVars
<1> QED BY <1>5, <1>6, <1>7, <1>8 DEF ScoringNext

LEMMA RunsAreCorrect == ScoringSpec => [](GridInv /\ RunInv)
<1>1. GridInv /\ RunInv /\ [ScoringNext]_scoringVars => (GridInv /\ RunInv)'
  BY GridStep, RunStep
<1> QED BY ScoringStarts, <1>1, PTL DEF ScoringSpec

\* get_active never comes back empty, for any grids and any activations that overlap.
THEOREM AGridIsAlwaysActive == ScoringSpec => []SomeGridActive
<1>1. GridInv => SomeGridActive
  BY DEF GridInv, SomeGridActive
<1> QED BY RunsAreCorrect, <1>1, PTL

\* The consensus of the passes is robust, for any grids, any passes and any number of scorings,
\* corrections and switches of the grid.
THEOREM TheConsensusIsRobust == ScoringSpec => []ConsensusIsRobust
<1>1. RunInv => ConsensusIsRobust
  BY TrustHolds, OnePassHolds, AverageHolds, WorkHolds DEF ConsensusIsRobust
<1> QED BY RunsAreCorrect, <1>1, PTL
-----------------------------------------------------------------------------
(* The memory.                                                             *)

KnownIn(m, key) == key # None /\ \E x \in DOMAIN m : m[x].key = key
Contradiction(f) == NewItem(DIMENSION_BY_TYPE[f], "contradiction", f, None, FALSE)

\* What a memory is, at any time: its items are older than what replaces them, and what
\* MemoryIsConsistent says, when the items of twice are those that may be replaced twice.
OlderReplaced(m) == \A x \in DOMAIN m : m[x].supersedes # None => m[x].supersedes \in 1..(x - 1)
RightlyReplaced(m, twice) ==
    \A x, y \in DOMAIN m : m[x].supersedes # None =>
        /\ ~ m[m[x].supersedes].is_active
        /\ m[m[x].supersedes].dimension = m[x].dimension
        /\ m[y].supersedes = m[x].supersedes => x = y \/ m[x].supersedes \in twice
OnceEach(m) == \A x, y \in DOMAIN m : m[x].key # None /\ m[x].key = m[y].key => x = y
HiddenReplaced(m) == \A x \in DOMAIN m : ~ m[x].is_active => \E y \in DOMAIN m : m[y].supersedes = x
FoundContradictions(m) ==
    \A x \in DOMAIN m : m[x].item_type = "contradiction" =>
        m[x].key \in Findings /\ m[x].dimension = DIMENSION_BY_TYPE[m[x].key]
SoundMemory(m, twice) ==
    /\ m \in Seq(Item)
    /\ OlderReplaced(m) /\ RightlyReplaced(m, twice) /\ OnceEach(m) /\ HiddenReplaced(m) /\ FoundContradictions(m)

\* n is m with one more item, which hides the one that it replaces.
OneMore(m, n, new) ==
    /\ n \in Seq(Item) /\ Len(n) = Len(m) + 1 /\ n[Len(m) + 1] = new
    /\ \A x \in 1..Len(m) :
        /\ n[x].dimension = m[x].dimension /\ n[x].item_type = m[x].item_type
        /\ n[x].key = m[x].key /\ n[x].supersedes = m[x].supersedes
        /\ n[x].is_active <=> m[x].is_active /\ ~ (new.supersedes # None /\ x = new.supersedes)
\* An item that may be added.
MayJoin(m, new) ==
    /\ new.is_active
    /\ ~ KnownIn(m, new.key)
    /\ new.supersedes # None =>
        /\ new.supersedes \in 1..Len(m) /\ (m[new.supersedes].is_active \/ new.supersedes \in contested)
        /\ m[new.supersedes].dimension = new.dimension
    /\ new.item_type = "contradiction" => new.key \in Findings /\ new.dimension = DIMENSION_BY_TYPE[new.key]

LEMMA OneMoreIsSound ==
  ASSUME NEW m, SoundMemory(m, contested), NEW n, NEW new, OneMore(m, n, new), MayJoin(m, new)
  PROVE  SoundMemory(n, contested)
<1> DEFINE l == Len(m)
<1>1. l \in Nat /\ DOMAIN m = 1..l /\ DOMAIN n = 1..(l + 1) /\ 1..(l + 1) = (1..l) \cup {l + 1} /\ l + 1 \notin 1..l
  <2>1. m \in Seq(Item) /\ n \in Seq(Item) /\ Len(n) = l + 1
    BY DEF SoundMemory, OneMore
  <2>2. l \in Nat
    BY <2>1
  <2> QED BY <2>1, <2>2
<1>2. /\ n[l + 1] = new
      /\ \A x \in 1..l : /\ n[x].dimension = m[x].dimension /\ n[x].item_type = m[x].item_type
                         /\ n[x].key = m[x].key /\ n[x].supersedes = m[x].supersedes
                         /\ n[x].is_active <=> m[x].is_active /\ ~ (new.supersedes # None /\ x = new.supersedes)
  BY DEF OneMore
<1> HIDE DEF l
<1>3. OlderReplaced(n)
  <2>1. \A x \in 1..l : m[x].supersedes # None => m[x].supersedes \in 1..(x - 1)
    BY <1>1 DEF SoundMemory, OlderReplaced
  <2>2. new.supersedes # None => new.supersedes \in 1..((l + 1) - 1)
    <3>1. (l + 1) - 1 = l
      BY <1>1
    <3> QED BY <3>1 DEF MayJoin, l
  <2> QED BY <1>1, <1>2, <2>1, <2>2 DEF OlderReplaced
<1>4. \A x \in 1..l : m[x].supersedes # None => m[x].supersedes \in 1..l
  <2> SUFFICES ASSUME NEW x \in 1..l, m[x].supersedes # None PROVE m[x].supersedes \in 1..l
    OBVIOUS
  <2>1. m[x].supersedes \in 1..(x - 1)
    BY <1>1 DEF SoundMemory, OlderReplaced
  <2> QED BY <1>1, <2>1
<1>5. new.supersedes # None =>
            new.supersedes \in 1..l /\ (m[new.supersedes].is_active \/ new.supersedes \in contested) /\ m[new.supersedes].dimension = new.dimension
  BY DEF MayJoin, l
<1>6. \A x \in 1..l, y \in 1..l : m[x].supersedes # None =>
            /\ ~ m[m[x].supersedes].is_active
            /\ m[m[x].supersedes].dimension = m[x].dimension
            /\ m[y].supersedes = m[x].supersedes => x = y \/ m[x].supersedes \in contested
  BY <1>1 DEF SoundMemory, RightlyReplaced
<1>7. \A x \in 1..l : new.supersedes # None /\ m[x].supersedes = new.supersedes => new.supersedes \in contested
  BY <1>5, <1>6
<1>8. RightlyReplaced(n, contested)
  <2> SUFFICES ASSUME NEW x \in DOMAIN n, NEW y \in DOMAIN n, n[x].supersedes # None
               PROVE  /\ ~ n[n[x].supersedes].is_active
                      /\ n[n[x].supersedes].dimension = n[x].dimension
                      /\ n[y].supersedes = n[x].supersedes => x = y \/ n[x].supersedes \in contested
    BY Zenon DEF RightlyReplaced
  <2>1. CASE x \in 1..l
    <3>1. m[x].supersedes # None /\ n[x].supersedes = m[x].supersedes /\ m[x].supersedes \in 1..l
      BY <1>2, <1>4, <2>1
    <3>2. ~ n[n[x].supersedes].is_active /\ n[n[x].supersedes].dimension = n[x].dimension
      BY <1>2, <1>6, <2>1, <3>1
    <3>3. CASE y \in 1..l
      BY <1>2, <1>6, <2>1, <3>1, <3>2, <3>3
    <3>4. CASE y = l + 1
      <4>1. n[y].supersedes = n[x].supersedes => n[x].supersedes \in contested
        BY <1>2, <1>7, <2>1, <3>1, <3>4
      <4> QED BY <3>2, <4>1
    <3> QED BY <1>1, <3>3, <3>4
  <2>2. CASE x = l + 1
    <3>1. n[x] = new /\ new.supersedes # None /\ new.supersedes \in 1..l
      BY <1>2, <1>5, <2>2
    <3>2. ~ n[n[x].supersedes].is_active /\ n[n[x].supersedes].dimension = n[x].dimension
      BY <1>2, <1>5, <3>1
    <3>3. CASE y \in 1..l
      <4>1. n[y].supersedes = n[x].supersedes => n[x].supersedes \in contested
        BY <1>2, <1>7, <3>1, <3>3
      <4> QED BY <3>2, <4>1
    <3> QED BY <1>1, <2>2, <3>2, <3>3
  <2> QED BY <1>1, <2>1, <2>2
<1>9. OnceEach(n)
  <2>1. \A x \in 1..l, y \in 1..l : m[x].key # None /\ m[x].key = m[y].key => x = y
    BY <1>1 DEF SoundMemory, OnceEach
  <2>2. \A x \in 1..l : new.key # None => m[x].key # new.key
    BY <1>1 DEF MayJoin, KnownIn
  <2> QED BY <1>1, <1>2, <2>1, <2>2 DEF OnceEach
<1>10. HiddenReplaced(n)
  <2>1. \A x \in 1..l : ~ m[x].is_active => \E y \in 1..l : m[y].supersedes = x
    BY <1>1 DEF SoundMemory, HiddenReplaced
  <2> SUFFICES ASSUME NEW x \in DOMAIN n, ~ n[x].is_active PROVE \E y \in DOMAIN n : n[y].supersedes = x
    BY Zenon DEF HiddenReplaced
  <2>2. x \in 1..l
    <3>1. new.is_active
      BY DEF MayJoin
    <3> QED BY <1>1, <1>2, <3>1
  <2>3. CASE ~ m[x].is_active
    <3>1. PICK y \in 1..l : m[y].supersedes = x
      BY <2>1, <2>2, <2>3
    <3> QED BY <1>1, <1>2, <3>1
  <2>4. CASE new.supersedes # None /\ x = new.supersedes
    BY <1>1, <1>2, <2>4
  <2> QED BY <1>2, <2>2, <2>3, <2>4
<1>11. FoundContradictions(n)
  <2>1. \A x \in 1..l : m[x].item_type = "contradiction" => m[x].key \in Findings /\ m[x].dimension = DIMENSION_BY_TYPE[m[x].key]
    BY <1>1 DEF SoundMemory, FoundContradictions
  <2>2. new.item_type = "contradiction" => new.key \in Findings /\ new.dimension = DIMENSION_BY_TYPE[new.key]
    BY DEF MayJoin
  <2> QED BY <1>1, <1>2, <2>1, <2>2 DEF FoundContradictions
<1> QED BY <1>3, <1>8, <1>9, <1>10, <1>11 DEF SoundMemory, OneMore

\* The steps that add: a founder's item, with what it replaces, and a contradiction.
LEMMA ContradictionItem ==
  ASSUME NEW f \in Findings
  PROVE  LET c == Contradiction(f) IN
         /\ c \in Item /\ c.is_active /\ c.key = f /\ c.supersedes = None /\ f # None
         /\ c.item_type = "contradiction" /\ c.dimension = DIMENSION_BY_TYPE[f]
<1>1. DIMENSION_BY_TYPE[f] \in STRING /\ f # None
  BY MemoryAssumption
<1>2. DefaultState("contradiction") = "declared" /\ "declared" \in EvidenceState
  <2>1. 3 \in 1..5 /\ EVIDENCE_STRENGTH[3] = "declared"
    BY DEF EVIDENCE_STRENGTH
  <2> QED BY <2>1 DEF DefaultState, EvidenceState
<1>3. "contradiction" \in MemoryItemType
  BY DEF MemoryItemType
<1> QED BY <1>1, <1>2, <1>3 DEF Contradiction, NewItem, Item

LEMMA DeclarationItem ==
  ASSUME NEW d \in Dimensions, NEW key \in Declared \cup {None}, NEW old \in Nat \cup {None}, NEW expires \in BOOLEAN
  PROVE  LET c == NewItem(d, "declaration", key, old, expires) IN
         /\ c \in Item /\ c.is_active /\ c.key = key /\ c.supersedes = old /\ c.dimension = d
         /\ c.item_type # "contradiction"
<1>1. d \in STRING
  BY MemoryAssumption
<1>2. DefaultState("declaration") = "declared" /\ "declared" \in EvidenceState
  <2>1. 3 \in 1..5 /\ EVIDENCE_STRENGTH[3] = "declared"
    BY DEF EVIDENCE_STRENGTH
  <2> QED BY <2>1 DEF DefaultState, EvidenceState
<1>3. "declaration" \in MemoryItemType
  BY DEF MemoryItemType
<1> QED BY <1>1, <1>2, <1>3 DEF NewItem, Item

LEMMA AppendIsOneMore ==
  ASSUME NEW m \in Seq(Item), NEW new \in Item, new.supersedes = None
  PROVE  OneMore(m, Append(m, new), new)
<1>1. Append(m, new) \in Seq(Item) /\ Len(Append(m, new)) = Len(m) + 1 /\ Append(m, new)[Len(m) + 1] = new
  OBVIOUS
<1>2. \A x \in 1..Len(m) : Append(m, new)[x] = m[x]
  OBVIOUS
<1> QED BY <1>1, <1>2 DEF OneMore

\* persist_findings: the new items are contradictions, one for each finding that was not known.
Grown(m, n, found) ==
    /\ Len(m) <= Len(n)
    /\ \A x \in 1..Len(m) : n[x] = m[x]
    /\ \A x \in (Len(m) + 1)..Len(n) : \E f \in found : n[x] = Contradiction(f)

LEMMA FoundJoin ==
  ASSUME NEW m, SoundMemory(m, contested), NEW T \in SUBSET Findings, NEW f \in Findings \ T, NEW n, SoundMemory(n, contested), Grown(m, n, T),
         ~ KnownIn(m, f)
  PROVE  LET more == Append(n, Contradiction(f)) IN SoundMemory(more, contested) /\ Grown(m, more, T \cup {f})
<1> DEFINE c == Contradiction(f)
           more == Append(n, c)
<1>1. /\ c \in Item /\ c.is_active /\ c.key = f /\ c.supersedes = None /\ f # None
      /\ c.item_type = "contradiction" /\ c.dimension = DIMENSION_BY_TYPE[f]
  BY Zenon, ContradictionItem
<1>2. \A g \in T : Contradiction(g).key = g
  BY Zenon, ContradictionItem
<1> HIDE DEF c
<1>3. n \in Seq(Item) /\ m \in Seq(Item)
  BY DEF SoundMemory
<1>4. Len(n) \in Nat /\ Len(m) \in Nat /\ DOMAIN n = 1..Len(n) /\ DOMAIN m = 1..Len(m)
  BY <1>3
<1>5. OneMore(n, more, c)
  BY <1>1, <1>3, AppendIsOneMore
<1>6. /\ Len(m) <= Len(n) /\ \A x \in 1..Len(m) : n[x] = m[x]
      /\ \A x \in (Len(m) + 1)..Len(n) : \E g \in T : n[x] = Contradiction(g)
  BY DEF Grown
<1>7. ~ KnownIn(n, f)
  <2> SUFFICES ASSUME NEW x \in 1..Len(n), n[x].key = f PROVE FALSE
    BY <1>4 DEF KnownIn
  <2>1. CASE x \in 1..Len(m)
    <3>1. m[x].key = f
      BY <1>6, <2>1
    <3> QED BY <1>1, <1>4, <2>1, <3>1 DEF KnownIn
  <2>2. CASE x \in (Len(m) + 1)..Len(n)
    <3>1. PICK g \in T : n[x] = Contradiction(g)
      BY <1>6, <2>2
    <3> QED BY <1>2, <3>1
  <2> QED BY <1>4, <2>1, <2>2
<1>8. MayJoin(n, c)
  BY <1>1, <1>7 DEF MayJoin
<1>9. SoundMemory(more, contested)
  <2> HIDE DEF more
  <2> QED BY <1>5, <1>8, OneMoreIsSound
<1>10. /\ Len(more) = Len(n) + 1 /\ more[Len(n) + 1] = c /\ \A x \in 1..Len(n) : more[x] = n[x]
  BY <1>1, <1>3
<1> HIDE DEF more
<1>11. Grown(m, more, T \cup {f})
  <2>1. Len(m) <= Len(more)
    BY <1>4, <1>6, <1>10
  <2>2. \A x \in 1..Len(m) : more[x] = m[x]
    <3>1. 1..Len(m) \subseteq 1..Len(n)
      BY <1>4, <1>6
    <3> QED BY <1>6, <1>10, <3>1
  <2>3. ASSUME NEW x \in (Len(m) + 1)..Len(more) PROVE \E g \in T \cup {f} : more[x] = Contradiction(g)
    <3>1. CASE x = Len(n) + 1
      <4>1. more[x] = Contradiction(f)
        BY <1>10, <3>1 DEF c
      <4> QED BY <4>1
    <3>2. CASE x # Len(n) + 1
      <4>1. x \in (Len(m) + 1)..Len(n) /\ x \in 1..Len(n)
        BY <1>4, <1>6, <1>10, <3>2
      <4>2. PICK g \in T : n[x] = Contradiction(g)
        BY <1>6, <4>1
      <4> QED BY <1>10, <4>1, <4>2
    <3> QED BY <3>1, <3>2
  <2> QED BY <2>1, <2>2, <2>3 DEF Grown
<1> QED BY <1>9, <1>11 DEF more, c

\* The items, one finding after the other.
FoundOneByOne(h, new) ==
    h = [s \in SUBSET new |-> IF s = {} THEN memory ELSE Append(h[s \ {AnyOf(s)}], Contradiction(AnyOf(s)))]
NewOnes(found) == {f \in found : ~ Known(f)}

LEMMA PersistFolds ==
  ASSUME memory \in Seq(Item), NEW found \in SUBSET Findings
  PROVE  /\ IsFiniteSet(NewOnes(found)) /\ NewOnes(found) \in SUBSET Findings /\ NewOnes(found) \subseteq found
         /\ \E h : FoundOneByOne(h, NewOnes(found)) /\ PersistFindings(found) = h[NewOnes(found)]
<1> DEFINE new == {f \in found : ~ Known(f)}
           B == Seq(Item)
           F == [p \in new \X B |-> Append(p[2], Contradiction(p[1]))]
           h == CHOOSE g : g = [s \in SUBSET new |-> IF s = {} THEN memory ELSE Append(g[s \ {AnyOf(s)}], Contradiction(AnyOf(s)))]
<1>1. IsFiniteSet(new) /\ new \in SUBSET Findings /\ new \subseteq found
  BY MemoryAssumption, FS_Subset
<1>3. memory \in B
  OBVIOUS
<1>4. PersistFindings(found) = h[new]
  <2>1. PersistFindings(found) = LET iter[s \in SUBSET new] ==
                                      IF s = {} THEN memory ELSE Append(iter[s \ {AnyOf(s)}], Contradiction(AnyOf(s)))
                                IN  iter[new]
    BY Zenon DEF PersistFindings, FoldSet, MapThenFoldSet, AnyOf, Contradiction
  <2> QED BY <2>1
<1>5. F \in [new \X B -> B]
  <2> SUFFICES ASSUME NEW f \in new, NEW m \in B PROVE Append(m, Contradiction(f)) \in B
    OBVIOUS
  <2>1. Contradiction(f) \in Item
    BY <1>1, ContradictionItem
  <2> QED BY <2>1
<1> HIDE DEF new
<1>6. PICK g \in [SUBSET new -> B] : SetFoldedBy(g, new, memory, F)
  <2> HIDE DEF F, B
  <2> QED BY <1>1, <1>3, <1>5, SetFoldExists
<1>7. ASSUME NEW T \in SUBSET new, T # {} PROVE g[T] = Append(g[T \ {AnyOf(T)}], Contradiction(AnyOf(T)))
  <2>1. AnyOf(T) \in new /\ T \ {AnyOf(T)} \in SUBSET new
    BY <1>7, AnyOfIsIn
  <2>2. g[T] = F[<<AnyOf(T), g[T \ {AnyOf(T)}]>>]
    BY <1>6, <1>7 DEF SetFoldedBy
  <2>3. g[T \ {AnyOf(T)}] \in B
    BY <2>1
  <2> QED BY <2>1, <2>2, <2>3
<1>8. g[{}] = memory
  BY <1>6 DEF SetFoldedBy
<1>9. g = [s \in SUBSET new |-> IF s = {} THEN memory ELSE Append(g[s \ {AnyOf(s)}], Contradiction(AnyOf(s)))]
  BY <1>7, <1>8
<1>10. h = [s \in SUBSET new |-> IF s = {} THEN memory ELSE Append(h[s \ {AnyOf(s)}], Contradiction(AnyOf(s)))]
  BY <1>9
<1> HIDE DEF h
<1>11. FoundOneByOne(h, new) /\ PersistFindings(found) = h[new]
  BY <1>4, <1>10 DEF FoundOneByOne
<1> QED BY <1>1, <1>11 DEF NewOnes, new

LEMMA FindingsPersisted ==
  ASSUME SoundMemory(memory, contested), NEW found \in SUBSET Findings
  PROVE  SoundMemory(PersistFindings(found), contested) /\ Grown(memory, PersistFindings(found), found)
<1> DEFINE new == NewOnes(found)
<1>1. IsFiniteSet(new) /\ new \in SUBSET Findings /\ new \subseteq found /\ memory \in Seq(Item)
  BY PersistFolds DEF SoundMemory
<1>2. \A f \in new : ~ KnownIn(memory, f)
  BY DEF Known, KnownIn, Items, NewOnes
<1>3. PICK h : FoundOneByOne(h, new) /\ PersistFindings(found) = h[new]
  BY <1>1, PersistFolds
<1>4. PersistFindings(found) = h[new]
  BY <1>3
<1> HIDE DEF new
<1>10. h = [s \in SUBSET new |-> IF s = {} THEN memory ELSE Append(h[s \ {AnyOf(s)}], Contradiction(AnyOf(s)))]
  BY <1>3 DEF FoundOneByOne
<1> DEFINE G == {T \in SUBSET new : SoundMemory(h[T], contested) /\ Grown(memory, h[T], T)}
<1>11. {} \in G
  <2>1. h[{}] = memory
    BY <1>10
  <2>2. memory \in Seq(Item)
    BY DEF SoundMemory
  <2>3. Grown(memory, memory, {})
    <3>1. Len(memory) \in Nat
      BY <2>2
    <3>2. Len(memory) <= Len(memory) /\ (Len(memory) + 1)..Len(memory) = {}
      BY <3>1
    <3> QED BY <3>2 DEF Grown
  <2> QED BY <2>1, <2>3
<1>12. ASSUME NEW T \in SUBSET new, T # {}, T \ {AnyOf(T)} \in G PROVE T \in G
  <2> DEFINE f == AnyOf(T)
             R == T \ {f}
  <2>1. f \in T /\ f \in new /\ f \in Findings \ R /\ R \in SUBSET Findings /\ R \cup {f} = T /\ R \in SUBSET new
    BY <1>1, <1>12, AnyOfIsIn
  <2>2. SoundMemory(h[R], contested) /\ Grown(memory, h[R], R)
    BY <1>12
  <2>3. h[T] = Append(h[R], Contradiction(f))
    BY <1>10, <1>12
  <2>4. ~ KnownIn(memory, f)
    BY <1>2, <2>1
  <2> HIDE DEF f, R, G
  <2>5. SoundMemory(Append(h[R], Contradiction(f)), contested) /\ Grown(memory, Append(h[R], Contradiction(f)), R \cup {f})
    <3> DEFINE m == h[R]
    <3>1. SoundMemory(m, contested) /\ Grown(memory, m, R)
      BY <2>2
    <3> HIDE DEF m
    <3>2. SoundMemory(Append(m, Contradiction(f)), contested) /\ Grown(memory, Append(m, Contradiction(f)), R \cup {f})
      BY Zenon, <2>1, <2>4, <3>1, FoundJoin
    <3> QED BY <3>2 DEF m
  <2> QED BY <2>1, <2>3, <2>5 DEF G
<1> HIDE DEF G
<1>13. new \in G
  <2>1. new \in SUBSET new
    OBVIOUS
  <2> QED BY <1>1, <1>11, <1>12, <2>1, SetsHave
<1>14. SoundMemory(h[new], contested) /\ Grown(memory, h[new], new)
  BY <1>13 DEF G
<1>15. Grown(memory, h[new], found)
  BY <1>1, <1>14 DEF Grown
<1> QED BY <1>4, <1>14, <1>15

\* A call of add_memory holds an item that no other call can hide, unless both hold it.
MemInv ==
    /\ SoundMemory(memory, contested)
    /\ DOMAIN add = Adds
    /\ \A o \in Adds : Adding(o) =>
        /\ add[o].dimension \in Dimensions /\ add[o].key \in Declared \cup {None}
        /\ add[o].supersedes # None =>
            /\ add[o].supersedes \in 1..Len(memory)
            /\ memory[add[o].supersedes].is_active \/ add[o].supersedes \in contested
            /\ memory[add[o].supersedes].dimension = add[o].dimension
    /\ \A o, p \in Adds : Adding(o) /\ Adding(p) /\ add[o].supersedes # None /\ add[o].supersedes = add[p].supersedes =>
        o = p \/ add[o].supersedes \in contested

\* n shows no contradiction that m does not.
NoMoreContradictions(m, n) ==
    \A x \in DOMAIN n : n[x].item_type = "contradiction" /\ n[x].is_active =>
        x \in DOMAIN m /\ m[x].item_type = "contradiction" /\ m[x].is_active
            /\ m[x].key = n[x].key /\ m[x].dimension = n[x].dimension

LEMMA ItemUpdates ==
  ASSUME NEW item \in Item
  PROVE  /\ [item EXCEPT !.is_active = FALSE] \in Item
         /\ [item EXCEPT !.expired = TRUE] \in Item
BY DEF Item

LEMMA DeactivateIsOneMore ==
  ASSUME NEW m \in Seq(Item), NEW new \in Item, new.supersedes # None => new.supersedes \in 1..Len(m)
  PROVE  OneMore(m, Deactivate(Append(m, new), new.supersedes), new)
<1> DEFINE more == Append(m, new)
           s == new.supersedes
           n == [more EXCEPT ![s].is_active = FALSE]
<1>1. /\ more \in Seq(Item) /\ Len(more) = Len(m) + 1 /\ more[Len(m) + 1] = new /\ Len(m) \in Nat
      /\ \A x \in 1..Len(m) : more[x] = m[x] /\ m[x] \in Item
  OBVIOUS
<1> HIDE DEF more
<1>2. CASE s = None
  BY <1>1, <1>2 DEF OneMore, Deactivate, more
<1>3. CASE s # None
  <2>1. s \in 1..Len(m) /\ s \in 1..Len(more)
    BY <1>1, <1>3
  <2> DEFINE old == [more[s] EXCEPT !.is_active = FALSE]
  <2>2. /\ old \in Item /\ ~ old.is_active /\ old.dimension = m[s].dimension /\ old.item_type = m[s].item_type
        /\ old.key = m[s].key /\ old.supersedes = m[s].supersedes
    <3>1. more[s] = m[s] /\ m[s] \in Item
      BY <1>1, <2>1
    <3> QED BY <3>1, ItemUpdates DEF Item
  <2>3. n = [more EXCEPT ![s] = old]
    OBVIOUS
  <2> HIDE DEF old, n, s
  <2>4. n \in Seq(Item) /\ Len(n) = Len(m) + 1 /\ \A x \in 1..Len(more) : n[x] = IF x = s THEN old ELSE more[x]
    BY <1>1, <2>1, <2>2, <2>3
  <2>5. n[Len(m) + 1] = new
    BY <1>1, <2>1, <2>4
  <2>6. \A x \in 1..Len(m) : n[x] = IF x = s THEN old ELSE m[x]
    BY <1>1, <2>4
  <2>7. \A x \in 1..Len(m) :
            /\ n[x].dimension = m[x].dimension /\ n[x].item_type = m[x].item_type
            /\ n[x].key = m[x].key /\ n[x].supersedes = m[x].supersedes
            /\ n[x].is_active <=> m[x].is_active /\ ~ (s # None /\ x = s)
    BY <1>3, <2>1, <2>2, <2>6
  <2>8. OneMore(m, n, new)
    BY <2>4, <2>5, <2>7 DEF OneMore, s
  <2> QED BY <1>3, <2>8 DEF Deactivate, more, n, s
<1> QED BY <1>2, <1>3

\* The step of a founder.
LEMMA CommitAddStep ==
  ASSUME MemInv, NEW o \in Adds, CommitAdd(o)
  PROVE  MemInv' /\ NoMoreContradictions(memory, memory')
<1>1. /\ Adding(o) /\ add' = [add EXCEPT ![o] = NoAdd] /\ contested' = contested
      /\ add[o].dimension \in Dimensions /\ add[o].key \in Declared \cup {None}
      /\ add[o].supersedes # None =>
            /\ add[o].supersedes \in 1..Len(memory)
            /\ memory[add[o].supersedes].is_active \/ add[o].supersedes \in contested
            /\ memory[add[o].supersedes].dimension = add[o].dimension
  BY DEF MemInv, CommitAdd
<1>2. SoundMemory(memory, contested) /\ memory \in Seq(Item) /\ DOMAIN memory = 1..Len(memory)
  BY DEF MemInv, SoundMemory
<1>3. DOMAIN add' = Adds /\ ~ Adding(o)' /\ \A p \in Adds : p # o => add'[p] = add[p]
  BY <1>1 DEF MemInv, Adding
\* What the other calls hold stays active, or was contested when o was to replace it as well.
<1>4. ASSUME DOMAIN memory' = 1..Len(memory') /\ Len(memory) <= Len(memory') /\ Len(memory') \in Nat,
             \A x \in 1..Len(memory) :
                /\ memory'[x].dimension = memory[x].dimension
                /\ memory[x].is_active /\ ~ (add[o].supersedes # None /\ x = add[o].supersedes) => memory'[x].is_active,
             SoundMemory(memory', contested)
      PROVE  MemInv'
  <2>1. 1..Len(memory) \subseteq 1..Len(memory')
    BY <1>2, <1>4
  <2>2. ASSUME NEW p \in Adds, Adding(p)'
        PROVE  /\ p # o /\ Adding(p) /\ add'[p] = add[p]
               /\ add[p].dimension \in Dimensions /\ add[p].key \in Declared \cup {None}
               /\ add[p].supersedes # None =>
                    /\ add[p].supersedes \in 1..Len(memory')
                    /\ memory'[add[p].supersedes].is_active \/ add[p].supersedes \in contested
                    /\ memory'[add[p].supersedes].dimension = add[p].dimension
    <3>1. p # o /\ Adding(p) /\ add'[p] = add[p]
      BY <1>3, <2>2 DEF Adding
    <3>2. /\ add[p].dimension \in Dimensions /\ add[p].key \in Declared \cup {None}
          /\ add[p].supersedes # None =>
                /\ add[p].supersedes \in 1..Len(memory)
                /\ memory[add[p].supersedes].is_active \/ add[p].supersedes \in contested
                /\ memory[add[p].supersedes].dimension = add[p].dimension
      BY <3>1 DEF MemInv
    <3>3. add[p].supersedes # None /\ add[p].supersedes = add[o].supersedes => add[p].supersedes \in contested
      BY <1>1, <3>1 DEF MemInv
    <3> QED BY <1>4, <2>1, <3>1, <3>2, <3>3
  <2>3. ASSUME NEW p \in Adds, NEW q \in Adds, Adding(p)', Adding(q)', add'[p].supersedes # None,
               add'[p].supersedes = add'[q].supersedes
        PROVE  p = q \/ add'[p].supersedes \in contested'
    <3>1. Adding(p) /\ Adding(q) /\ add'[p] = add[p] /\ add'[q] = add[q]
      BY <2>2, <2>3
    <3> QED BY <1>1, <2>3, <3>1 DEF MemInv
  <2>4. SoundMemory(memory', contested') /\ DOMAIN add' = Adds
    BY <1>1, <1>3, <1>4
  <2> QED BY <1>1, <2>2, <2>3, <2>4 DEF MemInv
<1>5. CASE UNCHANGED memory
  <2>1. SoundMemory(memory', contested)
    BY <1>2, <1>5
  <2>2. MemInv'
    BY <1>2, <1>5, <1>4, <2>1
  <2> QED BY <1>5, <2>2 DEF NoMoreContradictions
<1>6. ASSUME ~ Known(add[o].key),
             NEW expires \in BOOLEAN, memory' = Deactivate(Append(memory,
                NewItem(add[o].dimension, "declaration", add[o].key, add[o].supersedes, expires)), add[o].supersedes)
      PROVE  MemInv' /\ NoMoreContradictions(memory, memory')
  <2> DEFINE new == NewItem(add[o].dimension, "declaration", add[o].key, add[o].supersedes, expires)
  <2>1. /\ new \in Item /\ new.is_active /\ new.key = add[o].key /\ new.supersedes = add[o].supersedes
        /\ new.dimension = add[o].dimension /\ new.item_type # "contradiction"
    <3>1. add[o].supersedes \in Nat \cup {None}
      BY <1>1
    <3> DEFINE d == add[o].dimension
               key == add[o].key
               old == add[o].supersedes
    <3>2. d \in Dimensions /\ key \in Declared \cup {None} /\ old \in Nat \cup {None} /\ expires \in BOOLEAN
      BY <1>1, <3>1
    <3>3. new = NewItem(d, "declaration", key, old, expires)
      OBVIOUS
    <3> HIDE DEF d, key, old, new
    <3>4. LET c == NewItem(d, "declaration", key, old, expires) IN
            /\ c \in Item /\ c.is_active /\ c.key = key /\ c.supersedes = old /\ c.dimension = d
            /\ c.item_type # "contradiction"
      BY <3>2, DeclarationItem
    <3>5. /\ new \in Item /\ new.is_active /\ new.key = key /\ new.supersedes = old /\ new.dimension = d
          /\ new.item_type # "contradiction"
      BY Zenon, <3>3, <3>4
    <3> QED BY <3>5 DEF d, key, old
  <2>2. memory' = Deactivate(Append(memory, new), new.supersedes)
    BY <1>6, <2>1
  <2> HIDE DEF new
  <2>3. OneMore(memory, memory', new)
    BY <1>1, <1>2, <2>1, <2>2, DeactivateIsOneMore
  <2>4. MayJoin(memory, new)
    BY <1>1, <1>6, <2>1 DEF MayJoin, Known, KnownIn, Items
  <2> DEFINE m == memory
             n == memory'
  <2>5. SoundMemory(m, contested) /\ OneMore(m, n, new) /\ MayJoin(m, new)
    BY <1>2, <2>3, <2>4
  <2> HIDE DEF m, n
  <2>6. SoundMemory(n, contested)
    BY <2>5, OneMoreIsSound
  <2>7. NoMoreContradictions(m, n)
    <3>1. /\ DOMAIN m = 1..Len(m) /\ DOMAIN n = 1..(Len(m) + 1) /\ n[Len(m) + 1] = new
          /\ \A x \in 1..Len(m) :
                /\ n[x].dimension = m[x].dimension /\ n[x].item_type = m[x].item_type
                /\ n[x].key = m[x].key
                /\ (n[x].is_active => m[x].is_active)
      BY <1>2, <2>5 DEF OneMore, m
    <3>2. Len(m) \in Nat
      BY <1>2 DEF m
    <3>3. 1..(Len(m) + 1) = (1..Len(m)) \cup {Len(m) + 1}
      BY <3>2
    <3> QED BY <2>1, <3>1, <3>3 DEF NoMoreContradictions
  <2>8. SoundMemory(memory', contested) /\ NoMoreContradictions(memory, memory')
    BY <2>6, <2>7 DEF m, n
  <2>9. DOMAIN memory' = 1..Len(memory') /\ Len(memory') = Len(memory) + 1 /\ Len(memory) \in Nat
    BY <1>2, <2>3 DEF OneMore
  <2>10. \A x \in 1..Len(memory) :
            /\ memory'[x].dimension = memory[x].dimension
            /\ memory[x].is_active /\ ~ (add[o].supersedes # None /\ x = add[o].supersedes) => memory'[x].is_active
    BY <2>1, <2>3 DEF OneMore
  <2>11. MemInv'
    BY <1>4, <2>8, <2>9, <2>10
  <2> QED BY <2>8, <2>11
<1> QED BY <1>5, <1>6 DEF CommitAdd

\* More items may be replaced twice.
LEMMA MoreMayBe ==
  ASSUME NEW m, NEW twice, SoundMemory(m, twice), NEW more, twice \subseteq more
  PROVE  SoundMemory(m, more)
<1>1. RightlyReplaced(m, more)
  BY DEF SoundMemory, RightlyReplaced
<1> QED BY <1>1 DEF SoundMemory

LEMMA OpenAddStep ==
  ASSUME MemInv, NEW o \in Adds, OpenAdd(o)
  PROVE  MemInv'
<1>1. PICK d \in Dimensions, key \in Declared \cup {None}, old \in Items \cup {None} :
            /\ old # None => Supersedable(old, d)
            /\ add' = [add EXCEPT ![o] = [dimension |-> d, key |-> key, supersedes |-> old]]
            /\ contested' = contested \cup {x \in {old} \ {None} : \E p \in Adds : add[p].supersedes = x}
  BY DEF OpenAdd
<1>2. memory' = memory /\ ~ Adding(o) /\ Items = 1..Len(memory)
  BY DEF OpenAdd, MemInv, SoundMemory, Items
<1>3. contested \subseteq contested' /\ \A p \in Adds : old # None /\ add[p].supersedes = old => old \in contested'
  BY <1>1
<1>4. /\ DOMAIN add' = Adds /\ \A p \in Adds : p # o => add'[p] = add[p]
      /\ add'[o].dimension = d /\ add'[o].key = key /\ add'[o].supersedes = old
  BY <1>1 DEF MemInv
<1>5. SoundMemory(memory', contested')
  <2>1. SoundMemory(memory, contested)
    BY DEF MemInv
  <2>2. ASSUME NEW m, SoundMemory(m, contested) PROVE SoundMemory(m, contested')
    <3> DEFINE some == contested
               more == contested'
    <3>1. SoundMemory(m, some) /\ some \subseteq more
      BY <1>3, <2>2
    <3> HIDE DEF some, more
    <3>2. SoundMemory(m, more)
      BY <3>1, MoreMayBe
    <3> QED BY <3>2 DEF more
  <2>3. SoundMemory(memory, contested')
    BY <2>1, <2>2
  <2> QED BY <1>2, <2>3
<1>6. ASSUME NEW p \in Adds, Adding(p)'
      PROVE  /\ add'[p].dimension \in Dimensions /\ add'[p].key \in Declared \cup {None}
             /\ add'[p].supersedes # None =>
                  /\ add'[p].supersedes \in 1..Len(memory)
                  /\ memory[add'[p].supersedes].is_active \/ add'[p].supersedes \in contested'
                  /\ memory[add'[p].supersedes].dimension = add'[p].dimension
  <2>1. CASE p = o
    BY <1>1, <1>2, <1>4, <2>1 DEF Supersedable, Active
  <2>2. CASE p # o
    <3>1. add'[p] = add[p] /\ Adding(p)
      BY <1>4, <1>6, <2>2 DEF Adding
    <3> QED BY <1>3, <3>1 DEF MemInv
  <2> QED BY <2>1, <2>2
<1>7. ASSUME NEW p \in Adds, NEW q \in Adds, Adding(p)', Adding(q)', add'[p].supersedes # None,
             add'[p].supersedes = add'[q].supersedes
      PROVE  p = q \/ add'[p].supersedes \in contested'
  <2>1. CASE p # o /\ q # o
    <3>1. Adding(p) /\ Adding(q) /\ add'[p] = add[p] /\ add'[q] = add[q]
      BY <1>4, <1>7, <2>1 DEF Adding
    <3> QED BY <1>3, <1>7, <3>1 DEF MemInv
  <2>2. CASE p = o /\ q # o
    BY <1>3, <1>4, <1>7, <2>2
  <2>3. CASE p # o /\ q = o
    BY <1>3, <1>4, <1>7, <2>3
  <2> QED BY <2>1, <2>2, <2>3
<1> QED BY <1>2, <1>4, <1>5, <1>6, <1>7 DEF MemInv

LEMMA ExpireStep ==
  ASSUME MemInv, NEW x \in 1..MaxItems, Expire(x)
  PROVE  MemInv' /\ NoMoreContradictions(memory, memory')
<1> DEFINE m == memory
           n == memory'
           old == [m[x] EXCEPT !.expired = TRUE]
<1>1. m \in Seq(Item) /\ x \in 1..Len(m) /\ n = [m EXCEPT ![x] = old] /\ add' = add /\ contested' = contested /\ Len(m) \in Nat /\ SoundMemory(m, contested)
  <2>1. memory \in Seq(Item) /\ SoundMemory(memory, contested) /\ x \in DOMAIN memory /\ add' = add /\ contested' = contested
        /\ memory' = [memory EXCEPT ![x].expired = TRUE]
    BY DEF MemInv, SoundMemory, Expire, Items
  <2> QED BY <2>1
<1>2. m[x] \in Item
  BY <1>1
<1>3. /\ old \in Item /\ old.dimension = m[x].dimension /\ old.item_type = m[x].item_type
      /\ old.key = m[x].key /\ old.supersedes = m[x].supersedes /\ old.is_active = m[x].is_active
  BY <1>2, ItemUpdates DEF Item
<1> HIDE DEF old, n, m
<1>4. n \in Seq(Item) /\ DOMAIN n = DOMAIN m /\ DOMAIN m = 1..Len(m) /\ Len(n) = Len(m) /\ \A y \in 1..Len(m) : n[y] = IF y = x THEN old ELSE m[y]
  BY <1>1, <1>3
<1>5. \A y \in DOMAIN m :
            /\ n[y].dimension = m[y].dimension /\ n[y].item_type = m[y].item_type
            /\ n[y].key = m[y].key /\ n[y].supersedes = m[y].supersedes /\ n[y].is_active = m[y].is_active
  BY <1>3, <1>4
<1>6. NoMoreContradictions(m, n)
  BY <1>4, <1>5 DEF NoMoreContradictions
<1>7. \A y \in DOMAIN m : m[y].supersedes # None => m[y].supersedes \in DOMAIN m
  <2> SUFFICES ASSUME NEW y \in DOMAIN m, m[y].supersedes # None PROVE m[y].supersedes \in DOMAIN m
    OBVIOUS
  <2>1. m[y].supersedes \in 1..(y - 1)
    BY <1>1 DEF SoundMemory, OlderReplaced
  <2> QED BY <1>1, <1>4, <2>1
<1>8. SoundMemory(n, contested)
  <2>1. OlderReplaced(n) /\ OnceEach(n) /\ FoundContradictions(n)
    BY <1>1, <1>4, <1>5 DEF SoundMemory, OlderReplaced, OnceEach, FoundContradictions
  <2>2. HiddenReplaced(n)
    BY <1>1, <1>4, <1>5 DEF SoundMemory, HiddenReplaced
  <2>3. RightlyReplaced(n, contested)
    BY <1>1, <1>4, <1>5, <1>7 DEF SoundMemory, RightlyReplaced
  <2> QED BY <1>4, <2>1, <2>2, <2>3 DEF SoundMemory
<1>9. \A y \in 1..Len(m) : (m[y].is_active => n[y].is_active) /\ n[y].dimension = m[y].dimension
  BY <1>4, <1>5
<1>10. MemInv'
  <2>1. SoundMemory(memory', contested) /\ Len(memory') = Len(memory)
    BY <1>4, <1>8 DEF m, n
  <2>2. \A y \in 1..Len(memory) : (memory[y].is_active => memory'[y].is_active) /\ memory'[y].dimension = memory[y].dimension
    BY <1>9 DEF m, n
  <2> QED BY <1>1, <2>1, <2>2 DEF MemInv, Adding
<1> QED BY <1>6, <1>10 DEF m, n

LEMMA FindingsStep ==
  ASSUME MemInv, NEW found \in SUBSET Findings, memory' = PersistFindings(found), UNCHANGED <<add, contested>>
  PROVE  MemInv'
<1>1. SoundMemory(memory', contested) /\ Grown(memory, memory', found)
  <2>1. SoundMemory(memory, contested)
    BY DEF MemInv
  <2> QED BY <2>1, FindingsPersisted
<1>2. Len(memory) \in Nat /\ Len(memory') \in Nat
  BY <1>1 DEF MemInv, SoundMemory
<1>3. Len(memory) <= Len(memory') /\ \A x \in 1..Len(memory) : memory'[x] = memory[x]
  BY <1>1 DEF Grown
<1>4. 1..Len(memory) \subseteq 1..Len(memory')
  BY <1>2, <1>3
<1> QED BY <1>1, <1>3, <1>4 DEF MemInv, Adding

LEMMA MemStep == ASSUME MemInv, [ScoringNext]_scoringVars PROVE MemInv'
<1>1. ASSUME UNCHANGED <<memory, add, contested>> PROVE MemInv'
  <2>1. SoundMemory(memory', contested')
    BY <1>1 DEF MemInv
  <2> QED BY <1>1, <2>1 DEF MemInv, Adding
<1>2. CASE GridNext
  <2>1. UNCHANGED <<memory, add, contested>>
    BY <1>2 DEF GridNext, Activate, ClearActive, HoldLocks, CommitActivation, AbortActivation, memoryVars
  <2> QED BY <1>1, <2>1
<1>3. CASE RunNext
  <2>1. ASSUME NEW s \in Scorings, StoreScore(s) PROVE MemInv'
    <3>1. PICK found \in SUBSET Findings : memory' = PersistFindings(found)
      BY <2>1, Zenon DEF StoreScore
    <3>2. UNCHANGED <<add, contested>>
      BY <2>1, Zenon DEF StoreScore
    <3> QED BY <3>1, <3>2, FindingsStep
  <2>2. ASSUME NEW s \in Scorings, LoadGrid(s) \/ FailScore(s) PROVE MemInv'
    BY <1>1, <2>2 DEF LoadGrid, FailScore, memoryVars
  <2>3. ASSUME NEW a \in Adjusts, BuildScore(a) \/ AdjustScores(a) PROVE MemInv'
    <3>1. UNCHANGED <<memory, add, contested>>
      BY <2>3, Zenon DEF BuildScore, AdjustScores, memoryVars
    <3> QED BY <1>1, <3>1
  <2> QED BY <1>3, <2>1, <2>2, <2>3 DEF RunNext
<1>4. CASE MemoryNext
  BY <1>4, OpenAddStep, CommitAddStep, ExpireStep DEF MemoryNext
<1>5. CASE UNCHANGED scoringVars
  BY <1>1, <1>5 DEF scoringVars, memoryVars
<1> QED BY <1>2, <1>3, <1>4, <1>5 DEF ScoringNext

LEMMA MemConsistent == MemInv => MemoryIsConsistent
<1> SUFFICES ASSUME MemInv PROVE MemoryIsConsistent
  OBVIOUS
<1>1. RightlyReplaced(memory, contested) /\ OnceEach(memory) /\ HiddenReplaced(memory)
  BY DEF MemInv, SoundMemory
<1>2. ReplacedOnce
  BY <1>1 DEF ReplacedOnce, RightlyReplaced, Items, Active
<1>3. NothingPilesUp
  BY <1>1 DEF NothingPilesUp, OnceEach, Items
<1>4. OnlyReplacedIsHidden
  BY <1>1 DEF OnlyReplacedIsHidden, HiddenReplaced, Items, Active
<1> QED BY <1>2, <1>3, <1>4 DEF MemoryIsConsistent

LEMMA MemStarts == ScoringInit => MemInv
<1> SUFFICES ASSUME ScoringInit PROVE MemInv
  OBVIOUS
<1>1. memory = <<>> /\ add = [o \in Adds |-> NoAdd] /\ contested = {}
  BY DEF ScoringInit, MemoryInit
<1>2. SoundMemory(<<>>, contested)
  BY DEF SoundMemory, OlderReplaced, RightlyReplaced, OnceEach, HiddenReplaced, FoundContradictions
<1> QED BY <1>1, <1>2 DEF MemInv, Adding

\* What holds of the items whatever the founder's calls do at the same time.
TypedMemory(m) == m \in Seq(Item) /\ OlderReplaced(m)
MemTypeInv ==
    /\ TypedMemory(memory)
    /\ DOMAIN add = Adds
    /\ \A o \in Adds : Adding(o) =>
        /\ add[o].dimension \in Dimensions /\ add[o].key \in Declared \cup {None}
        /\ add[o].supersedes # None => add[o].supersedes \in 1..Len(memory)
    /\ contested \subseteq 1..Len(memory)

LEMMA OneMoreIsTyped ==
  ASSUME NEW m, TypedMemory(m), NEW n, NEW new, OneMore(m, n, new), new.supersedes # None => new.supersedes \in 1..Len(m)
  PROVE  TypedMemory(n) /\ Len(n) = Len(m) + 1 /\ Len(m) \in Nat
<1> DEFINE l == Len(m)
<1>1. m \in Seq(Item) /\ n \in Seq(Item) /\ Len(n) = l + 1
  BY DEF TypedMemory, OneMore
<1>2. l \in Nat
  BY <1>1
<1>3. DOMAIN m = 1..l /\ DOMAIN n = 1..(l + 1) /\ 1..(l + 1) = (1..l) \cup {l + 1} /\ (l + 1) - 1 = l
  BY <1>1, <1>2
<1>4. n[l + 1] = new /\ \A x \in 1..l : n[x].supersedes = m[x].supersedes
  BY DEF OneMore
<1>5. new.supersedes # None => new.supersedes \in 1..l
  OBVIOUS
<1>6. \A x \in 1..l : m[x].supersedes # None => m[x].supersedes \in 1..(x - 1)
  BY <1>3 DEF TypedMemory, OlderReplaced
<1> HIDE DEF l
<1>7. OlderReplaced(n)
  <2> SUFFICES ASSUME NEW x \in DOMAIN n, n[x].supersedes # None PROVE n[x].supersedes \in 1..(x - 1)
    BY DEF OlderReplaced
  <2>1. CASE x \in 1..l
    BY <1>4, <1>6, <2>1
  <2>2. CASE x = l + 1
    BY <1>3, <1>4, <1>5, <2>2
  <2> QED BY <1>3, <2>1, <2>2
<1>8. TypedMemory(n)
  BY <1>1, <1>7 DEF TypedMemory
<1> QED BY <1>1, <1>2, <1>8 DEF l

LEMMA FindingsAreItems ==
  ASSUME TypedMemory(memory), NEW found \in SUBSET Findings
  PROVE  TypedMemory(PersistFindings(found)) /\ Len(memory) <= Len(PersistFindings(found))
<1> DEFINE new == NewOnes(found)
<1>1. IsFiniteSet(new) /\ new \in SUBSET Findings /\ memory \in Seq(Item)
  BY PersistFolds DEF TypedMemory
<1>2. PICK h : FoundOneByOne(h, new) /\ PersistFindings(found) = h[new]
  BY <1>1, PersistFolds
<1> HIDE DEF new
<1>3. h = [s \in SUBSET new |-> IF s = {} THEN memory ELSE Append(h[s \ {AnyOf(s)}], Contradiction(AnyOf(s)))]
  BY <1>2 DEF FoundOneByOne
<1> DEFINE G == {T \in SUBSET new : TypedMemory(h[T]) /\ Len(memory) <= Len(h[T])}
<1>4. {} \in G
  <2>1. h[{}] = memory
    BY <1>3
  <2>2. Len(memory) <= Len(memory)
    BY <1>1
  <2> QED BY <2>1, <2>2
<1>5. ASSUME NEW T \in SUBSET new, T # {}, T \ {AnyOf(T)} \in G PROVE T \in G
  <2> DEFINE c == Contradiction(AnyOf(T))
             m == h[T \ {AnyOf(T)}]
  <2>1. AnyOf(T) \in Findings
    BY <1>1, <1>5, AnyOfIsIn
  <2>2. c \in Item /\ c.supersedes = None
    BY Zenon, <2>1, ContradictionItem
  <2>3. TypedMemory(m) /\ Len(memory) <= Len(m) /\ h[T] = Append(m, c)
    BY <1>3, <1>5
  <2> HIDE DEF c, m, G
  <2>4. OneMore(m, Append(m, c), c)
    BY <2>2, <2>3, AppendIsOneMore DEF TypedMemory
  <2>5. TypedMemory(Append(m, c)) /\ Len(Append(m, c)) = Len(m) + 1 /\ Len(m) \in Nat
    BY <2>2, <2>3, <2>4, OneMoreIsTyped
  <2>6. Len(memory) \in Nat
    BY <1>1
  <2>7. Len(memory) <= Len(Append(m, c))
    BY <2>3, <2>5, <2>6
  <2> QED BY <2>3, <2>5, <2>7 DEF G
<1> HIDE DEF G
<1>6. new \in G
  <2>1. new \in SUBSET new
    OBVIOUS
  <2> QED BY <1>1, <1>4, <1>5, <2>1, SetsHave
<1> QED BY <1>2, <1>6 DEF G

\* What the items become, and what the other calls hold.
LEMMA ItemsKept ==
  ASSUME MemTypeInv, TypedMemory(memory)', Len(memory) <= Len(memory'), DOMAIN add' = Adds,
         contested' = contested, \A o \in Adds : add'[o] \in {add[o], NoAdd}
  PROVE  MemTypeInv'
<1>1. Len(memory) \in Nat /\ Len(memory') \in Nat
  BY DEF MemTypeInv, TypedMemory
<1>2. 1..Len(memory) \subseteq 1..Len(memory')
  BY <1>1
<1> QED BY <1>2 DEF MemTypeInv, Adding

LEMMA CommitAddTypes == ASSUME MemTypeInv, NEW o \in Adds, CommitAdd(o) PROVE MemTypeInv'
<1>1. /\ Adding(o) /\ add' = [add EXCEPT ![o] = NoAdd]
      /\ add[o].dimension \in Dimensions /\ add[o].key \in Declared \cup {None}
      /\ add[o].supersedes # None => add[o].supersedes \in 1..Len(memory)
  BY DEF MemTypeInv, CommitAdd
<1>2. TypedMemory(memory) /\ memory \in Seq(Item) /\ Len(memory) \in Nat
  BY DEF MemTypeInv, TypedMemory
<1>3. DOMAIN add' = Adds /\ (\A p \in Adds : add'[p] \in {add[p], NoAdd}) /\ contested' = contested
  BY <1>1 DEF MemTypeInv, CommitAdd
<1>4. CASE UNCHANGED memory
  <2>1. TypedMemory(memory') /\ Len(memory) <= Len(memory')
    BY <1>2, <1>4
  <2> QED BY <1>3, <2>1, ItemsKept
<1>5. ASSUME NEW expires \in BOOLEAN, memory' = Deactivate(Append(memory,
                NewItem(add[o].dimension, "declaration", add[o].key, add[o].supersedes, expires)), add[o].supersedes)
      PROVE  MemTypeInv'
  <2> DEFINE d == add[o].dimension
             key == add[o].key
             old == add[o].supersedes
             new == NewItem(d, "declaration", key, old, expires)
  <2>1. old \in Nat \cup {None} /\ d \in Dimensions /\ key \in Declared \cup {None}
    BY <1>1
  <2>2. (old # None => old \in 1..Len(memory)) /\ memory' = Deactivate(Append(memory, new), old)
    BY <1>1, <1>5
  <2> HIDE DEF d, key, old
  <2>3. new \in Item /\ new.supersedes = old
    <3>1. expires \in BOOLEAN
      BY <1>5
    <3>2. LET c == NewItem(d, "declaration", key, old, expires) IN
            /\ c \in Item /\ c.is_active /\ c.key = key /\ c.supersedes = old /\ c.dimension = d
            /\ c.item_type # "contradiction"
      BY <2>1, <3>1, DeclarationItem
    <3> QED BY Zenon, <3>2
  <2> HIDE DEF new
  <2>4. OneMore(memory, Deactivate(Append(memory, new), new.supersedes), new)
    BY <1>2, <2>2, <2>3, DeactivateIsOneMore
  <2> DEFINE m == memory
             n == memory'
  <2>5. TypedMemory(m) /\ OneMore(m, n, new) /\ (new.supersedes # None => new.supersedes \in 1..Len(m))
    BY <1>2, <2>2, <2>3, <2>4
  <2> HIDE DEF m, n
  <2>6. TypedMemory(n) /\ Len(n) = Len(m) + 1
    BY <2>5, OneMoreIsTyped
  <2>7. TypedMemory(memory') /\ Len(memory) <= Len(memory')
    BY <1>2, <2>6 DEF m, n
  <2> QED BY <1>3, <2>7, ItemsKept
<1> QED BY <1>4, <1>5 DEF CommitAdd

LEMMA ExpireTypes == ASSUME MemTypeInv, NEW x \in 1..MaxItems, Expire(x) PROVE MemTypeInv'
<1> DEFINE m == memory
           n == memory'
           old == [m[x] EXCEPT !.expired = TRUE]
<1>1. m \in Seq(Item) /\ x \in 1..Len(m) /\ n = [m EXCEPT ![x] = old] /\ add' = add /\ contested' = contested /\ Len(m) \in Nat /\ OlderReplaced(m)
  <2>1. memory \in Seq(Item) /\ OlderReplaced(memory) /\ x \in DOMAIN memory /\ add' = add /\ contested' = contested
        /\ memory' = [memory EXCEPT ![x].expired = TRUE]
    BY DEF MemTypeInv, TypedMemory, Expire, Items
  <2> QED BY <2>1
<1>2. m[x] \in Item
  BY <1>1
<1>3. old \in Item /\ old.supersedes = m[x].supersedes
  BY <1>2, ItemUpdates DEF Item
<1> HIDE DEF old, n, m
<1>4. n \in Seq(Item) /\ DOMAIN n = DOMAIN m /\ DOMAIN m = 1..Len(m) /\ Len(n) = Len(m) /\ \A y \in 1..Len(m) : n[y] = IF y = x THEN old ELSE m[y]
  BY <1>1, <1>3
<1>5. \A y \in DOMAIN m : n[y].supersedes = m[y].supersedes
  BY <1>3, <1>4
<1>6. TypedMemory(n)
  BY <1>1, <1>4, <1>5 DEF TypedMemory, OlderReplaced
<1>7. TypedMemory(memory') /\ Len(memory) <= Len(memory')
  <2>1. Len(m) <= Len(n)
    BY <1>1, <1>4
  <2> QED BY <1>6, <2>1 DEF m, n
<1>8. DOMAIN add' = Adds /\ (\A o \in Adds : add'[o] \in {add[o], NoAdd}) /\ contested' = contested
  BY <1>1 DEF MemTypeInv
<1> QED BY <1>7, <1>8, ItemsKept

LEMMA OpenAddTypes == ASSUME MemTypeInv, NEW o \in Adds, OpenAdd(o) PROVE MemTypeInv'
<1>1. PICK d \in Dimensions, key \in Declared \cup {None}, old \in Items \cup {None} :
            /\ add' = [add EXCEPT ![o] = [dimension |-> d, key |-> key, supersedes |-> old]]
            /\ contested' = contested \cup {x \in {old} \ {None} : \E p \in Adds : add[p].supersedes = x}
  BY DEF OpenAdd
<1>2. memory' = memory /\ Items = 1..Len(memory)
  BY DEF OpenAdd, MemTypeInv, TypedMemory, Items
<1>3. DOMAIN add' = Adds /\ \A p \in Adds : p # o => add'[p] = add[p]
  BY <1>1 DEF MemTypeInv
<1>4. add'[o].dimension = d /\ add'[o].key = key /\ add'[o].supersedes = old
  BY <1>1 DEF MemTypeInv
<1>5. TypedMemory(memory')
  BY <1>2 DEF MemTypeInv
<1>6. contested' \subseteq 1..Len(memory')
  BY <1>1, <1>2 DEF MemTypeInv
<1> QED BY <1>2, <1>3, <1>4, <1>5, <1>6 DEF MemTypeInv, Adding

LEMMA MemTypeStep == ASSUME MemTypeInv, [ScoringNext]_scoringVars PROVE MemTypeInv'
<1>1. ASSUME UNCHANGED <<memory, add, contested>> PROVE MemTypeInv'
  <2>1. TypedMemory(memory')
    BY <1>1 DEF MemTypeInv
  <2> QED BY <1>1, <2>1 DEF MemTypeInv, Adding
<1>2. CASE GridNext
  <2>1. UNCHANGED <<memory, add, contested>>
    BY <1>2 DEF GridNext, Activate, ClearActive, HoldLocks, CommitActivation, AbortActivation, memoryVars
  <2> QED BY <1>1, <2>1
<1>3. CASE RunNext
  <2>1. ASSUME NEW s \in Scorings, StoreScore(s) PROVE MemTypeInv'
    <3>1. PICK found \in SUBSET Findings : memory' = PersistFindings(found)
      BY <2>1, Zenon DEF StoreScore
    <3>2. UNCHANGED <<add, contested>>
      BY <2>1, Zenon DEF StoreScore
    <3>3. TypedMemory(memory)
      BY DEF MemTypeInv
    <3>4. TypedMemory(memory') /\ Len(memory) <= Len(memory')
      BY <3>1, <3>3, FindingsAreItems
    <3>5. DOMAIN add' = Adds /\ (\A o \in Adds : add'[o] \in {add[o], NoAdd}) /\ contested' = contested
      BY <3>2 DEF MemTypeInv
    <3> QED BY <3>4, <3>5, ItemsKept
  <2>2. ASSUME NEW s \in Scorings, LoadGrid(s) \/ FailScore(s) PROVE MemTypeInv'
    BY <1>1, <2>2 DEF LoadGrid, FailScore, memoryVars
  <2>3. ASSUME NEW a \in Adjusts, BuildScore(a) \/ AdjustScores(a) PROVE MemTypeInv'
    <3>1. UNCHANGED <<memory, add, contested>>
      BY <2>3, Zenon DEF BuildScore, AdjustScores, memoryVars
    <3> QED BY <1>1, <3>1
  <2> QED BY <1>3, <2>1, <2>2, <2>3 DEF RunNext
<1>4. CASE MemoryNext
  BY <1>4, OpenAddTypes, CommitAddTypes, ExpireTypes DEF MemoryNext
<1>5. CASE UNCHANGED scoringVars
  BY <1>1, <1>5 DEF scoringVars, memoryVars
<1> QED BY <1>2, <1>3, <1>4, <1>5 DEF ScoringNext

LEMMA MemTypes == MemTypeInv => MemoryTypeOK
<1> SUFFICES ASSUME MemTypeInv PROVE MemoryTypeOK
  OBVIOUS
<1>1. memory \in Seq(Item) /\ OlderReplaced(memory) /\ Items = 1..Len(memory)
  BY DEF MemTypeInv, TypedMemory, Items
<1>2. \A o \in Adds : add[o].supersedes # None => add[o].supersedes \in Items
  BY <1>1 DEF MemTypeInv, Adding, NoAdd
<1>3. contested \subseteq Items
  BY <1>1 DEF MemTypeInv
<1> QED BY <1>1, <1>2, <1>3 DEF MemoryTypeOK, OlderReplaced, Items

-----------------------------------------------------------------------------
(* What the Radar shows of the memory.                                     *)

\* The projections show the contradictions of the items, and doubt their dimensions.
Shows(projections, m) ==
    \A x \in DOMAIN m : m[x].item_type = "contradiction" /\ m[x].is_active /\ m[x].dimension \in DOMAIN projections =>
        /\ \E c \in projections[m[x].dimension].contradictions : c.key = m[x].key
        /\ projections[m[x].dimension].confidence <= CONTRADICTION_CONFIDENCE_CAP

KnownRuns == MachineRuns \cup HumanRuns \cup {NoRun}

LEMMA MachineConfidence ==
  ASSUME NEW run \in MachineRuns
  PROVE  /\ run.source = "llm" /\ run # NoRun /\ run.confidence \in 0..1000
         /\ \A k \in DOMAIN run.spread : run.spread[k] \in Nat
<1>1. PICK w \in Versions, kept \in Returned : Consensual(Grids[w], kept) /\ run = MachineRun(w, kept)
  BY MachineRunIs
<1>2. /\ run.spread = [k \in Keys(Grids[w]) |-> Spread(Values(kept, k))]
      /\ run.confidence = Confidence(MeanSpread(run.spread), Grids[w].scale)
  <2>1. /\ run.spread = Consensus(Grids[w], kept).spread
        /\ run.confidence = Consensus(Grids[w], kept).confidence
    BY <1>1, MachineRunFields
  <2>2. /\ Consensus(Grids[w], kept).spread = [k \in Keys(Grids[w]) |-> Spread(Values(kept, k))]
        /\ Consensus(Grids[w], kept).confidence = Confidence(MeanSpread(Consensus(Grids[w], kept).spread), Grids[w].scale)
    BY Zenon, ConsensusFields
  <2> QED BY <2>1, <2>2
<1>3. \A k \in Keys(Grids[w]) : run.spread[k] \in Nat
  BY <1>1, <1>2, SpreadIs
<1>4. run.spread \in [Keys(Grids[w]) -> Nat] /\ DOMAIN run.spread = Keys(Grids[w])
  BY <1>2, <1>3
<1>5. MeanSpread(run.spread) \in Nat
  BY <1>4, MeanIs
<1>6. run.confidence \in 0..1000
  BY <1>2, <1>5, ConfidenceType
<1>7. run.source = "llm"
  BY <1>1, MachineRunFields
<1>8. run # NoRun
  BY <1>7 DEF NoRun
<1> QED BY <1>3, <1>4, <1>6, <1>7, <1>8

LEMMA AxisConfidenceType ==
  ASSUME NEW run \in KnownRuns, NEW key, NEW v \in Versions
  PROVE  AxisConfidence(run, key, Grids[v].scale) \in 0..1000
<1> DEFINE scale == Grids[v].scale
<1>1. CASE run = NoRun
  BY <1>1 DEF AxisConfidence
<1>2. CASE run \in HumanRuns
  <2>1. run.spread = <<>> /\ run.source = "human"
    BY <1>2, HumanRunIs, HumanRunFields
  <2>2. key \notin DOMAIN run.spread
    BY <2>1
  <2> QED BY <2>1, <2>2 DEF AxisConfidence
<1>3. CASE run \in MachineRuns
  <2>1. /\ run.source = "llm" /\ run # NoRun /\ run.confidence \in 0..1000
        /\ \A k \in DOMAIN run.spread : run.spread[k] \in Nat
    BY <1>3, MachineConfidence
  <2>2. CASE key \in DOMAIN run.spread
    <3>1. 100 * run.spread[key] \in Nat
      BY <2>1, <2>2
    <3>2. Confidence(100 * run.spread[key], scale) \in 0..1000
      BY <3>1, ConfidenceType
    <3> QED BY <2>1, <2>2, <3>2 DEF AxisConfidence
  <2>3. CASE key \notin DOMAIN run.spread
    BY <2>1, <2>3 DEF AxisConfidence
  <2> QED BY <2>2, <2>3
<1> QED BY <1>1, <1>2, <1>3 DEF KnownRuns

LEMMA CappedType ==
  ASSUME NEW confidence \in 0..1000, NEW contradictions
  PROVE  /\ Capped(confidence, contradictions) \in 0..1000
         /\ contradictions # {} => Capped(confidence, contradictions) <= CONTRADICTION_CONFIDENCE_CAP
<1> DEFINE S == {confidence, CONTRADICTION_CONFIDENCE_CAP}
<1>1. CONTRADICTION_CONFIDENCE_CAP \in 0..1000
  BY DEF CONTRADICTION_CONFIDENCE_CAP
<1>2. IsFiniteSet(S) /\ S \in SUBSET Int /\ S # {}
  <2>1. IsFiniteSet({confidence})
    BY FS_Singleton
  <2>2. S = {confidence} \cup {CONTRADICTION_CONFIDENCE_CAP}
    OBVIOUS
  <2> QED BY <1>1, <2>1, <2>2, FS_AddElement
<1>3. CONTRADICTION_CONFIDENCE_CAP \in S /\ \A c \in S : c \in 0..1000
  BY <1>1
<1> HIDE DEF S
<1>4. Min(S) \in S /\ Min(S) <= CONTRADICTION_CONFIDENCE_CAP
  BY <1>2, <1>3, ExtremaOf
<1>5. Min(S) \in 0..1000
  BY <1>3, <1>4
<1> QED BY <1>4, <1>5 DEF Capped, S

\* The dimensions that a question may be asked about.
MayBeAsked(projections) == {k \in DOMAIN projections : projections[k].missing}

LEMMA ProjectDomain ==
  ASSUME NEW run, NEW v \in Versions, NEW m
  PROVE  DOMAIN Project(Grids[v], run, m) = Keys(Grids[v])
BY DEF Project, DimensionProjections

\* What the projection of a dimension is made of.
Projected(p, k, run, m) ==
    /\ p.contradictions = {x \in ActiveItems(m) : x.dimension = k /\ x.item_type = "contradiction"}
    /\ p.confidence \in 0..1000
    /\ p.contradictions # {} => p.confidence <= CONTRADICTION_CONFIDENCE_CAP
    /\ p.score = IF run # NoRun /\ k \in DOMAIN run.axes THEN run.axes[k] ELSE -1
    /\ p.evidence_state \in {"unknown", "inferred", "declared", "supported", "verified"}

LEMMA ProjectionIs ==
  ASSUME NEW run \in KnownRuns, NEW v \in Versions, NEW m, NEW k \in Keys(Grids[v])
  PROVE  /\ Projected(Project(Grids[v], run, m)[k], k, run, m)
         /\ Project(Grids[v], run, m)[k].contradictions # {} => k \in MayBeAsked(Project(Grids[v], run, m))
<1> DEFINE grid == Grids[v]
           place == CHOOSE i \in DOMAIN grid.axes : grid.axes[i].key = k
           axis == grid.axes[place]
           items == ActiveItems(m)
           p == Project(grid, run, m)[k]
           mine == {x \in items : x.dimension = axis.key}
           states == {EffectiveState(x.evidence_state, x.expired) : x \in mine}
           evidence == StrongestEvidence(states)
           contradictions == {x \in mine : x.item_type = "contradiction"}
<1>1. place \in DOMAIN grid.axes /\ axis.key = k
  <2>1. \E i \in DOMAIN grid.axes : grid.axes[i].key = k
    BY DEF Keys
  <2> HIDE DEF grid
  <2> QED BY <2>1
<1>2. axis.question
  BY <1>1, GridAssumption
<1>3. p = Projection(axis, run, items, grid.scale)
  BY DEF Project, DimensionProjections
<1>4. /\ p.score = IF run # NoRun /\ axis.key \in DOMAIN run.axes THEN run.axes[axis.key] ELSE -1
      /\ p.confidence = Capped(AxisConfidence(run, axis.key, grid.scale), contradictions)
      /\ p.contradictions = contradictions
      /\ p.evidence_state = IF evidence = "unknown" /\ p.score >= 0 THEN "inferred" ELSE evidence
  <2> HIDE DEF p, axis, items, grid
  <2> QED BY <1>3, Zenon DEF Projection
<1>5. p.missing = (axis.question /\ (p.score <= 6 \/ p.confidence < MinConfidence \/ contradictions # {}
                   \/ p.evidence_state \in {"unknown", "inferred", "declared", "stale"}))
  <2> HIDE DEF p, axis, items, grid
  <2> QED BY <1>3, Zenon DEF Projection
<1>6. AxisConfidence(run, axis.key, grid.scale) \in 0..1000
  BY AxisConfidenceType
<1>7. p.confidence \in 0..1000 /\ (contradictions # {} => p.confidence <= CONTRADICTION_CONFIDENCE_CAP)
  <2> DEFINE confidence == AxisConfidence(run, axis.key, grid.scale)
  <2>1. confidence \in 0..1000
    BY <1>6
  <2>2. p.confidence = Capped(confidence, contradictions)
    BY <1>4
  <2> HIDE DEF p, contradictions, confidence
  <2>3. /\ Capped(confidence, contradictions) \in 0..1000
        /\ contradictions # {} => Capped(confidence, contradictions) <= CONTRADICTION_CONFIDENCE_CAP
    BY <2>1, CappedType, Zenon
  <2> QED BY <2>2, <2>3
<1>8. contradictions = {x \in items : x.dimension = k /\ x.item_type = "contradiction"}
  <2> HIDE DEF items, axis
  <2> QED BY <1>1
<1>9. evidence \in {"unknown", "inferred", "declared", "supported", "verified"}
  <2> DEFINE usable == {i \in 1..5 : EVIDENCE_STRENGTH[i] \in states}
  <2>1. evidence = IF usable = {} THEN "unknown" ELSE EVIDENCE_STRENGTH[Max(usable)]
    <3> HIDE DEF states
    <3> QED BY DEF StrongestEvidence
  <2>2. usable # {} => Max(usable) \in 1..5
    <3>1. usable \in SUBSET (1..5) /\ 5 \in Nat
      OBVIOUS
    <3> HIDE DEF usable
    <3> QED BY <3>1, MaxIn
  <2>3. \A i \in 1..5 : EVIDENCE_STRENGTH[i] \in {"unknown", "inferred", "declared", "supported", "verified"}
    BY DEF EVIDENCE_STRENGTH
  <2> HIDE DEF usable, evidence
  <2> QED BY <2>1, <2>2, <2>3
<1> HIDE DEF p, contradictions, evidence, axis, items
<1>10. contradictions # {} => p.missing
  BY <1>2, <1>5, Zenon
<1>11. p.evidence_state \in {"unknown", "inferred", "declared", "supported", "verified"}
  <2>1. p.evidence_state = evidence \/ p.evidence_state = "inferred"
    BY <1>4
  <2> QED BY <1>9, <2>1
<1>12. p.contradictions = {x \in items : x.dimension = k /\ x.item_type = "contradiction"}
  BY <1>4, <1>8
<1>13. p.score = IF run # NoRun /\ k \in DOMAIN run.axes THEN run.axes[k] ELSE -1
  BY <1>1, <1>4
<1>14. p.contradictions # {} => k \in MayBeAsked(Project(Grids[v], run, m))
  <2>1. p.contradictions # {} => p.missing
    BY <1>4, <1>10, Zenon
  <2>2. k \in DOMAIN Project(Grids[v], run, m)
    BY ProjectDomain
  <2> QED BY <2>1, <2>2, Zenon DEF p, grid, MayBeAsked
<1>15. p.contradictions # {} => p.confidence <= CONTRADICTION_CONFIDENCE_CAP
  BY <1>4, <1>7
<1>16. Projected(p, k, run, m)
  BY <1>7, <1>11, <1>12, <1>13, <1>15, Zenon DEF Projected, items
<1> QED BY <1>14, <1>16, Zenon DEF p, grid

\* Whatever the run, its projections show the memory that they were made of.
LEMMA ProjectShows ==
  ASSUME NEW run \in KnownRuns, NEW v \in Versions, NEW m
  PROVE  Shows(Project(Grids[v], run, m), m)
<1> DEFINE P == Project(Grids[v], run, m)
<1> SUFFICES ASSUME NEW x \in DOMAIN m, m[x].item_type = "contradiction", m[x].is_active, m[x].dimension \in DOMAIN P
             PROVE  /\ \E c \in P[m[x].dimension].contradictions : c.key = m[x].key
                    /\ P[m[x].dimension].confidence <= CONTRADICTION_CONFIDENCE_CAP
  BY Zenon DEF Shows
<1> DEFINE k == m[x].dimension
           p == P[k]
<1>1. k \in Keys(Grids[v])
  BY ProjectDomain
<1> HIDE DEF k
<1>2. /\ p.contradictions = {y \in ActiveItems(m) : y.dimension = k /\ y.item_type = "contradiction"}
      /\ p.contradictions # {} => p.confidence <= CONTRADICTION_CONFIDENCE_CAP
  <2>1. Projected(p, k, run, m)
    BY <1>1, ProjectionIs
  <2> HIDE DEF p
  <2> QED BY <2>1 DEF Projected
<1> HIDE DEF P
<1>3. m[x] \in ActiveItems(m)
  BY DEF ActiveItems
<1>4. m[x] \in p.contradictions
  BY <1>2, <1>3 DEF k
<1> QED BY <1>2, <1>4 DEF k

Covers(projections) == \A f \in Findings : DIMENSION_BY_TYPE[f] \in DOMAIN projections

\* What an adjustment is about to write shows the memory too: no scoring comes between.
ShownInv ==
    /\ Shows(state, memory)
    /\ \A a \in Adjusts : adjust[a] # NoAdjust =>
        Shows(adjust[a].projections, memory) /\ Covers(adjust[a].projections)

LEMMA ProjectCovers ==
  ASSUME NEW run, NEW v \in Versions, NEW m
  PROVE  Covers(Project(Grids[v], run, m))
<1>1. \A f \in Findings : DIMENSION_BY_TYPE[f] \in Keys(Grids[v])
  BY GridAssumption
<1> QED BY <1>1, ProjectDomain DEF Covers

LEMMA UpsertShows ==
  ASSUME NEW P, NEW m, Shows(P, m), Covers(P), FoundContradictions(m)
  PROVE  Shows(Upserted(P), m)
<1> SUFFICES ASSUME NEW x \in DOMAIN m, m[x].item_type = "contradiction", m[x].is_active
             PROVE  /\ \E c \in Upserted(P)[m[x].dimension].contradictions : c.key = m[x].key
                    /\ Upserted(P)[m[x].dimension].confidence <= CONTRADICTION_CONFIDENCE_CAP
  BY Zenon DEF Shows
<1>1. m[x].dimension \in DOMAIN P
  BY DEF FoundContradictions, Covers
<1>2. Upserted(P)[m[x].dimension] = P[m[x].dimension]
  BY <1>1 DEF Upserted
<1> QED BY <1>1, <1>2 DEF Shows

LEMMA ShowsStill ==
  ASSUME NEW P, NEW m, NEW n, Shows(P, m), NoMoreContradictions(m, n)
  PROVE  Shows(P, n)
<1> SUFFICES ASSUME NEW x \in DOMAIN n, n[x].item_type = "contradiction", n[x].is_active, n[x].dimension \in DOMAIN P
             PROVE  /\ \E c \in P[n[x].dimension].contradictions : c.key = n[x].key
                    /\ P[n[x].dimension].confidence <= CONTRADICTION_CONFIDENCE_CAP
  BY Zenon DEF Shows
<1>1. x \in DOMAIN m /\ m[x].item_type = "contradiction" /\ m[x].is_active
      /\ m[x].key = n[x].key /\ m[x].dimension = n[x].dimension
  BY DEF NoMoreContradictions
<1> QED BY <1>1 DEF Shows

LEMMA ShownStarts == ScoringInit => ShownInv
<1> SUFFICES ASSUME ScoringInit PROVE ShownInv
  OBVIOUS
<1>1. memory = <<>> /\ adjust = [a \in Adjusts |-> NoAdjust]
  BY DEF ScoringInit, MemoryInit
<1> QED BY <1>1 DEF ShownInv, Shows

\* The steps of a founder hide contradictions, and show no other.
LEMMA FounderShows ==
  ASSUME ShownInv, NoMoreContradictions(memory, memory'), UNCHANGED <<state, adjust>>
  PROVE  ShownInv'
<1> DEFINE n == memory'
<1>1. NoMoreContradictions(memory, n)
  OBVIOUS
<1> HIDE DEF n
<1>2. Shows(state, n)
  BY <1>1, ShowsStill DEF ShownInv
<1>3. \A a \in Adjusts : adjust[a] # NoAdjust => Shows(adjust[a].projections, n) /\ Covers(adjust[a].projections)
  BY <1>1, ShowsStill DEF ShownInv
<1>4. Shows(state', memory')
  BY <1>2 DEF n
<1>5. \A a \in Adjusts : adjust'[a] # NoAdjust => Shows(adjust'[a].projections, memory') /\ Covers(adjust'[a].projections)
  BY <1>3 DEF n
<1> QED BY <1>4, <1>5 DEF ShownInv

LEMMA StoreShows ==
  ASSUME InTurn, MemInv, GridInv, ShownInv, NEW s \in Scorings, StoreScore(s)
  PROVE  ShownInv'
<1>1. /\ scoring[s] \in Versions
      /\ \A a \in Adjusts : adjust[a] = NoAdjust
      /\ adjust' = adjust
  BY Zenon DEF StoreScore, Prompting
<1>2. PICK kept \in Returned, found \in SUBSET Findings : \E run \in BuildConsensusScore(kept) :
            /\ memory' = PersistFindings(found)
            /\ state' = StoreState(scoring[s], run, found)
  BY Zenon DEF StoreScore
<1>3. PICK run \in BuildConsensusScore(kept) :
            /\ memory' = PersistFindings(found)
            /\ state' = StoreState(scoring[s], run, found)
  BY <1>2
<1>4. run \in KnownRuns
  <2>1. PICK v \in ResolveGrid(None) : /\ Consensual(Grids[v], kept) /\ ValidAxes(Grids[v], Consensus(Grids[v], kept).axes)
                                       /\ run = MachineRun(v, kept)
    BY <1>3, Zenon DEF BuildConsensusScore, MachineRun
  <2>2. v \in Versions
    BY DEF ResolveGrid, GridInv
  <2>3. <<v, kept>> \in Agreed
    BY <2>1, <2>2 DEF Agreed
  <2> QED BY <2>1, <2>3 DEF MachineRuns, KnownRuns
<1> DEFINE m == PersistFindings(found)
           P == Project(Grids[scoring[s]], run, m)
<1>5. FoundContradictions(m)
  <2>1. SoundMemory(memory, contested)
    BY DEF MemInv
  <2>2. SoundMemory(PersistFindings(found), contested)
    BY <2>1, FindingsPersisted
  <2> QED BY <2>2 DEF SoundMemory
<1> HIDE DEF m
<1>6. Shows(P, m) /\ Covers(P)
  BY <1>1, <1>4, ProjectShows, ProjectCovers
<1>7. memory' = m /\ state' = Upserted(P)
  BY <1>3 DEF StoreState, m
<1> HIDE DEF P
<1>8. Shows(Upserted(P), m)
  BY <1>5, <1>6, UpsertShows
<1>9. Shows(state', memory')
  BY <1>7, <1>8
<1>10. \A a \in Adjusts : adjust'[a] = NoAdjust
  BY <1>1
<1> QED BY <1>9, <1>10 DEF ShownInv

LEMMA BuildShows ==
  ASSUME RunInv, GridInv, ShownInv, NEW a \in Adjusts, BuildScore(a)
  PROVE  ShownInv'
<1>1. PICK axes \in HumanScores, version \in Versions \cup {None} : \E v \in ResolveGrid(version) :
          /\ ValidAxes(Grids[v], axes)
          /\ adjust' = [adjust EXCEPT ![a] = [run |-> HumanRun(v, axes), projections |-> Project(Grids[v], HumanRun(v, axes), memory)]]
  BY Zenon DEF BuildScore, HumanRun
<1>2. PICK v \in ResolveGrid(version) :
          /\ ValidAxes(Grids[v], axes)
          /\ adjust' = [adjust EXCEPT ![a] = [run |-> HumanRun(v, axes), projections |-> Project(Grids[v], HumanRun(v, axes), memory)]]
  BY <1>1
<1>3. v \in Versions
  BY DEF ResolveGrid, GridInv
<1>4. HumanRun(v, axes) \in KnownRuns
  <2>1. <<v, axes>> \in {y \in Versions \X HumanScores : ValidAxes(Grids[y[1]], y[2])}
    BY <1>1, <1>2, <1>3
  <2> QED BY <2>1 DEF HumanRuns, KnownRuns
<1>5. memory' = memory /\ state' = state
  BY Zenon DEF BuildScore, memoryVars
<1> DEFINE run == HumanRun(v, axes)
           P == Project(Grids[v], run, memory)
<1>6. Shows(P, memory) /\ Covers(P)
  <2> HIDE DEF run
  <2>1. run \in KnownRuns
    BY <1>4 DEF run
  <2> QED BY <1>3, <2>1, ProjectShows, ProjectCovers
<1>7. adjust' = [adjust EXCEPT ![a] = [run |-> run, projections |-> P]] /\ DOMAIN adjust = Adjusts
  BY <1>2 DEF RunInv
<1> HIDE DEF run, P
<1>8. \A b \in Adjusts : adjust'[b] # NoAdjust => Shows(adjust'[b].projections, memory) /\ Covers(adjust'[b].projections)
  <2> SUFFICES ASSUME NEW b \in Adjusts, adjust'[b] # NoAdjust
               PROVE  Shows(adjust'[b].projections, memory) /\ Covers(adjust'[b].projections)
    OBVIOUS
  <2>1. CASE b = a
    <3>1. adjust'[b].projections = P
      BY <1>7, <2>1
    <3> QED BY <1>6, <3>1
  <2>2. CASE b # a
    <3>1. adjust'[b] = adjust[b]
      BY <1>7, <2>2
    <3> QED BY <3>1 DEF ShownInv
  <2> QED BY <2>1, <2>2
<1>9. Shows(state', memory')
  BY <1>5 DEF ShownInv
<1> QED BY <1>5, <1>8, <1>9 DEF ShownInv

LEMMA AdjustShows ==
  ASSUME MemInv, RunInv, ShownInv, NEW a \in Adjusts, AdjustScores(a)
  PROVE  ShownInv'
<1>1. /\ adjust[a] # NoAdjust /\ state' = Upserted(adjust[a].projections)
      /\ adjust' = [adjust EXCEPT ![a] = NoAdjust] /\ memory' = memory
  BY DEF AdjustScores
<1> DEFINE P == adjust[a].projections
<1>2. Shows(P, memory) /\ Covers(P)
  BY <1>1 DEF ShownInv
<1>3. FoundContradictions(memory)
  BY DEF MemInv, SoundMemory
<1> HIDE DEF P
<1>4. Shows(Upserted(P), memory)
  BY <1>2, <1>3, UpsertShows
<1>5. Shows(state', memory')
  BY <1>1, <1>4 DEF P
<1>6. \A b \in Adjusts : adjust'[b] # NoAdjust => adjust'[b] = adjust[b]
  BY <1>1 DEF RunInv
<1> QED BY <1>1, <1>5, <1>6 DEF ShownInv

LEMMA ShownStep ==
  ASSUME InTurn, MemInv, GridInv, RunInv, ShownInv, [ScoringNext]_scoringVars
  PROVE  ShownInv'
<1>1. ASSUME UNCHANGED <<memory, state, adjust>> PROVE ShownInv'
  BY <1>1 DEF ShownInv
<1>2. CASE GridNext
  <2>1. UNCHANGED <<memory, state, adjust>>
    BY <1>2 DEF GridNext, Activate, ClearActive, HoldLocks, CommitActivation, AbortActivation, memoryVars
  <2> QED BY <1>1, <2>1
<1>3. CASE RunNext
  <2>1. ASSUME NEW s \in Scorings, LoadGrid(s) \/ FailScore(s) PROVE ShownInv'
    BY <1>1, <2>1 DEF LoadGrid, FailScore, memoryVars
  <2> QED BY <1>3, <2>1, StoreShows, BuildShows, AdjustShows DEF RunNext
<1>4. CASE MemoryNext /\ UNCHANGED <<grids, activation, scoring, adjust, runs>>
  <2>1. ASSUME NEW o \in Adds, OpenAdd(o) PROVE ShownInv'
    BY <1>1, <1>4, <2>1 DEF OpenAdd
  <2>2. ASSUME NEW o \in Adds, CommitAdd(o) PROVE ShownInv'
    <3>1. state' = state
      BY <2>2 DEF CommitAdd
    <3> QED BY <1>4, <2>2, <3>1, CommitAddStep, FounderShows
  <2>3. ASSUME NEW x \in 1..MaxItems, Expire(x) PROVE ShownInv'
    <3>1. state' = state
      BY <2>3 DEF Expire
    <3> QED BY <1>4, <2>3, <3>1, ExpireStep, FounderShows
  <2> QED BY <1>4, <2>1, <2>2, <2>3 DEF MemoryNext
<1>5. CASE UNCHANGED scoringVars
  BY <1>1, <1>5 DEF scoringVars, memoryVars
<1> QED BY <1>2, <1>3, <1>4, <1>5 DEF ScoringNext

LEMMA RadarShows == ShownInv => ContradictionsReachTheRadar
BY DEF ShownInv, Shows, ContradictionsReachTheRadar, Items, Active

-----------------------------------------------------------------------------
(* What the founder is asked.                                              *)

FirstThree(A, q) == {k \in A : Cardinality({x \in A : q[x] > q[k]}) < 3}

\* One that is not among the first three has three before it.
LEMMA ThreeComeFirst ==
  ASSUME NEW A, IsFiniteSet(A), NEW q \in [A -> Int], NEW k \in A, k \notin FirstThree(A, q)
  PROVE  Cardinality(FirstThree(A, q)) >= 3
<1> DEFINE first == FirstThree(A, q)
           Above(y) == {x \in A : q[x] > q[y]}
           rest == A \ first
           ranks == {q[y] : y \in rest}
<1>1. first \in SUBSET A /\ \A y \in A : y \in first <=> Cardinality(Above(y)) < 3
  BY DEF FirstThree
<1>2. \A y \in A : Above(y) \in SUBSET A
  OBVIOUS
<1>3. \A y \in A : Cardinality(Above(y)) \in Nat
  <2> SUFFICES ASSUME NEW y \in A PROVE Cardinality(Above(y)) \in Nat
    OBVIOUS
  <2>1. IsFiniteSet(Above(y))
    <3>1. Above(y) \in SUBSET A
      OBVIOUS
    <3> HIDE DEF Above
    <3> QED BY <3>1, FS_Subset
  <2> HIDE DEF Above
  <2> QED BY <2>1, FS_CardinalityType
<1>4. IsFiniteSet(first)
  BY <1>1, FS_Subset
<1>5. k \in rest
  OBVIOUS
<1> HIDE DEF first
<1>6. PICK b \in rest : \A y \in rest : q[y] <= q[b]
  <2> DEFINE h == [y \in rest |-> q[y]]
  <2>1. IsFiniteSet(rest)
    BY FS_Subset
  <2>2. DOMAIN h = rest /\ ranks = {h[y] : y \in rest}
    OBVIOUS
  <2> HIDE DEF h
  <2>3. IsFiniteSet(ranks)
    BY <2>1, <2>2, ValuesFinite
  <2>4. ranks \in SUBSET Int /\ ranks # {}
    BY <1>5
  <2>5. Max(ranks) \in ranks /\ \A x \in ranks : x <= Max(ranks)
    <3> HIDE DEF ranks
    <3> QED BY <2>3, <2>4, ExtremaOf
  <2>6. PICK b \in rest : q[b] = Max(ranks)
    BY <2>5
  <2>7. \A y \in rest : q[y] \in ranks
    OBVIOUS
  <2> HIDE DEF ranks
  <2> QED BY <2>5, <2>6, <2>7
<1>7. ~ (Cardinality(Above(b)) < 3)
  BY <1>1, <1>6
<1>8. Above(b) \in SUBSET first
  <2> SUFFICES ASSUME NEW x \in A, q[x] > q[b], x \notin first PROVE FALSE
    OBVIOUS
  <2>1. q[x] <= q[b] /\ q[x] \in Int /\ q[b] \in Int
    BY <1>6
  <2> QED BY <2>1
<1>9. Cardinality(Above(b)) <= Cardinality(first) /\ Cardinality(first) \in Nat /\ Cardinality(Above(b)) \in Nat
  <2>1. b \in A
    OBVIOUS
  <2>2. Cardinality(Above(b)) \in Nat
    BY <1>3, <2>1
  <2> HIDE DEF Above
  <2> QED BY <1>4, <1>8, <2>2, FS_Subset, FS_CardinalityType
<1> HIDE DEF Above
<1> QED BY <1>7, <1>9 DEF first

LEMMA GapType ==
  ASSUME NEW shown \in {"unknown", "inferred", "declared", "supported", "verified"}
  PROVE  EvidenceGap(shown) \in Int
BY DEF EvidenceGap

\* The priorities of the questions can be compared.
LEMMA PriorityType ==
  ASSUME NEW run \in KnownRuns, NEW v \in Versions, NEW m, NEW k \in Keys(Grids[v]),
         run # NoRun => run.grid_version = v
  PROVE  QuestionPriority(Project(Grids[v], run, m)[k]) \in Int
<1> DEFINE p == Project(Grids[v], run, m)[k]
<1>1. /\ p.confidence \in Int
      /\ p.score = IF run # NoRun /\ k \in DOMAIN run.axes THEN run.axes[k] ELSE -1
      /\ p.evidence_state \in {"unknown", "inferred", "declared", "supported", "verified"}
  <2>1. Projected(p, k, run, m)
    BY ProjectionIs
  <2> HIDE DEF p
  <2> QED BY <2>1 DEF Projected
<1> HIDE DEF p
<1>2. p.score \in Int
  <2>1. CASE run = NoRun
    BY <1>1, <2>1
  <2>2. CASE run # NoRun
    <3>1. ValidAxes(Grids[v], run.axes)
      BY <2>2, RunIsGraded DEF KnownRuns
    <3>2. GradedIn(v, run.axes)
      BY <3>1, ValidIsGraded
    <3>3. k \in DOMAIN run.axes /\ run.axes[k] \in Int
      BY <3>2 DEF GradedIn
    <3> QED BY <1>1, <2>2, <3>3
  <2> QED BY <2>1, <2>2
<1>3. EvidenceGap(p.evidence_state) \in Int
  BY <1>1, GapType
<1>4. QuestionPriority(p) = (IF p.score < 0 THEN 1000 ELSE 100 * (10 - p.score)) + (1000 - p.confidence)
        + EvidenceGap(p.evidence_state) + (IF p.contradictions = {} THEN 0 ELSE 500)
  BY DEF QuestionPriority
<1>5. QuestionPriority(p) \in Int
  <2>1. (IF p.score < 0 THEN 1000 ELSE 100 * (10 - p.score)) \in Int
    BY <1>2
  <2>2. (IF p.contradictions = {} THEN 0 ELSE 500) \in Int
    OBVIOUS
  <2> QED BY <1>1, <1>3, <1>4, <2>1, <2>2
<1> QED BY <1>5 DEF p

\* Of any projections that show a memory, the contradictions are asked about, or three dimensions before.
LEMMA AskedOrThree ==
  ASSUME NEW run \in KnownRuns, NEW v \in Versions, NEW m, NEW k \in Keys(Grids[v]),
         run # NoRun => run.grid_version = v,
         NEW x \in DOMAIN m, m[x].item_type = "contradiction", m[x].is_active, m[x].dimension = k
  PROVE  LET asked == AdaptiveQuestions(Project(Grids[v], run, m)) IN
         k \in asked \/ Cardinality(asked) >= 3
<1> DEFINE P == Project(Grids[v], run, m)
           K == Keys(Grids[v])
           A == MayBeAsked(P)
           q == [y \in A |-> QuestionPriority(P[y])]
<1>1. k \in MayBeAsked(P)
  <2>1. /\ P[k].contradictions = {y \in ActiveItems(m) : y.dimension = k /\ y.item_type = "contradiction"}
        /\ P[k].contradictions # {} => k \in MayBeAsked(P)
    <3>1. Projected(P[k], k, run, m) /\ (P[k].contradictions # {} => k \in MayBeAsked(P))
      BY ProjectionIs
    <3> HIDE DEF P
    <3> QED BY <3>1 DEF Projected
  <2> HIDE DEF P
  <2>2. m[x] \in ActiveItems(m)
    BY DEF ActiveItems
  <2> QED BY <2>1, <2>2
<1>2. DOMAIN P = K
  BY ProjectDomain
<1>3. \A y \in K : QuestionPriority(P[y]) \in Int
  BY PriorityType
<1>4. IsFiniteSet(K)
  BY GridKeys
<1> HIDE DEF P, K
<1>5. k \in A /\ A = {y \in K : P[y].missing}
  BY <1>1, <1>2 DEF MayBeAsked
<1>6. q \in [A -> Int] /\ A \in SUBSET K
  BY <1>3, <1>5
<1>7. IsFiniteSet(A)
  BY <1>4, <1>6, FS_Subset
<1>8. AdaptiveQuestions(P) = FirstThree(A, q)
  BY DEF AdaptiveQuestions, FirstThree, MayBeAsked
<1> HIDE DEF A, q
<1>9. k \notin FirstThree(A, q) => Cardinality(FirstThree(A, q)) >= 3
  BY <1>5, <1>6, <1>7, ThreeComeFirst
<1>10. k \in AdaptiveQuestions(P) \/ Cardinality(AdaptiveQuestions(P)) >= 3
  BY <1>8, <1>9
<1> QED BY <1>10 DEF P

LEMMA AskedHolds == ASSUME GridInv, RunInv, MemInv PROVE ContradictionsAreAsked
<1> DEFINE version == IF LatestRun # NoRun THEN LatestRun.grid_version ELSE CHOOSE v \in grids : TRUE
<1>1. LatestRun \in KnownRuns
  <2>1. runs \in Seq(MachineRuns \cup HumanRuns)
    BY DEF RunInv
  <2>2. CASE runs = <<>>
    BY <2>2 DEF LatestRun, KnownRuns
  <2>3. CASE runs # <<>>
    <3>1. runs[Len(runs)] \in MachineRuns \cup HumanRuns
      BY <2>1, <2>3
    <3> QED BY <2>3, <3>1 DEF LatestRun, KnownRuns
  <2> QED BY <2>2, <2>3
<1>2. version \in Versions
  <2>1. CASE LatestRun # NoRun
    <3>1. LatestRun \in MachineRuns \cup HumanRuns
      BY <1>1, <2>1 DEF KnownRuns
    <3>2. LatestRun.grid_version \in Versions
      <4> DEFINE r == LatestRun
      <4>1. r \in MachineRuns \cup HumanRuns
        BY <3>1
      <4> HIDE DEF r
      <4>2. r.grid_version \in Versions
        BY <4>1, RunIsGraded
      <4> QED BY <4>2 DEF r
    <3> QED BY <2>1, <3>2
  <2>2. CASE LatestRun = NoRun
    <3>1. grids # {} /\ grids \subseteq Versions
      BY DEF GridInv
    <3>2. (CHOOSE v \in grids : TRUE) \in grids
      BY <3>1
    <3> QED BY <2>2, <3>1, <3>2
  <2> QED BY <2>1, <2>2
<1>3. LatestRun # NoRun => LatestRun.grid_version = version
  OBVIOUS
<1>4. Evaluation = Project(Grids[version], LatestRun, memory)
  BY Zenon DEF Evaluation
<1> HIDE DEF version
<1> DEFINE asked == AdaptiveQuestions(Evaluation)
<1> SUFFICES ASSUME NEW x \in Items, memory[x].item_type = "contradiction", Active(x), memory[x].dimension \in DOMAIN Evaluation
             PROVE  memory[x].dimension \in asked \/ Cardinality(asked) >= 3
  BY Zenon DEF ContradictionsAreAsked
<1> DEFINE k == memory[x].dimension
           run == LatestRun
<1>5. k \in Keys(Grids[version])
  BY <1>2, <1>4, ProjectDomain
<1>6. run \in KnownRuns /\ (run # NoRun => run.grid_version = version)
  BY <1>1, <1>3
<1>7. x \in DOMAIN memory /\ memory[x].is_active /\ memory[x].dimension = k
  BY DEF Items, Active
<1> HIDE DEF k, run, asked
<1>8. k \in AdaptiveQuestions(Project(Grids[version], run, memory)) \/ Cardinality(AdaptiveQuestions(Project(Grids[version], run, memory))) >= 3
  BY <1>2, <1>5, <1>6, <1>7, AskedOrThree
<1> QED BY <1>4, <1>8 DEF k, run, asked

\* When an adjustment neither overlaps another one nor the end of a scoring, the memory of a project
\* is sound, however the calls of add_memory overlap: for any grids, any findings and any number of
\* items, runs and calls.
THEOREM TheMemoryIsSound == ASSUME InTurn PROVE ScoringSpec => []MemoryIsSound
<1>1. GridInv /\ RunInv /\ MemInv /\ ShownInv => MemoryIsSound
  BY MemConsistent, RadarShows, AskedHolds DEF MemoryIsSound
<1>2. ScoringInit => MemInv /\ ShownInv
  BY MemStarts, ShownStarts
<1>3. GridInv /\ RunInv /\ MemInv /\ ShownInv /\ [ScoringNext]_scoringVars => (MemInv /\ ShownInv)'
  BY MemStep, ShownStep
<1> QED BY <1>1, <1>2, <1>3, RunsAreCorrect, PTL DEF ScoringSpec
-----------------------------------------------------------------------------
(* The types of the scores.                                                *)

\* A dimension has a confidence in thousandths, and a state of evidence.
StatesTyped(projections) ==
    \A d \in DOMAIN projections :
        projections[d].confidence \in 0..1000 /\ projections[d].evidence_state \in EvidenceState
CallsTyped ==
    /\ scoring \in [Scorings -> Versions \cup {None, "stored"}]
    /\ \A a \in Admins : activation[a] # NoActivation => activation[a].version \in Versions
DimensionsTyped ==
    /\ StatesTyped(state)
    /\ \A a \in Adjusts : adjust[a] # NoAdjust => StatesTyped(adjust[a].projections)

LEMMA ProjectTyped ==
  ASSUME NEW run \in KnownRuns, NEW v \in Versions, NEW m
  PROVE  StatesTyped(Project(Grids[v], run, m))
<1> DEFINE P == Project(Grids[v], run, m)
<1> SUFFICES ASSUME NEW d \in DOMAIN P PROVE P[d].confidence \in 0..1000 /\ P[d].evidence_state \in EvidenceState
  BY Zenon DEF StatesTyped
<1>1. d \in Keys(Grids[v])
  BY ProjectDomain
<1>2. Projected(P[d], d, run, m)
  BY <1>1, ProjectionIs
<1> DEFINE p == P[d]
<1> HIDE DEF p
<1>3. p.confidence \in 0..1000 /\ p.evidence_state \in {"unknown", "inferred", "declared", "supported", "verified"}
  BY <1>2 DEF Projected, p
<1>4. {"unknown", "inferred", "declared", "supported", "verified"} \subseteq EvidenceState
  <2>1. /\ EVIDENCE_STRENGTH[1] = "unknown" /\ EVIDENCE_STRENGTH[2] = "inferred" /\ EVIDENCE_STRENGTH[3] = "declared"
        /\ EVIDENCE_STRENGTH[4] = "supported" /\ EVIDENCE_STRENGTH[5] = "verified"
    BY DEF EVIDENCE_STRENGTH
  <2>2. {1, 2, 3, 4, 5} \subseteq 1..5
    OBVIOUS
  <2> QED BY <2>1, <2>2 DEF EvidenceState
<1> QED BY <1>3, <1>4 DEF p

LEMMA UpsertTyped == ASSUME NEW P, StatesTyped(P), StatesTyped(state) PROVE StatesTyped(Upserted(P))
BY DEF StatesTyped, Upserted

LEMMA CallsStep == ASSUME GridInv, CallsTyped, [ScoringNext]_scoringVars PROVE CallsTyped'
<1>1. ASSUME UNCHANGED <<scoring, activation>> PROVE CallsTyped'
  BY <1>1 DEF CallsTyped
<1>2. ASSUME NEW a \in Admins, NEW v \in Versions, ClearActive(a, v) PROVE CallsTyped'
  <2>1. activation' = [activation EXCEPT ![a] = [version |-> v, cleared |-> grids, stage |-> "waiting"]] /\ scoring' = scoring
    BY <1>2 DEF ClearActive
  <2> QED BY <2>1 DEF CallsTyped, GridInv
<1>3. ASSUME NEW a \in Admins, HoldLocks(a) PROVE CallsTyped'
  <2>1. /\ activation[a].stage = "waiting" /\ scoring' = scoring
        /\ activation' = [activation EXCEPT ![a] = [@ EXCEPT !.cleared = @ \cap grids, !.stage = "holding"]]
    BY <1>3 DEF HoldLocks
  <2>2. activation[a] # NoActivation
    BY <2>1 DEF NoActivation
  <2>3. activation[a].version \in Versions
    BY <2>2 DEF CallsTyped
  <2>4. activation'[a].version = activation[a].version /\ \A b \in Admins : b # a => activation'[b] = activation[b]
    BY <2>1 DEF GridInv
  <2> QED BY <2>1, <2>3, <2>4 DEF CallsTyped
<1>4. ASSUME NEW a \in Admins, activation' = [activation EXCEPT ![a] = NoActivation], UNCHANGED scoring PROVE CallsTyped'
  BY <1>4 DEF CallsTyped, GridInv
<1>5. CASE GridNext
  BY <1>2, <1>3, <1>4, <1>5 DEF GridNext, Activate, CommitActivation, AbortActivation
<1>6. CASE RunNext
  <2>1. ASSUME NEW s \in Scorings, LoadGrid(s) PROVE CallsTyped'
    <3>1. PICK v \in grids : scoring' = [scoring EXCEPT ![s] = v]
      BY <2>1 DEF LoadGrid
    <3>2. v \in Versions /\ activation' = activation
      BY <2>1 DEF LoadGrid, GridInv
    <3> QED BY <3>1, <3>2 DEF CallsTyped
  <2>2. ASSUME NEW s \in Scorings, StoreScore(s) PROVE CallsTyped'
    <3>1. scoring' = [scoring EXCEPT ![s] = "stored"] /\ activation' = activation
      BY <2>2, Zenon DEF StoreScore
    <3> QED BY <3>1 DEF CallsTyped
  <2>3. ASSUME NEW s \in Scorings, FailScore(s) PROVE CallsTyped'
    BY <2>3 DEF FailScore, CallsTyped
  <2>4. ASSUME NEW a \in Adjusts, BuildScore(a) \/ AdjustScores(a) PROVE CallsTyped'
    <3>1. UNCHANGED <<scoring, activation>>
      BY <2>4, Zenon DEF BuildScore, AdjustScores
    <3> QED BY <1>1, <3>1
  <2> QED BY <1>6, <2>1, <2>2, <2>3, <2>4 DEF RunNext
<1>7. CASE MemoryNext /\ UNCHANGED <<grids, activation, scoring, adjust, runs>>
  BY <1>1, <1>7
<1>8. CASE UNCHANGED scoringVars
  BY <1>1, <1>8 DEF scoringVars
<1> QED BY <1>5, <1>6, <1>7, <1>8 DEF ScoringNext

LEMMA StoreDimensions ==
  ASSUME GridInv, DimensionsTyped, NEW s \in Scorings, StoreScore(s)
  PROVE  DimensionsTyped'
<1>1. scoring[s] \in Versions /\ adjust' = adjust
  BY Zenon DEF StoreScore, Prompting
<1>2. PICK kept \in Returned, found \in SUBSET Findings : \E run \in BuildConsensusScore(kept) : state' = StoreState(scoring[s], run, found)
  BY Zenon DEF StoreScore
<1>3. PICK run \in BuildConsensusScore(kept) : state' = StoreState(scoring[s], run, found)
  BY <1>2
<1>4. run \in KnownRuns
  <2>1. PICK v \in ResolveGrid(None) : /\ Consensual(Grids[v], kept) /\ ValidAxes(Grids[v], Consensus(Grids[v], kept).axes)
                                       /\ run = MachineRun(v, kept)
    BY <1>3, Zenon DEF BuildConsensusScore, MachineRun
  <2>2. v \in Versions
    BY DEF ResolveGrid, GridInv
  <2>3. <<v, kept>> \in Agreed
    BY <2>1, <2>2 DEF Agreed
  <2> QED BY <2>1, <2>3 DEF MachineRuns, KnownRuns
<1> DEFINE m == PersistFindings(found)
           P == Project(Grids[scoring[s]], run, m)
<1>5. state' = Upserted(P)
  BY <1>3 DEF StoreState
<1> HIDE DEF m
<1>6. StatesTyped(P)
  BY <1>1, <1>4, ProjectTyped
<1> HIDE DEF P
<1>7. StatesTyped(Upserted(P))
  BY <1>6, UpsertTyped DEF DimensionsTyped
<1>8. StatesTyped(state')
  BY <1>5, <1>7
<1> QED BY <1>1, <1>8 DEF DimensionsTyped

LEMMA BuildDimensions ==
  ASSUME RunInv, GridInv, DimensionsTyped, NEW a \in Adjusts, BuildScore(a)
  PROVE  DimensionsTyped'
<1>1. PICK axes \in HumanScores, version \in Versions \cup {None} : \E v \in ResolveGrid(version) :
          /\ ValidAxes(Grids[v], axes)
          /\ adjust' = [adjust EXCEPT ![a] = [run |-> HumanRun(v, axes), projections |-> Project(Grids[v], HumanRun(v, axes), memory)]]
  BY Zenon DEF BuildScore, HumanRun
<1>2. PICK v \in ResolveGrid(version) :
          /\ ValidAxes(Grids[v], axes)
          /\ adjust' = [adjust EXCEPT ![a] = [run |-> HumanRun(v, axes), projections |-> Project(Grids[v], HumanRun(v, axes), memory)]]
  BY <1>1
<1>3. v \in Versions
  BY DEF ResolveGrid, GridInv
<1> DEFINE run == HumanRun(v, axes)
           P == Project(Grids[v], run, memory)
<1>4. run \in KnownRuns
  <2>1. <<v, axes>> \in {y \in Versions \X HumanScores : ValidAxes(Grids[y[1]], y[2])}
    BY <1>1, <1>2, <1>3
  <2> QED BY <2>1 DEF HumanRuns, KnownRuns
<1>5. state' = state
  BY Zenon DEF BuildScore, memoryVars
<1>6. adjust' = [adjust EXCEPT ![a] = [run |-> run, projections |-> P]] /\ DOMAIN adjust = Adjusts
  BY <1>2 DEF RunInv
<1> HIDE DEF run
<1>7. StatesTyped(P)
  BY <1>3, <1>4, ProjectTyped
<1> HIDE DEF P
<1>8. \A b \in Adjusts : adjust'[b] # NoAdjust => StatesTyped(adjust'[b].projections)
  <2> SUFFICES ASSUME NEW b \in Adjusts, adjust'[b] # NoAdjust PROVE StatesTyped(adjust'[b].projections)
    OBVIOUS
  <2>1. CASE b = a
    <3>1. adjust'[b].projections = P
      BY <1>6, <2>1
    <3> QED BY <1>7, <3>1
  <2>2. CASE b # a
    <3>1. adjust'[b] = adjust[b]
      BY <1>6, <2>2
    <3> QED BY <3>1 DEF DimensionsTyped
  <2> QED BY <2>1, <2>2
<1>9. StatesTyped(state')
  BY <1>5 DEF DimensionsTyped
<1> QED BY <1>8, <1>9 DEF DimensionsTyped

LEMMA AdjustDimensions ==
  ASSUME RunInv, DimensionsTyped, NEW a \in Adjusts, AdjustScores(a)
  PROVE  DimensionsTyped'
<1>1. adjust[a] # NoAdjust /\ state' = Upserted(adjust[a].projections) /\ adjust' = [adjust EXCEPT ![a] = NoAdjust]
  BY DEF AdjustScores
<1> DEFINE P == adjust[a].projections
<1>2. StatesTyped(P) /\ StatesTyped(state)
  BY <1>1 DEF DimensionsTyped
<1> HIDE DEF P
<1>3. StatesTyped(Upserted(P))
  BY <1>2, UpsertTyped
<1>4. StatesTyped(state')
  BY <1>1, <1>3 DEF P
<1>5. \A b \in Adjusts : adjust'[b] # NoAdjust => adjust'[b] = adjust[b]
  BY <1>1 DEF RunInv
<1> QED BY <1>4, <1>5 DEF DimensionsTyped

LEMMA DimensionsStep == ASSUME GridInv, RunInv, DimensionsTyped, [ScoringNext]_scoringVars PROVE DimensionsTyped'
<1>1. ASSUME UNCHANGED <<state, adjust>> PROVE DimensionsTyped'
  BY <1>1 DEF DimensionsTyped
<1>2. CASE GridNext
  <2>1. UNCHANGED <<state, adjust>>
    BY <1>2 DEF GridNext, Activate, ClearActive, HoldLocks, CommitActivation, AbortActivation, memoryVars
  <2> QED BY <1>1, <2>1
<1>3. CASE RunNext
  <2>1. ASSUME NEW s \in Scorings, LoadGrid(s) \/ FailScore(s) PROVE DimensionsTyped'
    BY <1>1, <2>1 DEF LoadGrid, FailScore, memoryVars
  <2> QED BY <1>3, <2>1, StoreDimensions, BuildDimensions, AdjustDimensions DEF RunNext
<1>4. CASE MemoryNext /\ UNCHANGED <<grids, activation, scoring, adjust, runs>>
  <2>1. UNCHANGED state
    BY <1>4 DEF MemoryNext, OpenAdd, CommitAdd, Expire
  <2> QED BY <1>1, <1>4, <2>1
<1>5. CASE UNCHANGED scoringVars
  BY <1>1, <1>5 DEF scoringVars, memoryVars
<1> QED BY <1>2, <1>3, <1>4, <1>5 DEF ScoringNext

LEMMA RunTypes == ASSUME NEW run \in MachineRuns \cup HumanRuns PROVE run.grid_version \in Versions /\ run.confidence \in 0..1000
<1>1. run.grid_version \in Versions
  BY RunIsGraded
<1>2. CASE run \in MachineRuns
  BY <1>1, <1>2, MachineConfidence
<1>3. CASE run \in HumanRuns
  <2>1. PICK v \in Versions, axes \in HumanScores : run = HumanRun(v, axes)
    BY <1>3, HumanRunIs
  <2>2. HumanRun(v, axes).confidence = NoConsensus.confidence
    BY Zenon DEF HumanRun, ScoreRun
  <2>3. run.confidence = 0
    BY <2>1, <2>2 DEF NoConsensus
  <2> QED BY <1>1, <2>3
<1> QED BY <1>2, <1>3

ScoresTyped == GridInv /\ RunInv /\ MemTypeInv /\ CallsTyped /\ DimensionsTyped

LEMMA ScoresAreTyped == ScoresTyped => ScoringTypeOK
<1> SUFFICES ASSUME ScoresTyped PROVE ScoringTypeOK
  OBVIOUS
<1>1. MemoryTypeOK
  BY MemTypes DEF ScoresTyped
<1>2. \A r \in DOMAIN runs : runs[r].grid_version \in Versions /\ runs[r].confidence \in 0..1000
  <2> SUFFICES ASSUME NEW r \in DOMAIN runs PROVE runs[r].grid_version \in Versions /\ runs[r].confidence \in 0..1000
    OBVIOUS
  <2>1. runs[r] \in MachineRuns \cup HumanRuns
    BY DEF ScoresTyped, RunInv
  <2> QED BY <2>1, RunTypes
<1>3. \A d \in DOMAIN state : state[d].confidence \in 0..1000 /\ state[d].evidence_state \in EvidenceState
  BY DEF ScoresTyped, DimensionsTyped, StatesTyped
<1>4. /\ grids \subseteq Versions
      /\ \A a \in Admins : activation[a] # NoActivation =>
            activation[a].version \in Versions /\ activation[a].cleared \subseteq Versions
      /\ scoring \in [Scorings -> Versions \cup {None, "stored"}]
  BY DEF ScoresTyped, GridInv, CallsTyped
<1> QED BY <1>1, <1>2, <1>3, <1>4, Zenon DEF ScoringTypeOK

LEMMA TypesStart == ScoringInit => ScoresTyped
<1> SUFFICES ASSUME ScoringInit PROVE ScoresTyped
  OBVIOUS
<1>1. MemTypeInv
  <2>1. memory = <<>> /\ add = [o \in Adds |-> NoAdd] /\ contested = {}
    BY DEF ScoringInit, MemoryInit
  <2> QED BY <2>1 DEF MemTypeInv, TypedMemory, OlderReplaced, Adding
<1>2. CallsTyped
  BY DEF ScoringInit, CallsTyped
<1>3. DimensionsTyped
  <2>1. state = <<>> /\ adjust = [a \in Adjusts |-> NoAdjust]
    BY DEF ScoringInit, MemoryInit
  <2> QED BY <2>1 DEF DimensionsTyped, StatesTyped
<1> QED BY <1>1, <1>2, <1>3, ScoringStarts DEF ScoresTyped

\* Whatever scorings, adjustments, activations and declarations overlap, without any condition on their
\* turns: the items of the memory have their shape and refer to older ones, a run has a grid that exists,
\* and the confidences that are computed from the spreads stay in 0..1000 (engine.py, ensemble.py,
\* evaluation.py).
THEOREM TheScoresAreTyped == ScoringSpec => []ScoringTypeOK
<1>1. ScoresTyped /\ [ScoringNext]_scoringVars => ScoresTyped'
  BY GridStep, RunStep, MemTypeStep, CallsStep, DimensionsStep DEF ScoresTyped
<1> QED BY <1>1, TypesStart, ScoresAreTyped, PTL DEF ScoringSpec
=============================================================================
