------------------------------- MODULE Dedup -------------------------------
(***************************************************************************)
(* What is made of the contradictions an LLM reports: those whose quotes   *)
(* are in the narrative are kept, and one is left of those about the same  *)
(* pair of quotes (app/inconsistencies: dedup, verification).              *)
(*                                                                         *)
(* A quote is a member of Quotes: Found holds those that are long enough   *)
(* and in the narrative, LongPrefix the pairs of which the first, of 40    *)
(* characters or more, begins the second.  What the LLM reports, a raw     *)
(* finding, has None for a field that is missing or empty, and Other for a *)
(* word that is not in the lists.                                          *)
(***************************************************************************)
EXTENDS Persistence, Integers, Sequences, SequencesExt, FiniteSets

CONSTANTS Quotes, Found, LongPrefix, Other

ASSUME DedupAssumption == Found \subseteq Quotes /\ LongPrefix \subseteq Quotes \X Quotes

SPECIFICITY == <<"arithmetic", "temporal", "regulatory", "market", "capacity", "internal">>
InconsistencyType == {SPECIFICITY[i] : i \in DOMAIN SPECIFICITY}
Severity == 0..2
AuditFinding == [type : InconsistencyType, quote_a : Quotes, quote_b : Quotes, severity : Severity]
Specificity(type) == CHOOSE i \in DOMAIN SPECIFICITY : SPECIFICITY[i] = type

\* The members of a sequence that are in S, in their order.
Only(seq, S) == FoldLeft(LAMBDA kept, x : IF x \in S THEN Append(kept, x) ELSE kept, <<>>, seq)

-----------------------------------------------------------------------------
(* parse_finding and parse_analysis                                        *)

Verifiable(raw) == raw.quote_a # None /\ raw.quote_b # None

\* A type or a severity that is not in the lists falls back.
ParseFinding(raw, fallback_type) ==
    LET type == IF raw.type # None THEN raw.type ELSE fallback_type IN
    [type |-> IF type \in InconsistencyType THEN type ELSE "internal",
     quote_a |-> raw.quote_a, quote_b |-> raw.quote_b,
     severity |-> IF raw.severity \in Severity THEN raw.severity ELSE 1]

\* A finding without its two quotes is left out.
ParseFindings(raws, fallback_type) ==
    LET kept == Only(raws, {raw \in ToSet(raws) : Verifiable(raw)}) IN
    [i \in DOMAIN kept |-> ParseFinding(kept[i], fallback_type)]

\* An entry for each type, [type, findings]; None is not an object.
ParseAnalysis(entries) ==
    FoldLeft(LAMBDA findings, entry :
                IF entry = None THEN findings ELSE findings \o ParseFindings(entry.findings, entry.type),
             <<>>, entries)

-----------------------------------------------------------------------------
(* The duplicates, and the quotes.                                         *)

SameQuote(l, r) == l = r \/ <<l, r>> \in LongPrefix \/ <<r, l>> \in LongPrefix
SamePair(f, g) ==
    \/ SameQuote(f.quote_a, g.quote_a) /\ SameQuote(f.quote_b, g.quote_b)
    \/ SameQuote(f.quote_a, g.quote_b) /\ SameQuote(f.quote_b, g.quote_a)

\* The most specific type, the first such finding, and the highest severity.
Merge(cluster) ==
    LET Rank(i) == <<Specificity(cluster[i].type), i>>
        kept == CHOOSE i \in DOMAIN cluster : \A j \in DOMAIN cluster :
                    Rank(i)[1] < Rank(j)[1] \/ (Rank(i)[1] = Rank(j)[1] /\ i <= j)
    IN [type |-> cluster[kept].type, quote_a |-> cluster[kept].quote_a, quote_b |-> cluster[kept].quote_b,
        severity |-> CHOOSE s \in {cluster[i].severity : i \in DOMAIN cluster} :
                        \A i \in DOMAIN cluster : cluster[i].severity <= s,
        merged_types |-> {cluster[i].type : i \in DOMAIN cluster} \ {cluster[kept].type}]

\* A finding joins the first cluster that has a member with its pair of quotes.
Clustered(clusters, f) ==
    LET near == {c \in DOMAIN clusters : \E i \in DOMAIN clusters[c] : SamePair(f, clusters[c][i])} IN
    IF near = {} THEN Append(clusters, <<f>>)
    ELSE LET first == CHOOSE c \in near : \A d \in near : c <= d IN
         [clusters EXCEPT ![first] = Append(@, f)]
Deduplicate(findings) ==
    LET clusters == FoldLeft(Clustered, <<>>, findings) IN
    [c \in DOMAIN clusters |-> Merge(clusters[c])]

IsGrounded(f) == f.quote_a \in Found /\ f.quote_b \in Found
KeepGrounded(findings) == Only(findings, {f \in ToSet(findings) : IsGrounded(f)})
=============================================================================
