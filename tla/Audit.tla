------------------------------- MODULE Audit -------------------------------
(***************************************************************************)
(* The audit of a lot of dossiers (app/inconsistencies): a batch asks the  *)
(* LLM for the contradictions of every dossier and writes audit.json, a    *)
(* human decides on each finding in a file of his own, and the report is   *)
(* made of the two.  Batches, exports, decisions and reports are commands  *)
(* of different moments, over the same two files; a batch may be killed,   *)
(* and started again with --resume.                                        *)
(*                                                                         *)
(* An identifier, a hash in the code, is what it is the hash of.           *)
(***************************************************************************)
EXTENDS Persistence, Dedup

CONSTANTS
    Lot,         \* the dossiers of the client, a sequence of [reference, narrative]
    Said,        \* what a pass of the LLM may answer: its entries
    Limits,      \* the values of --limit
    MaxBatches,  \* a bound on the batches
    Truncated

ASSUME AuditAssumption ==
    /\ Limits \subseteq Nat /\ MaxBatches \in Nat
    /\ Len(Lot) \in Nat /\ DOMAIN Lot = 1..Len(Lot)

\* An answer is a sequence of entries, an entry has a sequence of findings.
ASSUME SaidAssumption ==
    \A answer \in Said :
        /\ Len(answer) \in Nat /\ DOMAIN answer = 1..Len(answer)
        /\ \A i \in DOMAIN answer : answer[i] # None =>
            LET raws == answer[i].findings IN
            /\ Len(raws) \in Nat /\ DOMAIN raws = 1..Len(raws)
            /\ \A n \in DOMAIN raws : {raws[n].quote_a, raws[n].quote_b} \subseteq Quotes \cup {None}

VARIABLES
    audit,      \* audit.json: None, Truncated, or [analyses, skipped]
    batch,      \* the batch that is running
    batches,    \* the batches so far
    review,     \* the file of the reviewer: None, or a map from identifiers to decisions
    published,  \* the findings of the latest report, or None
    taken,      \* history: the references that the latest batch to write was given
    vetted      \* history: the identifiers the reviewer has ever said « keep » of

auditVars == <<audit, batch, batches, review, published, taken, vetted>>

-----------------------------------------------------------------------------
(* service.py                                                              *)

\* What the two passes give: only when both fail is the dossier in error.
\* `heard`, history, is not in the file.
DossierAnalysis(reference, quantitative, textual) ==
    LET Parsed(output) == IF output = None THEN <<>> ELSE ParseAnalysis(output)
        grounded == KeepGrounded(Parsed(quantitative) \o Parsed(textual))
        error == quantitative = None /\ textual = None
    IN [reference |-> reference, findings |-> Deduplicate(grounded), heard |-> grounded, error |-> error]

\* A dossier that made the code around it raise, and one whose passes all failed, look alike.
Analyses(reference) == {DossierAnalysis(reference, q, t) : q \in Said \cup {None}, t \in Said \cup {None}}

-----------------------------------------------------------------------------
(* ingestion.py                                                            *)

\* Dossiers that can be analysed, in order; the others are skipped with their reason.
LoadLot == Only(Lot, {d \in ToSet(Lot) : d.narrative = "readable"})
Skipped == {[reference |-> Lot[i].reference, reason |-> Lot[i].narrative] : i \in {i \in DOMAIN Lot : Lot[i].narrative # "readable"}}

-----------------------------------------------------------------------------
(* run_batch.py                                                            *)

NoBatch == [stage |-> "idle", previous |-> {}, todo |-> <<>>, fresh |-> <<>>, chosen |-> {}]
Readable(file) == file # None /\ file # Truncated

\* The analyses without an error, the last one of a reference.
LoadPrevious(file) ==
    IF ~ Readable(file) THEN {}
    ELSE {file.analyses[i] : i \in {i \in DOMAIN file.analyses : ~ file.analyses[i].error /\
            \A j \in DOMAIN file.analyses : file.analyses[j].reference = file.analyses[i].reference /\ ~ file.analyses[j].error => j <= i}}

\* Mutant: what is in the file already, failures included, is not analysed again.
PendingNew(previous, dossiers, file) ==
    Only(dossiers, {d \in ToSet(dossiers) :
        ~ Readable(file) \/ \A i \in DOMAIN file.analyses : file.analyses[i].reference # d.reference})
Pending(previous, dossiers, file) ==
    Only(dossiers, {d \in ToSet(dossiers) : \A a \in previous : a.reference # d.reference})

StartBatch(limit, resume) ==
    LET dossiers == SubSeq(LoadLot, 1, IF limit < Len(LoadLot) THEN limit ELSE Len(LoadLot))
        previous == IF resume THEN LoadPrevious(audit) ELSE {}
        todo == IF resume THEN Pending(previous, dossiers, audit) ELSE dossiers
    IN
    /\ batch.stage = "idle" /\ batches < MaxBatches
    /\ ~ (todo = <<>> /\ previous = {})
    /\ batches' = batches + 1
    /\ batch' = [stage |-> "asking", previous |-> previous, todo |-> todo, fresh |-> [i \in DOMAIN todo |-> None],
                 chosen |-> {dossiers[i].reference : i \in DOMAIN dossiers}]
    /\ UNCHANGED <<audit, review, published, taken, vetted>>

\* gather: the dossiers end in any order, and their results are in the order of the lot.
AnalyzeDossier(i) ==
    /\ batch.stage = "asking" /\ i \in DOMAIN batch.todo /\ batch.fresh[i] = None
    /\ \E analysis \in Analyses(batch.todo[i].reference) : batch' = [batch EXCEPT !.fresh[i] = analysis]
    /\ UNCHANGED <<audit, batches, review, published, taken, vetted>>

\* write_text empties the file, then fills it.
OpenOutput ==
    /\ batch.stage = "asking" /\ \A i \in DOMAIN batch.todo : batch.fresh[i] # None
    /\ audit' = Truncated
    /\ batch' = [batch EXCEPT !.stage = "writing"]
    /\ UNCHANGED <<batches, review, published, taken, vetted>>

FinishBatch ==
    /\ batch.stage = "writing"
    /\ audit' = [analyses |-> SetToSeq(batch.previous) \o batch.fresh, skipped |-> Skipped]
    /\ taken' = batch.chosen
    /\ batch' = NoBatch
    /\ UNCHANGED <<batches, review, published, vetted>>

KillBatch ==
    /\ batch.stage # "idle"
    /\ batch' = NoBatch
    /\ UNCHANGED <<audit, batches, review, published, taken, vetted>>

-----------------------------------------------------------------------------
(* review.py, report.py and audit_cli.py                                   *)

FindingId(dossier, f) == <<dossier, f.type, f.quote_a, f.quote_b>>

\* The rows of an audit, as pairs of a reference and a finding.
AuditRows(file) ==
    UNION {{<<file.analyses[i].reference, file.analyses[i].findings[n]>> : n \in DOMAIN file.analyses[i].findings} :
            i \in DOMAIN file.analyses}
IdsOf(file) == {FindingId(row[1], row[2]) : row \in AuditRows(file)}

\* `review`: the file is written anew, every decision in it pending.
WriteReview ==
    /\ Readable(audit)
    /\ review' = [id \in IdsOf(audit) |-> "pending"]
    /\ UNCHANGED <<audit, batch, batches, published, taken, vetted>>

\* The reviewer, in his spreadsheet: a decision, or a row that is lost.
Decide(id) ==
    /\ review # None /\ id \in DOMAIN review
    /\ \E decision \in {"keep", "drop"} :
        /\ review' = [review EXCEPT ![id] = decision]
        /\ vetted' = IF decision = "keep" THEN vetted \cup {id} ELSE vetted
    /\ UNCHANGED <<audit, batch, batches, published, taken>>
LoseRow(id) ==
    /\ review # None /\ id \in DOMAIN review
    /\ review' = [other \in DOMAIN review \ {id} |-> review[other]]
    /\ UNCHANGED <<audit, batch, batches, published, taken, vetted>>

\* apply_decisions: a finding that is not in the file is pending.
\* Mutant: it is kept.
DecisionKeeping(id) == IF id \in DOMAIN review THEN review[id] ELSE "keep"
Decision(id) == IF id \in DOMAIN review THEN review[id] ELSE "pending"
EnsurePublishable(file) == \A row \in AuditRows(file) : Decision(FindingId(row[1], row[2])) # "pending"
KeptFindings(file) == {row \in AuditRows(file) : Decision(FindingId(row[1], row[2])) = "keep"}

\* `report`: raises before it writes anything when a finding is pending.
Publish ==
    /\ Readable(audit) /\ review # None
    /\ EnsurePublishable(audit)
    /\ published' = KeptFindings(audit)
    /\ UNCHANGED <<audit, batch, batches, review, taken, vetted>>

-----------------------------------------------------------------------------

AuditInit ==
    /\ audit = None /\ batch = NoBatch /\ batches = 0
    /\ review = None /\ published = None
    /\ taken = {} /\ vetted = {}

Operator ==
    \/ \E limit \in Limits, resume \in BOOLEAN : StartBatch(limit, resume)
    \/ \E i \in 1..Len(Lot) : AnalyzeDossier(i)
    \/ OpenOutput \/ FinishBatch \/ KillBatch

Reviewer ==
    \/ WriteReview
    \/ review # None /\ \E id \in DOMAIN review : Decide(id) \/ LoseRow(id)
    \/ Publish

AuditNext == Operator \/ Reviewer
AuditSpec == AuditInit /\ [][AuditNext]_auditVars

-----------------------------------------------------------------------------

\* The types of the two files and of the batch.
AuditTypeOK ==
    /\ Readable(audit) => audit.skipped = Skipped
    /\ batch.stage \in {"idle", "asking", "writing"} /\ Len(batch.fresh) = Len(batch.todo)
    /\ batches \in 0..MaxBatches
    /\ review # None => \A id \in DOMAIN review : review[id] \in {"pending", "keep", "drop"}

Accounted(analysis, f) ==
    \E n \in DOMAIN analysis.findings : LET k == analysis.findings[n] IN
        f.type \in k.merged_types \cup {k.type} /\ f.severity <= k.severity

\* « Rien ne disparaît en silence »: an audit has every dossier the batch was given, once;
\* and a verified contradiction of an analysed dossier is in a finding of its type, or that
\* names its type among the merged ones, with at least its severity.
AuditIsComplete ==
    Readable(audit) =>
        /\ \A r \in taken : Cardinality({i \in DOMAIN audit.analyses : audit.analyses[i].reference = r}) = 1
        /\ \A i \in DOMAIN audit.analyses : \A n \in DOMAIN audit.analyses[i].heard :
            Accounted(audit.analyses[i], audit.analyses[i].heard[n])

\* « rien ne se publie tant qu'un constat reste pending »: whatever batches, exports and
\* lost rows came between, a finding of the report is one the reviewer said « keep » of.
NothingUnseen == published # None => \A row \in published : FindingId(row[1], row[2]) \in vetted

\* What reaches the client is all of what was found, and nothing nobody has vetted.
AuditIsSound == AuditIsComplete /\ NothingUnseen
=============================================================================
