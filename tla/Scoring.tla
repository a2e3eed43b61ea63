------------------------------ MODULE Scoring ------------------------------
(***************************************************************************)
(* The scores of a project (app/scoring): the grid that is active, the     *)
(* passes of the LLM and their consensus (app/diagnostics/handlers.py),    *)
(* the scores that an analyst sets (app/reports/edit_service.py), and what *)
(* the memory of the project keeps of them.                                *)
(*                                                                         *)
(* A scoring reads the active grid (LoadGrid), prompts the passes with it  *)
(* and, minutes later, stores their consensus (StoreScore).  The           *)
(* activation of a grid and an adjustment are transactions in two steps;   *)
(* a bulk UPDATE locks the rows that it changes until the commit.          *)
(***************************************************************************)
EXTENDS ProjectMemory

CONSTANTS
    Grids,          \* [version -> grid]
    Category,       \* the sector of the project
    PassResults,    \* what one pass can return
    HumanScores,    \* what an analyst can send
    Admins,         \* the calls of activate_grid
    Scorings,       \* the scoring jobs
    Adjusts,        \* the calls of adjust_scores
    MaxRuns,        \* bound: rows of score_runs
    InTurn          \* does no adjustment overlap another one, or the end of a scoring?

Versions == DOMAIN Grids
N_PASSES == 3

\* A grid has axes, with a question and a positive weight for each; the contradictions fall on
\* axes that each grid has (constants.py, contradictions.py).
ASSUME GridAssumption ==
    \A v \in Versions : LET grid == Grids[v] IN
        /\ grid.scale \in Nat \ {0}
        /\ Len(grid.axes) \in Nat \ {0} /\ DOMAIN grid.axes = 1..Len(grid.axes)
        /\ \A i \in DOMAIN grid.axes : grid.axes[i].question
        /\ \A k \in Keys(grid) : Weight(grid, Category, k) \in Nat \ {0}
        /\ \A d \in Findings : DIMENSION_BY_TYPE[d] \in Keys(grid)

VARIABLES
    grids,       \* the versions that are active
    activation,  \* [Admins -> what a call of activate_grid has done]
    scoring,     \* [Scorings -> the version that was loaded; None before, "stored" after]
    adjust,      \* [Adjusts -> the run and the states to be written, or None]
    runs         \* the rows of score_runs, in the order of their creation

scoringVars == <<memoryVars, grids, activation, scoring, adjust, runs>>

NoActivation == [version |-> None, cleared |-> {}, stage |-> "none"]
NoAdjust == [run |-> NoRun, projections |-> <<>>]

ScoringInit ==
    /\ MemoryInit
    /\ \E v \in Versions : grids = {v}
    /\ activation = [a \in Admins |-> NoActivation]
    /\ scoring = [s \in Scorings |-> None]
    /\ adjust = [a \in Adjusts |-> NoAdjust]
    /\ runs = <<>>

\* The types of the grids, of the runs and of what the calls hold.
ScoringTypeOK ==
    /\ MemoryTypeOK
    /\ grids \subseteq Versions
    /\ \A a \in Admins : activation[a] # NoActivation =>
        activation[a].version \in Versions /\ activation[a].cleared \subseteq Versions
    /\ scoring \in [Scorings -> Versions \cup {None, "stored"}]
    /\ \A r \in DOMAIN runs : runs[r].grid_version \in Versions /\ runs[r].confidence \in 0..1000
    /\ \A d \in DOMAIN state : state[d].confidence \in 0..1000 /\ state[d].evidence_state \in EvidenceState

LatestRun == IF runs = <<>> THEN NoRun ELSE runs[Len(runs)]

-----------------------------------------------------------------------------
(* activate_grid                                                           *)

Prompting(s) == scoring[s] \in Versions

\* UPDATE ... SET is_active = false WHERE is_active: the statement has taken its snapshot.
ClearActive(a, v) ==
    /\ activation[a] = NoActivation
    /\ activation' = [activation EXCEPT ![a] = [version |-> v, cleared |-> grids, stage |-> "waiting"]]
    /\ UNCHANGED <<memoryVars, grids, scoring, adjust, runs>>

\* It has the locks; a row that another commit has cleared meanwhile is skipped.
HoldLocks(a) ==
    /\ activation[a].stage = "waiting"
    /\ \A b \in Admins \ {a} : activation[b].stage = "holding" => activation[b].cleared \cap activation[a].cleared = {}
    /\ activation' = [activation EXCEPT ![a] = [@ EXCEPT !.cleared = @ \cap grids, !.stage = "holding"]]
    /\ UNCHANGED <<memoryVars, grids, scoring, adjust, runs>>

\* Mutant: a grid that was active when it was loaded is not marked as changed.
SetActiveIfNew(version, cleared) == (grids \ cleared) \cup ({version} \ cleared)
SetActive(version, cleared) == (grids \ cleared) \cup {version}

CommitActivation(a) ==
    /\ activation[a].stage = "holding"
    /\ \A b \in Admins \ {a} : activation[b].stage = "holding" => activation[a].version \notin activation[b].cleared
    /\ grids' = SetActive(activation[a].version, activation[a].cleared)
    /\ activation' = [activation EXCEPT ![a] = NoActivation]
    /\ UNCHANGED <<memoryVars, scoring, adjust, runs>>

\* The connection is lost, or the transaction is the victim of a deadlock.
AbortActivation(a) ==
    /\ activation[a] # NoActivation
    /\ activation' = [activation EXCEPT ![a] = NoActivation]
    /\ UNCHANGED <<memoryVars, grids, scoring, adjust, runs>>

-----------------------------------------------------------------------------
(* The scoring job.                                                        *)

LoadGrid(s) ==
    /\ scoring[s] = None /\ Len(runs) < MaxRuns
    /\ \E v \in grids : scoring' = [scoring EXCEPT ![s] = v]
    /\ UNCHANGED <<memoryVars, grids, activation, adjust, runs>>

\* build_score and build_consensus_score resolve a version, or take an active grid.
ResolveGrid(version) == IF version = None THEN grids ELSE {version}

\* The row of score_runs.
ScoreRun(version, axes, source, passes, cons) ==
    [grid_version |-> version, axes |-> axes, source |-> source, passes |-> passes,
     pillars |-> PillarScores(Grids[version], axes),
     overall |-> WeightedOverall(Grids[version], Category, axes),
     spread |-> cons.spread, confidence |-> cons.confidence, needs_review |-> cons.needs_review]

BuildConsensusScore(kept) ==
    {ScoreRun(v, Consensus(Grids[v], kept).axes, "llm", kept, Consensus(Grids[v], kept)) :
        v \in {w \in ResolveGrid(None) : Consensual(Grids[w], kept)
                   /\ ValidAxes(Grids[w], Consensus(Grids[w], kept).axes)}}

\* Mutant: the dimensions are projected before the findings are written.
StoreStateEarly(prompted, run, found) == Upserted(Project(Grids[prompted], run, memory))
StoreState(prompted, run, found) == Upserted(Project(Grids[prompted], run, PersistFindings(found)))

\* What N_PASSES passes leave: those that failed are left out.
Returned == SeqOf(PassResults, N_PASSES)

\* The run, the findings and then the dimensions are written in one transaction.
StoreScore(s) ==
    /\ Prompting(s) /\ Len(runs) < MaxRuns
    /\ InTurn => \A a \in Adjusts : adjust[a] = NoAdjust
    /\ \E kept \in Returned, found \in SUBSET Findings :
        \E run \in BuildConsensusScore(kept) :
            /\ runs' = Append(runs, run)
            /\ memory' = PersistFindings(found)
            /\ state' = StoreState(scoring[s], run, found)
    /\ scoring' = [scoring EXCEPT ![s] = "stored"]
    /\ UNCHANGED <<add, contested, grids, activation, adjust>>

\* The passes are refused, or a crash: the job will be claimed again.
FailScore(s) ==
    /\ Prompting(s)
    /\ scoring' = [scoring EXCEPT ![s] = None]
    /\ UNCHANGED <<memoryVars, grids, activation, adjust, runs>>

-----------------------------------------------------------------------------
(* adjust_scores                                                           *)

NoConsensus == [spread |-> <<>>, confidence |-> 0, needs_review |-> FALSE]

BuildScore(a) ==
    /\ adjust[a] = NoAdjust /\ Len(runs) < MaxRuns
    /\ InTurn => \A b \in Adjusts : adjust[b] = NoAdjust
    /\ \E axes \in HumanScores, version \in Versions \cup {None} : \E v \in ResolveGrid(version) :
        /\ ValidAxes(Grids[v], axes)
        /\ LET run == ScoreRun(v, axes, "human", <<>>, NoConsensus) IN
            adjust' = [adjust EXCEPT ![a] = [run |-> run, projections |-> Project(Grids[v], run, memory)]]
    /\ UNCHANGED <<memoryVars, grids, activation, scoring, runs>>

AdjustScores(a) ==
    /\ adjust[a] # NoAdjust /\ Len(runs) < MaxRuns
    /\ runs' = Append(runs, adjust[a].run)
    /\ state' = Upserted(adjust[a].projections)
    /\ adjust' = [adjust EXCEPT ![a] = NoAdjust]
    /\ UNCHANGED <<memory, add, contested, grids, activation, scoring>>

Activate(a) == (\E v \in Versions : ClearActive(a, v)) \/ HoldLocks(a) \/ CommitActivation(a) \/ AbortActivation(a)
GridNext == \E a \in Admins : Activate(a)
RunNext ==
    \/ \E s \in Scorings : LoadGrid(s) \/ StoreScore(s) \/ FailScore(s)
    \/ \E a \in Adjusts : BuildScore(a) \/ AdjustScores(a)
ScoringNext == GridNext \/ RunNext \/ (MemoryNext /\ UNCHANGED <<grids, activation, scoring, adjust, runs>>)
ScoringSpec == ScoringInit /\ [][ScoringNext]_scoringVars

\* The evaluation that the owner reads: the latest run, with its own grid.
Evaluation ==
    LET version == IF LatestRun # NoRun THEN LatestRun.grid_version ELSE CHOOSE v \in grids : TRUE IN
    Project(Grids[version], LatestRun, memory)
-----------------------------------------------------------------------------

LLMRuns == {r \in DOMAIN runs : runs[r].source = "llm"}

\* A score that is not sent to a human was agreed on by three passes, and its confidence says so.
TrustIsEarned ==
    \A r \in LLMRuns : LET run == runs[r]  scale == Grids[run.grid_version].scale IN ~ run.needs_review =>
        /\ Len(run.passes) >= 3 /\ run.confidence >= MinConfidence
        /\ \A k \in DOMAIN run.axes, i, j \in DOMAIN run.passes : 5 * (run.passes[i][k] - run.passes[j][k]) <= scale

\* One pass of three cannot pull a score out of what the other two say.
OnePassCannotPull ==
    \A r \in LLMRuns : LET run == runs[r] IN Len(run.passes) = 3 =>
        \A k \in DOMAIN run.axes, i, j \in 1..3 : i # j =>
            /\ run.axes[k] >= Min({run.passes[i][k], run.passes[j][k]})
            /\ run.axes[k] <= Max({run.passes[i][k], run.passes[j][k]})

\* The weights of a category move the score within the scores of the axes.
OverallIsAnAverage ==
    \A r \in DOMAIN runs : LET scores == {runs[r].axes[k] : k \in DOMAIN runs[r].axes} IN
        Min(scores) <= runs[r].overall /\ runs[r].overall <= Max(scores)

\* A founder who works on an axis that he is advised never loses by it: neither his overall
\* score, after the weights and the rounding, nor his level (derive_next_actions).
WorkPays ==
    \A r \in DOMAIN runs : LET run == runs[r]  grid == Grids[run.grid_version]
                                advice == NextActions(grid, Category, run.axes) IN
        \A n \in DOMAIN advice : \A better \in (run.axes[advice[n].key] + 1)..grid.scale :
            LET after == WeightedOverall(grid, Category, [run.axes EXCEPT ![advice[n].key] = better]) IN
            after >= run.overall /\ MaturityLevel(10 * after) >= MaturityLevel(10 * run.overall)

\* What a consensus of imperfect passes is worth: build_consensus_score, ensemble.py, engine.py.
ConsensusIsRobust == TrustIsEarned /\ OnePassCannotPull /\ OverallIsAnAverage /\ WorkPays

\* get_active never comes back empty, whatever activations overlap (activate_grid).
SomeGridActive == grids # {}

\* The contradictions that a scoring found lower the confidence of their dimension in the state
\* that this scoring stored, unless the founder replaced them (persist_findings comes before
\* the projection, handlers.py).
ContradictionsReachTheRadar ==
    \A x \in Items : memory[x].item_type = "contradiction" /\ Active(x) /\ memory[x].dimension \in DOMAIN state =>
        /\ \E c \in state[memory[x].dimension].contradictions : c.key = memory[x].key
        /\ state[memory[x].dimension].confidence <= CONTRADICTION_CONFIDENCE_CAP

\* The founder is asked about what the analysis found contradictory, unless three dimensions
\* are asked about before it (get_evaluation, select_adaptive_questions).
ContradictionsAreAsked ==
    LET asked == AdaptiveQuestions(Evaluation) IN
    \A x \in Items : memory[x].item_type = "contradiction" /\ Active(x) /\ memory[x].dimension \in DOMAIN Evaluation =>
        memory[x].dimension \in asked \/ Cardinality(asked) >= 3

\* What the memory of a project is for: nothing is lost or counted twice, a fact is replaced twice
\* only by calls that overlap, and what the analysis found contradictory is shown and asked about.
MemoryIsSound == MemoryIsConsistent /\ ContradictionsReachTheRadar /\ ContradictionsAreAsked
=============================================================================
