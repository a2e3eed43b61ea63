# Ideaxion back end — TLA+ models

Ideaxion takes a founder's idea, scores it with several passes of a language model, publishes
a report (« bilan »), and then accompanies the founder: curation, mentors, academy, pitch
rehearsals. The code is a FastAPI application (`app/`), PostgreSQL, Redis, an object storage,
and workers that drain a job queue kept in PostgreSQL.

This directory holds the TLA+ modules of the parts where order matters, the configurations
that TLC checks, and the theorems that TLAPS proves.

    tlc -config JobQueueCalm.cfg MCJobQueue        one run (PROJECT.json lists them all)
    tlapm JobQueueProofs.tla                       the proofs of one module

## 1. Inventory

`PROJECT.json` lists every component with its files. Those that keep state and have behaviour
worth checking:

| Component | State | Operations | Hard because | What makes it correct |
|---|---|---|---|---|
| Job queue (`app/jobs`) | one row per job: status, retry_count, scheduled_at, heartbeat_at | enqueue, claim (SKIP LOCKED), heartbeat, recover_stale, complete / retry / fail, manual retry | several workers, leases, crashes, acknowledgements written by primary key | one holder per job; bounded attempts; a verdict is final; every job settles |
| Worker (`app/worker.py`) | the job it holds, its heartbeat task | the polling loop, `_process`, the terminal hook | dies anywhere; two transactions between a failure and its hook | no job is orphaned; every failure is shown |
| Diagnostic pipeline (`app/diagnostics`) | project status, report, PDF; a handler's loaded rows | start, phase 1 (score), phase 2 (report, PDF), clean-up | minutes between read and write; re-runs after a partial success | project and report agree; one scoring is shown; the state machine of the project |
| Project curation (`app/projects`) | review_status | transition_review | read and write are not one statement; the handler writes too | the review machine |
| Reports (`app/reports`) | status, radar, text, PDF key | publish, adjust_scores, edit_report | analysts act at any time | what an analyst sets on a published report stays |
| Pitch rehearsal (`app/pitchsim`) | phase, status, `orch` (JSON), turns, runs | start, narrate, end, respond, deliberate, abandon | whole-JSON writes, LLM calls under a row lock, double clicks | the phase machine; no question twice; a timeline that can be replayed; a run for each completed session |
| Accounts (`app/iam`) | users, refresh tokens, OAuth state in Redis, invitations | register, login, refresh, logout, OAuth | rotation races, replays, suspension between two requests | a consumed token gives no session; a replay ends them all |
| Mentors (`app/mentors`) | applications, accounts, invitations, requests | apply, approve, reject, accept, request, respond, plan, complete, cancel, suspend | read-check-write in every transition | the tables agree; nobody is invited twice; a suspended mentor is hidden; a session that is planned has a date |
| Academy (`app/academy`) | guided sessions (transcript, form, sheets), measures, links | start, turn, prefill, save, generate, rescore, share | LLM calls between read and write; repeated commands | no lost message; phases and form agree; each measure starts from the one before |
| Scoring (`app/scoring`) | versioned grids, score runs, the radar of a report | consensus, weighting, advice, activation of a grid, correction by an analyst | medians, relative tolerance, rounding to even, a grid that changes under a scoring, two activations | one pass cannot pull a consensus; a human looks when passes disagree; work pays; some grid is active |
| Scoring benches (`app/scoring/*_bench.py`) | temperatures of providers, counters, aggregates | a sweep of temperatures; a corpus against variants of a prompt | calls that fail, run together and end in any order | an aggregate is of one temperature and of cases that were measured; calls are counted |
| Project memory (`app/project_memory`) | facts with a deduplication key, projections | add, supersede, deactivate, persist findings, project, ask | supersession read and write; duplicates; scorings that overlap | one active fact per key; contradictions reach the radar and the questions |
| Sharing, documents, GDPR | links, rows with their objects, cascades | share, revoke, view, upload, confirm, delete, erase | database and storage in two steps | no view is lost; an erasure reaches the files |
| Resilience (`app/core`, `app/llm`) | circuits, the calls in a chain, counters of the limiter | retry, fail over, count, expire | half-open circuits, calls that share them, two-call counters, Redis failing | a call ends, and is given up only when all providers failed; the limit holds; a counter has an end |
| Inconsistency audits (`app/inconsistencies`) | a JSON audit, a CSV of decisions | analyse, resume, deduplicate, review, publish | batches that are killed and resumed; files written anew | nothing disappears in silence; nothing is published unseen |
| Deck editor and studio (`app/pitch`, `app/studio`) | sections, slides; a concept and a lot | save, generate, edit, delete, reorder, choose | LLM calls between read and write; several tabs | a section is what was last saved; the slides are those of one deck; a lot has its four angles |
| A founder's journey (`app/reports`, `app/opportunities`, `app/instrumentation`, rights of `app/iam`) | accounts, grants, tokens, assignment, catalogue, events | every route of the reports and the opportunities | rights that change while a call is served; two administrators on a row | a call acts with the rights it came in with; the funnel starts with the founder; progress opens doors |

How they interact. A request of a founder writes the project, the report and the job in one
commit; the worker's handler then owns the project's `diagnostic_status` and the report, while
analysts own `review_status` and may change the report's contents: they share rows and no
lock. Everything else talks through rows too (a session of pitch reads the project's earlier
sessions, the academy reads the latest radar, an opportunity reads the latest report), and through Redis for OAuth and rate limits.
Nothing is sent by message: the hard behaviours are interleavings of transactions that read,
wait (for a model, mostly) and write, and the death of a process between two of them.

The hazards of this code, each at its line and with the properties that would show it going
wrong, are listed in `PROJECT.json`.

## 2. Modules

    JobLifecycle            what the queue promises: status, attempts, one owner
      ^ implemented by (calm environments)
    JobQueue                the table, the leases, the loop of the workers
      ^ extended by
    DiagnosticPipeline      the handler, the clean-up, the analysts, on that queue

    PitchSession            a rehearsal, its requests and their transactions
    Accounts                the sessions of one user, their tokens and transactions

    Persistence             what a commit writes          Rounding      round(), median()
      ^                                                     ^
    Mentorship  ProjectVault  Workbench  Journey          Radar         grid, consensus, weights
    Academy (with Rounding)                                 ^
    ProjectMemory (with Radar)  <-  Scoring               Bench (with Dedup)
    Dedup  <-  Audit
    Resilience
    People (Accounts, Mentorship and Academy, interleaved)
    Projects (Scoring, ProjectVault, Audit, Workbench, Bench and Journey, interleaved)

    JobQueueProofs <- DiagnosticPipelineProofs
    FoldLemmas <- WaitingProofs (PitchSession, Resilience)
               <- PeopleProofs (Accounts, Mentorship, Academy, and their types together)
               <- WorkspaceProofs (Journey, Workbench, ProjectVault)
               <- AnalysisProofs (Audit, Scoring with its memory)
               <- BenchProofs (Bench, and the types of the components of Projects together)

| Module | Models |
|---|---|
| `JobQueue` | `app/jobs/*`, `app/worker.py` |
| `JobLifecycle` | the life cycle in the docstring of `app/jobs/service.py` |
| `JobQueueRefinement` | the refinement mapping between the two |
| `DiagnosticPipeline` | `app/diagnostics/service.py`, `handlers.py`, `app/projects/state_service.py`, `service.py`, `app/reports/edit_service.py`, `repository.py` |
| `PitchSession` | `app/pitchsim/service.py`, `orchestrator.py` |
| `Accounts` | `app/iam/service.py`, `repository.py`, `oauth_service.py`; `accept_invitation` and `set_mentor_status` of `app/mentors/service.py` |
| `Persistence` | the unit of work of `app/core/database.py`: a column is written when it differs from what was loaded |
| `Mentorship` | `app/mentors/*`, `app/iam/invitations.py` |
| `Academy` | `app/academy/*` |
| `People` | the three above side by side, in any interleaving |
| `Rounding`, `Radar` | `round()` and `median()`; `app/scoring/constants.py`, `ensemble.py`, `engine.py`, `actions.py`, `app/project_memory/evaluation.py` |
| `ProjectMemory` | `app/project_memory/*`, `app/projects/owner_service.py` |
| `Scoring` | `app/scoring/service.py`, `governance.py`, what `app/diagnostics/handlers.py` stores, `adjust_scores` |
| `ProjectVault` | `app/documents/*`, `app/sharing/*`, `app/gdpr/service.py`, `app/core/storage.py` |
| `Resilience` | `app/core/resilience.py`, `ratelimit.py`, `app/llm/fallback.py`, `openai_compatible.py` |
| `Dedup`, `Audit` | `app/inconsistencies/*` |
| `Workbench` | `app/pitch/*`, `app/studio/*` |
| `Bench` | `app/scoring/exception_bench.py`, `contradiction_bench.py` |
| `Journey` | `app/reports/*`, `app/opportunities/*`, `app/instrumentation/service.py`, `app/iam/dependencies.py`, `permissions.py` |
| `Projects` | the six components around a project side by side, in any interleaving |
| `MC…` | instances for TLC: priorities, delays, committees, symmetry; `MCWaiting`, `MCPeople` and `MCProjects` join components in scenes |
| `…Proofs`, `FoldLemmas` | theorems |

Definitions named as mutants (`\* Mutant: …`) are plausible bugs: each stands next to the
definition it would replace, and each property of a passing run is violated when one of them
does. They are no part of the specifications.

### JobQueue

A job is its row; `"ABSENT"` is an idempotency key without a row. A worker is `pc` (where it is
in `run()`), `held`, `seen` (the `retry_count` of the row as it was read at the claim, which the
acknowledgement writes back plus one), `beating` (its heartbeat task lives) and `cleaning` (the
terminal hooks it has still to call). One action per statement that commits: `claim_one` is one
step because of `FOR UPDATE SKIP LOCKED`; `recover_stale` is one transaction for all stale jobs;
the three acknowledgements write by primary key and ask nothing about the row, as the code does.

Time is a `Tick`. `due` and `age` are relative, so no clock grows. A tick is minutes long: no
acknowledgement lasts one, and a live heartbeat is never late by one. `claims` counts the claims
since the job was last put in the queue; it is the only variable the code does not have.

`Calm` names the environments in which a lease is lost only with its worker: the heartbeat task
does not die before its handler (`MaxHeartbeatDeaths = 0`), and nobody retries by hand a job that
is being processed (`"PROCESSING" \notin RequeueFrom`; the endpoint itself checks no status).
Both happen outside it: one database error ends `_heartbeat` silently (`worker.py:73`), and the
endpoint accepts any status.

### DiagnosticPipeline

One project, report and job per diagnostic, indexed by the job. `run[w]` is what the handler of
worker `w` loaded; `Flushed(loaded, new, row)` is what the ORM writes at a commit: attributes that
differ from what was loaded, and no others. `Finish` and `TerminalHook` of `JobQueue` are conjoined
with what the handler or the clean-up does, so each step is a step of the queue or leaves it alone
(this is proved). The phases: `LoadProject`, `LoadReport` (two SELECTs), `Score` (phase 1's commit),
`StorePdf`, `Publish` (phase 2's commit), `Raise` from anywhere. The results of the LLM are members
of `Scores`; a text or a PDF is identified by the score it was written from, which is what the
property `OneScoringShown` compares. `AdjustScores` and `EditReport` look at no status.

### PitchSession

`tx[r]` is what request `r` loaded; a request is `Load`, then its commit. `orch` is written as one
value, as the JSON column is. `deliberate` has three steps: it writes its phase (from then on it
holds the lock of the row), the LLM answers or fails, and the commit or the rollback. Requests that
the code refuses change nothing and are not modelled; a `respond` on a session whose `orch` lost the
keys of the Q&A raises `KeyError` and is refused as well. The row and the number of its turns are
read in one step, although they are two SELECTs. Angles are picked from the fresh ones by any choice,
where the code hashes the session and the rank of the question.

### Accounts

One user: a founder who is not registered yet, or a mentor who was approved and invited (only the
latter can be suspended). `token[t]` is the committed state of row `t` of `refresh_tokens`; `chain[t]`
is the login it descends from, which the code does not record. `req[r]` is a request and how far its
transaction is: `refresh` holds the lock of the row it consumed until its commit (`Issue`) or its
rollback (a refusal in `CheckStatus`, an abort in `Lose`); `revoke_all_for_user` is a SELECT
(`LoadActive`) and its UPDATEs (`RevokeAll`), which wait for such locks; `logout` likewise. A device keeps
the last token that an answer brought it (`held`) and sends it, perhaps twice. The code of the OAuth
sign-in is taken out of Redis at once and is not put back if the transaction fails. Refused requests end.
An answer that is lost, a request that is aborted and one that is sent while another of the same device
is open count as `faults`. A request is sent only while a row is left for it (`MaxTokens`).

### The services that load, wait and commit

`Mentorship`, `Academy`, `ProjectVault`, `Workbench`, `Journey`, `ProjectMemory` and `Scoring` have one
shape. A call (`call`, `visit`, `request`, `tab`, `serving`…) opens with what it reads and the checks it
makes of it; it commits later, with `Column(loaded, new, row)` for each column that it assigns, whatever
other calls did meanwhile. An operation that the code serves in several transactions, or between calls to
the storage, has a step for each. The text of an answer of the LLM is one of a few members of a set,
among them the refusals and the answers that cannot be read.

Some properties hold only when an operation is served one at a time: the code has no lock there. The
constants `OneAtATime` (Academy), `Serial` (Workbench) and `InTurn` (Scoring) name those operations and nothing
else is serialised; what happens without them is in section 5. Where an overlap or an answer breaks a promise for
one row only, nothing is serialised either: a history variable collects the rows it has happened to (`crossed`,
`nulled` and `contested` below), and the property is about all the others.

- **Mentorship.** An email has at most one account, by its unique index; `mentor` is the status of the user
  and `listed` that of his profile, which `set_mentor_status` and the mentor's own PATCH of his profile
  (`update_my_profile`) read one after the other (`ReadProfile`) and write later. `crossed` collects the mentors of
  whom two such calls were open at once.
- **Academy.** A module is its row: phase, transcript, form, sheets, measure. `RescoreAxis` takes its
  baseline from the measure before, or from the report. A prefill that the model answers with `null` opens the form
  and leaves none; `nulled` collects the sessions it has happened to.
- **Radar, Rounding.** Pure functions. `Consensus` is the median of the passes rounded to even, with the
  spread that decides who looks at it; a weighted overall is a rational, kept as a numerator and a
  denominator. `ValidGrid` is `validate_grid`, and TLC evaluates it on the twelve axes of the real grid
  (`RadarV2`) in an ASSUME of `MCProjects`.
- **ProjectMemory, Scoring.** The facts of a project are rows with their deduplication key and their successor. A
  founder's addition reads what it replaces in one step and commits in another, and two additions may overlap:
  `contested` collects the facts that two of them were about to replace. A scoring reads its grid for the prompts and
  again when it resolves the scores; the activation of a grid is two UPDATEs, the first of which locks the rows.
  `runs` is the history that `ScoreRun` keeps.
- **ProjectVault.** `bucket` is the storage; `Reliable = FALSE` lets any call to it fail and any process die
  between two steps. `excused` collects the objects that the erasure could not know or remove, so that the
  property is about all the others.
- **Resilience.** `breaker[p]` is the circuit of a provider, `call[c]` the place of a call in the chain; a
  success of an old call closes a circuit that opened meanwhile, as in the code. `INCR` and `EXPIRE` are two
  steps; `reliable` is chosen once.
- **Dedup, Audit.** A quote is a model value with what the code can tell of it: is it in the narrative, does
  it begin another one. An identifier, a hash in the code, is what it is the hash of.
- **Workbench.** A slide carries the deck it was made for, which the code does not record.
- **Bench.** The prompts of a run are answered in any order behind the semaphore; a provider under a fallback
  has the temperature that `_set_temperature` reached.
- **Journey.** `came` and `assignees` are history: what was true when the call came in, and whom the project was
  assigned to while it was served.

## 3. What is checked

| Run | Bounds | Shows |
|---|---|---|
| `queue_calm` | 2 workers, 3 jobs (one of an unknown type, one more urgent), 1 retry, 2 crashes, 1 manual retry | `CalmInv`, `LeasesAndRetries`, `VerdictIsFinal`, and that the queue implements `JobLifecycle` |
| `queue_storm` | 2 workers, a lost heartbeat, a crash, a manual retry from any status; fair | every job settles, those whose holder is gone included |
| `pipeline` | 1 diagnostic, 2 workers, 2 results, 1 retry, 2 crashes, 1 manual retry, 2 edits, a curator, clean-ups that fail | project, report and PDF agree (`PublicationAgrees`), FAILED hides no radar and nothing dangles (`RadarIsShown`), what was published and refined stays (`PublicationLasts`), the diagnostic machine |
| `pipeline_liveness` | a lost heartbeat and a manual retry, no crash; fair | every diagnostic ends READY or FAILED, a failed job has no PENDING report |
| `people` | three scenes: 2 devices, 2 requests at once, 1 OAuth code, 4 tokens, 1 fault; 1 candidate who applies twice, 2 calls at once, among them a suspension and a PATCH of the profile; 1 module, 2 tabs, 1 message at a time | a login never forks, an ended session stays ended, no rotation is taken for a theft unless something was lost or repeated; `MentorshipIsSound`; `FormMatchesPhase`, `CoachingIsSound` |
| `projects` | twelve scenes, below | one property for each component |
| `pitch_calm` | 2 sessions of a project, 2 judges on one axis of 3 angles, quota 2, 2 narrations, one request at a time on a session | the Q&A is fair (`QaIsFair`), its timeline can be replayed and is kept |
| `waiting` | three scenes, fair: 1 session with 2 requests at once; 2 callers of a chain of 2 providers, 4 calls; 2 requests at once of 3, with a limit of 1 | a completed session has its run, a run its verdicts, every request ends; circuits, failover and limits (`ResilienceIsSound`), every call ends |

Three runs join components that share no state in **scenes**: an execution chooses one at its start, plays
the steps of that component only and leaves the others as they began. The states are the sum and not the
product of those of the components, and nothing is lost since no step of one reads the other's variables: `People` and `Projects`
interleave them freely, and `PeopleRunApart` and `ProjectsRunApart` prove it of those modules.
`waiting` has the scenes `tabs`, `chain` and `limit`, `people` the scenes `sessions`, `mentors` and `academy`;
those of `projects`:

| Scene | Plays | Property |
|---|---|---|
| `grids` | two administrators activate two grids | `SomeGridActive` |
| `switch` | a scoring in two passes while the grid is switched | `ConsensusIsRobust` |
| `scores` | a scoring, a correction and an addition to the memory | `ConsensusIsRobust`, `MemoryIsSound` |
| `memory` | two additions to the memory at once | `MemoryIsSound` |
| `vault` | a document, a link, a PDF and an erasure, 2 calls at once, an unreliable storage | `VaultIsSound` |
| `audits` | a lot of three dossiers, two batches, kills, a reviewer | `AuditIsSound` |
| `workbench` | a deck of 2 sections and a logo, 2 tabs, 5 calls | `WorkbenchIsSound` |
| `exceptions` | two cases, two sweeps, a chain of two providers | `BenchIsSound` |
| `contradictions` | three command lines over two cases, a semaphore of 2 | `BenchIsSound` |
| `review` | a mentor edits while his assignment and his account change | `JourneyIsSound` |
| `funnel` | the founder and an admin read, act and show interest, two reports | `JourneyIsSound` |
| `catalogue` | two administrators on an opportunity | `JourneyIsSound` |

A property named after a component is a conjunction of named parts; each part has its comment and most
have a mutant of their own.

Four runs show where the code does not do what its documentation says; `PROJECT.json` (findings)
quotes the lines:

- `queue_zombie_verdict`: a worker that lost its lease takes a settled job out of its verdict;
- `pipeline_review_race`: the handler overwrites a curator's verdict with the status it read
  minutes before;
- `pipeline_crash_in_cleanup`: a crash between the failure of a job and its terminal hook leaves
  the report PENDING for ever;
- `pitch_abandon`: an abandoned session can be continued and completed.

Why the bounds are enough. The races of the queue need two holders of one job: two workers, and one
job for each kind of handling. One retry gives a first, a repeated and a last attempt; two crashes
let a recovery itself be interrupted. In the pipeline each diagnostic is independent of the others
but for the workers, so one diagnostic with two workers has every overlap of two attempts; two
results tell the scorings of two attempts apart. Leases and delays are one or two ticks: what counts
is on which side of a lease a recovery looks. In the rehearsals two judges share an axis whose angles
are too few for both quotas (as the committee « investisseur » and its fintech expert do), and a
second session makes the memory between sessions matter. Of the sessions, two tokens of
one login and a second login are what the sweep of a replay has to tell apart, and two requests are what
races for one row. In the other services a hazard needs two calls at once and one row: two calls, and one
row of each table, or two where rows are compared (two grids, two applications of one candidate, two
reports, three dossiers of which one is skipped). The scores given to the consensus are those on both sides
of its thresholds. All symmetries used are over workers, results, curators, angles, devices, requests, tabs
or texts that no liveness property of the run tells apart.

### Fairness

Assumed: every step of a worker's loop that stays possible is taken (it is an asyncio loop with nothing
else to wait for), handlers end (each LLM call has a timeout, and their number is bounded), time
passes, and the terminal hook returns. Not assumed: anything of founders, administrators, analysts or
crashes. In `PitchSession` each request is carried to its end with strong fairness: a request that waits
for the lock of a row gets it in its turn, as PostgreSQL queues the waiters, and the deliberation in front
of it ends because its LLM calls do.

## 4. What is proved

TLAPS proves the following for any number of jobs and workers, any retries, leases, delays and bounds
(the assumptions are the named ASSUMEs of the modules).

`JobQueueProofs`
- `TypeCorrect`: the types, in every environment; in particular `retry_count <= max_retries`.
- `CalmCorrect`: `CalmInv` is inductive when `Calm`. The safety properties are not inductive alone:
  that no two workers hold one job follows only from what each of them remembers being still true of
  the table. `CalmInv` says it: a worker holds a job exactly inside `_process`, under a heartbeat
  while the handler runs (`LoopConsistent`); the row it holds is PROCESSING, with the counter it read
  and a lease younger than a heartbeat (`ClaimIsCurrent`), so `recover_stale` cannot take it and its
  acknowledgement writes what it believes to write; the counter accounts for the claims
  (`ClaimsCounted`).
- `MutualExclusion`, `RetriesBounded`, `LeaseIsSound`, `LeasesAndRetriesHold`, `VerdictsAreFinal`: its
  consequences.
- `QueueImplementsLifecycle`: with the owner of an attempt mapped to the worker whose loop holds it,
  every step of the queue is a step of `JobLifecycle` or a stutter.

`DiagnosticPipelineProofs`
- `PipelineRunsTheQueue`: the pipeline adds no behaviour to the queue (`PSpec => Spec`), so the
  theorems above hold in it; `DiagnosticRunsOnce` is the first of them.
- `PipelineTypeCorrect`: the types, in every environment, with `HoldsInProcess`: a handler has a run in memory
  only while its worker holds the job.
- `RowsAndMemoriesAgree`: `PublicationInv` is inductive when `Calm`, as long as a failed job is retried only after
  its clean-up (`RetriesWait`). That READY and BILAN_READY go together is not inductive: a commit writes what
  differs from what was loaded, so it must be said that what each handler loaded is still what the row holds, up to
  what analysts have changed (`Handling`), what a clean-up has in hand (the job whose failure it answers, `Run.job`)
  and what each status of the job allows of its rows (`RowAgrees`). `RetriesWait` is needed: a clean-up that is
  still under way when its job is retried by hand can publish or fail the report beside the new attempt.
- `PublicationIsConsistent`, `OneScoringIsShown`, `ProjectsFollowTheMachine`, `PublicationsLast`: its consequences.
- `RadarsAreShown`: where failed jobs are not retried `RetriesWait` holds by itself, and no report that is FAILED has
  a radar (`FailuresAgree`). With a retry it may have one: the report stays FAILED while phase 1 of the new attempt
  stores a radar (section 5).
- `FailuresAreShown`: any leases, lost heartbeats and retries; no crash, no edit and no clean-up that fails, the three
  ways in which the code does leave a report PENDING. `FailureInv` says who will still clean up after each failed job.

`WaitingProofs` (the rehearsals, the circuits and the limits)
- `PitchTypeCorrect`, `PitchCompletedHasRun`, `PitchRunsHaveVerdicts`: for any committee, any number of
  sessions and any requests that overlap and overwrite one another. The last two rest on `RunInv`, which
  adds that a session that is not created has no run; every step but two is `Quiet` (it adds no verdict, no
  run, and ends no session), and a deliberation adds as many verdicts as the committee has judges.
- `PitchPhaseMachine`, `PitchVerdictIsLast`, `PitchTimelineOrdered`, `PitchPostMortemKept`: under
  `Overlap = FALSE`. The invariant is
  `Alone`: what an open request has loaded is what the row still holds, its phase is one in which the
  operation is accepted, and no other request works on that session. Without it the check of the phase at the
  load would say nothing of the phase at the commit.
- `QuestionsAreFair`, `ConvictionsAreReplayed`: under `Overlap = FALSE`, for any committee, any quotas and any axes
  that judges share. `FairInv` relates the angles taken of an axis to the questions counted for the judges of that
  axis, one for one, and says all along that each judge who had the floor was treated (`Treated`: his quota was asked, or
  his axis has no angle left), which `NobodySkipped` says of the end only; `ReplayInv` relates the
  convictions in `orch` to the turns already in the timeline, although the two are written by different statements.
- `ResilienceHolds`: for any chain, callers, requests and limit. A call has tried exactly the providers before
  the one where it is (`Follows`), so that one that failed has tried them all. That no window lets in more than
  its limit is not inductive: between `INCR` and `EXPIRE` the first request of a window is counted and not yet
  let in. `LimitInv` counts it with those that were (`Pending`, `Total`), and says that there is at most one,
  and only while the counter has no end.

`PeopleProofs`
- `AccountTypeCorrect`, `NoFork`, `SessionsEndForGood`: for any number of devices, tokens, codes, requests and
  faults, from `SessionInv`. That a login has one usable token is not inductive: `Issue` adds a token and
  revokes the one it replaces, so the latter must still be usable, and no other request may hold it. `SessionInv`
  says so (`Fits`, `Apart`): what a request holds is still true, two requests never hold one token nor open a
  session with one code, and a code that is not spent has opened none.
- `NobodyIsTakenForAThief`: while nothing was lost or repeated (`faults = 0`). `QuietInv` follows the one request of
  each device: what the device holds is the usable token of its login, or the request that replaces it is open, and
  the tokens of two devices are of two logins.
- `MentorshipHolds`: for any candidates, applications, requests and calls that overlap. What a call loaded may be out
  of date when it commits, so the invariant keeps of it what nothing takes back: an account that exists, an
  activation, an invitation, a date (`Remembers`, with `Grows` for every step). That a suspended mentor is hidden
  needs more, since a suspension reads the status of the user and the one of the profile: `VisibilityIsKnown` says that
  a call which writes `is_active` of a mentor who is not in `crossed` is the only one, and that what it has read
  still holds. Of a mentor in `crossed` nothing is claimed, and in the code nothing can be (section 5).
- `TheConversationComesFirst`: for any tabs and repeated commands. A save or a turn writes what it loaded, so the
  invariant says of what each call has loaded that its phase and its form agree and that a form does not disappear
  (`Held`), and of a call that creates a session that nobody else works on it (`StartInv`). The conversation is
  the only phase that is left for good: the theorem says nothing of the order of the two others (section 5).
- `CoachingKeepsItsHistory`: needs `"turn"` and `"rescore"` in `OneAtATime`, since two turns at once lose a message in
  the code. `Held` then says that what the one call has
  loaded is still what the row holds.
- `ThePeopleAreTyped`: the sessions, the mentors and the guided modules keep their types in any interleaving of the three,
  without `OneAtATime`. Each runs as it would alone (`PeopleRunApart`). Three facts are more than
  types: a call that was opened on an account, an invitation or a request still finds it (`RowsStay`, which
  `MentorTypeOK` alone does not give), a sheet is of a session that exists, and a measure is a score, because the median
  of one to three scores lies among them (`SmallestIsThere`, `MeasuresAreScores`).

`WorkspaceProofs`
- `TheJourneyIsSound`: for one project, any users and opportunities and calls that overlap. `CallInv` keeps of an open
  call what was true when it came in (its rights), with whom the project was assigned to while it was served, and
  never asks that any of it still is: a right revoked meanwhile still acts. That an opportunity stays open to a project
  that does better is a lemma on `Missing` alone (`DoorsOpen`).
- `DeckAndLotAreWhole`: whatever the model answers and however the tabs overlap. The four concepts of a lot come from a
  fold over the answer, which either fills the slot of an angle or the first empty one; the slides of a deck from one
  over the slides of the answer.
- `TheWorkbenchIsSound`: with sections saved one at a time (`"section" \in Serial`); two PATCHes at once lose one
  (section 5). `SectionInv` says that the sections which the one open save has loaded are still those of the
  row, whatever the other calls write.
- `VaultHolds`: for any documents, links and overlapping requests, whether or not the storage is reliable. A
  view is never lost because a link that was not opened has no view and a row that is gone does not come back.
  That an erasure reaches the files is about the time after it; the invariant is about the time before: every
  object that is stored, or that a valid URL can still send (`Sent`), has its row, and an erasure that has read
  its keys has them all (`Fits`), but for the excused ones; from the commit on, somebody cleans each of them.
- `TheJourneyIsTyped`, `TheWorkbenchIsTyped`, `TheVaultIsTyped`: whatever overlaps, a report that is READY has a score, a
  concept that is chosen can be drawn, an account that is gone has no row left.

`AnalysisProofs`
- `TheAuditIsSound`: for any lot, any answers of the model and any kills, resumptions, exports and lost rows, provided
  that no reference is twice in the lot (`Distinct(LoadLot)`: the code does not check it, and section 5 says what
  happens otherwise). `FileInv` says that the output has each dossier of the batches that were written once,
  `BatchInv` that what a batch resumes from and what it has still to ask for are disjoint and make together what it
  was given, so that a killed batch resumes where it was; `ReviewInv` that a « keep » in the file of the reviewer is
  his. That deduplication drops no pair of quotes is a lemma on the fold over the findings.
- `AGridIsAlwaysActive`: for any grids and activations that overlap, commit or abort. `GridInv` is about the calls as
  well: the version of an open one exists, so the commit that clears the last grid sets another.
- `TheConsensusIsRobust`: for any grids, passes and corrections. `RunInv` says where each row comes from (a consensus
  that the code accepts, or an analyst's scores that the grid accepts), and the four parts of the property are lemmas
  on such rows: the median of three lies between any two of them, by counting how many values are below it; a weighted
  sum lies between the smallest and the largest score times the total weight, and rounding keeps both the bounds and
  the order. `GridAssumption` asks that weights are positive: with a total weight of 0 the code answers 0, which is no
  average.
- `TheMemoryIsSound`: for any grids, findings, items, runs and additions that overlap, `ASSUME InTurn`. `SoundMemory`
  is inductive where `MemoryIsConsistent` is not: a reference is to an older item, and an item that an open call is
  about to hide is still active and held by that call alone, or is in `contested` (`MemInv`). `ShownInv` says that the
  rows of the Radar show each active contradiction, and so do the projections that an open adjustment will write;
  `InTurn` is needed there, since a scoring that ends between the two steps of an adjustment adds contradictions which
  the adjustment overwrites. That a contradiction is asked about is a fact about any projections of any memory
  (`AskedOrThree`): whatever is not among the first three of a finite set has three before it (`ThreeComeFirst`).
- `TheAuditIsTyped`, `TheScoresAreTyped`: without `Distinct(LoadLot)` or `InTurn`. That a batch has one
  place for each result, that a reference in the memory is to an older item and that a confidence computed from the
  spreads is within 0 and 1 hold whatever overlaps; the properties above need those conditions, their types do not.

`BenchProofs`
- `TheBenchesAreSound`, `TheBenchesAreTyped`: for any corpus, sweep, chain of providers, number of permits, command lines
  and answers, whatever fails and in whatever order the answers come. `CaseInv` says that the cases scored so far were all
  asked at the first temperature that is left, and that every provider of the chain has it; the rates of an aggregate
  are then averages of those of its tiers, weighted by their cases (`WithinTiers`). `CountInv` relates the counter to
  what every case has asked and is asking; `FewAsking` counts those that are in flight, which a step changes in one
  place; `IsRow` keeps of a variant that is over what it cost and what its runs found.
- `TheProjectsAreTyped`: the six components of `Projects` keep their types in any interleaving, each running as it would
  alone (`ProjectsRunApart`).

`FoldLemmas` has what these modules share. Folds and functions defined by recursion are within reach where the claim is
about every step: the steps at which it fails would be a set of naturals, and such a set has a smallest element
(`SmallestOf`, from `WFMin`). `FoldExists` and `FoldSteps` turn a `FoldLeft` into the sequence of its intermediate values in
that way; `SetsHave` and `SetFoldExists` do the same for the folds over a finite set, whose order is a choice. Sums
(`TotalsCompare`, `TotalIsPositive`, and the sum over a set of which a step changes one member) and the extrema of a finite
set (`ExtremaOf`) follow. What is out of reach is a library
operator whose definition cannot be expanded (`SelectSeq`, `SortSeq`, `@@`, `:>`); where a theorem needed one, the model
says the same with a fold or a set (`Only`, `Smallest`, `Upserted`).

The assumptions that these proofs made explicit are no restriction of the code, but for two: an operation or a row is
not the value that stands for none (`NoneIsNoOperation`, `NoneIsNothing`, `NoneIsNoRow`); the lots and the answers of
the LLM are sequences (`WorkbenchAssumption`, `AuditAssumption`, `SaidAssumption`); findings have keys of their own
and a type each (`MemoryAssumption`); a command line asks for one run at least, since the code divides by it
(`ArgumentsAssumption`), an answer has entries with findings or nothing (`OutputsAssumption`), and the calls on a vault
are finitely many (`VaultAssumption`: the views of a link are counted with them). Two restrict.
`CorpusAssumption`: every case is tagged thin, medium or rich, as in the corpus of the repository; one without a tag is
counted in the rate and in no tier, and the rate may then leave the range of its tiers. `GridAssumption`: grids that
`activate_grid` would accept although they make no sense (no axis, a scale or a weight of 0) are left out.

Only model-checked: the liveness properties (the prover does not treat fairness and ENABLED). Every invariant and every
action property of a passing run is a theorem, under the conditions named above, which its run satisfies.

## 5. Not modelled and seen

Not modelled: text, prompts, rendering and parsing (the PDF and the exports of a deck, the prompts, the drawing of a
logo); the extraction of the text of a file, and the export of the data of an account, which are reads; the
calibration, one comparison of two files; notifications and the audit log, rows that are appended in the
transaction of the operation they record. Authentication and ownership are modelled where they can change under a
call (`Accounts`, `Journey`, `Mentorship`); elsewhere a request that is modelled has passed them. In the modelled
parts: `attach_deck` (one column that no other operation of a session reads or writes); the recursion of
`_advance_qa` is its result; `finished_at`, names and messages; the verification of the email, the limit on logins
and the address of the redirection of OAuth.

Seen while modelling and not shown by a run, because no text of the repository says otherwise, because the case is
outside the environment of the runs, or because its run is still to be written (point 2 of the plan):

- **Pipeline.** Adjusting the scores of a PENDING report makes its clean-up raise (`diagnostics/handlers.py:329`). A
  manual retry of a FAILED diagnostic keeps its report FAILED, and a radar computed by the retry stays hidden if that
  fails too (`handlers.py:315`). Phase 1 and phase 2 of a running handler overwrite what an analyst sets meanwhile
  (`handlers.py:190`). A worker that lost its lease and ends its phase 1 late takes a diagnostic which the next
  attempt has published back from BILAN_READY to DIAGNOSTIC_COMPLETED (`handlers.py:197`), against
  `projects/models.py:7`, « aucune transition implicite, tout saut illégal → 422 »; `DiagnosticMachine` is checked and
  proved where leases hold. `adjust_scores` does not write the PDF anew. The workspace of a founder shows the latest
  report whatever its status, while the opportunities use the latest READY one.
- **Rehearsals.** Two tabs on one rehearsal can lose the keys of its Q&A (`pitchsim/service.py:489`) or ask a question
  twice (`:551`), and number two turns alike (`:226`); `tour_libre` is stored in the configuration of a session and
  read by nothing; two first visits of the workbench create two decks or two logos.
- **Accounts.** A refresh that commits while a replay waits for the row it consumed leaves a token that
  `revoke_all_for_user` did not load (`iam/repository.py:118`), so the theft detection of `iam/service.py:5` does not end
  that session; a logout that races a refresh ends the old token and not the new one (`iam/service.py:158`); the exchange
  of an OAuth code does not look at the status of the account (`iam/oauth_service.py:124`), but nothing it gives is
  accepted before the account is active.
- **Mentors.** A mentor who is only INVITED is already listed; an expired invitation leaves an INVITED account that blocks
  a new approval; `accept_invitation` lifts a suspension (`mentors/service.py:144`); an approval that races a rejection
  leaves an invitation for a rejected application; a transition of a request can be applied to a row that moved on;
  two calls that write `is_active` of one mentor at once (two of the administrators', or a suspension and the mentor's
  own PATCH, `mentors/service.py:157`) can leave a suspended mentor listed, against « retiré de la marketplace si
  suspendu » (`:338`), for nothing locks the profile.
- **Academy.** `generate_fiches` again appends a second set of sheets and `start_module` twice creates two sessions
  (`academy/service.py:299`, `:166`); a save that comes late moves a session from its sheets back to the form; a model
  that answers `null` to a prefill leaves the phase « form » without a form (`:278`).
- **Scoring.** A pass that misses one key makes the consensus raise in production, although failed passes are
  tolerated; the bench is « TOLÉRANT comme la prod » (`exception_bench.py:89`) but drops such passes. Two concurrent
  activations leave two active grids (`governance.py:3`), and `activate_grid` never calls `validate_grid`. A grid that
  is switched while a scoring runs: the scores are resolved with another grid than the one in the prompt. A failover
  in a series of passes mixes two providers. The stored `project_dimension_states` are never read. `make calibrate`
  always exits on its golden set, whose scores are those of the six old axes out of 100.
- **Benches.** A control whose calls all fail shows no false positive; an exception bench whose cases are all
  excluded has the rate 0 and prints that the hypothesis holds.
- **Resilience.** `get_llm` builds its providers for each request or job, so a circuit is that of one object; in the
  half-open state every caller passes, where the documentation says « un essai »; a success that comes late closes
  an open circuit; an `EXPIRE` that fails after its `INCR` leaves a counter without an end; an object that is not
  found counts as a failure of the storage for its circuit.
- **Files.** The PDFs of the reports survive the erasure of the account; a confirmation that comes after a bad
  object was sent again removes it while its row stays CONFIRMED; a confirmation reports any failure of the storage as
  « pas encore uploadé ».
- **Audits.** The result of a deduplication depends on the order of the findings; with a reference twice in a lot,
  `--resume` drops a failed dossier in silence and their decisions collide; `audit.json` is written at the end only,
  and not atomically; a dossier with one pass of two failed counts as clean and is not retried; exporting the review
  again erases its decisions; an identifier ignores severity and explanation.
- **Founders.** Two additions to the memory that replace one fact both find it active
  (`projects/owner_service.py:126`), with no lock and no constraint, and leave it two successors; `start_action` and
  `express_interest` count founders who never viewed a report (and interest counts administrators), so a conversion of
  the funnel can exceed 1; any `action_key` is accepted, and an interest in an inactive or ineligible opportunity; the
  « missing » message of an eligibility rounds a threshold that has tenths; two edits of an opportunity at once mix
  their columns; an `unassign` that loaded no assignment writes nothing, and its audit row says so, even when somebody
  was assigned meanwhile.
- **Decks and logos.** Two PATCHes of the sections at once lose one; an index of a slide that is stale after a
  deletion brings deleted slides back, or replaces those of a newer deck; `generate_deck` looks whether `slides` is
  empty before it drops what is no object; the first generation of a logo overwrites an `update_spec` of the
  meantime; a concept without a label can take the place of one that has it.

## 6. Plan

Done: every component of section 1 has its module, and the queue, the pipeline, the rehearsals, the accounts, the
mentors, the files, the calls and pages of a founder, the audits, the benches, the scores and the memory have their
theorems. Next, in order of what matters most:

1. An abstract specification of the sessions (a family of logins, each alive or ended) that `Accounts` implements,
   with a run that shows the session a sweep leaves alive.
2. Runs for what section 5 lists where a text of the repository says otherwise: the diagnostic that a lost lease takes
   back, the suspended mentor who is listed, the erasure and the PDFs
   of the reports, two active grids, « un essai ».
