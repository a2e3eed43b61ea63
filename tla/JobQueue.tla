------------------------------ MODULE JobQueue ------------------------------
(***************************************************************************)
(* The Postgres job queue (app/jobs) and the polling loop of the workers   *)
(* that drain it (app/worker.py).                                          *)
(*                                                                         *)
(* A job is a row of the table `jobs`; a worker is a process that recovers *)
(* the jobs whose lease expired, claims one, runs its handler under a      *)
(* heartbeat and acknowledges it.  The acknowledgement is written by       *)
(* primary key from the row as it was read at the claim (`seen`): nothing  *)
(* in it asks whether the claim is still the worker's own.                 *)
(*                                                                         *)
(* Time is counted in ticks and kept relative: `due` is what is left until *)
(* scheduled_at, `age` what has passed since the last heartbeat.           *)
(***************************************************************************)
EXTENDS Integers, Sequences, FiniteSets

CONSTANTS
    Jobs,             \* the rows of the table, one per idempotency key
    Workers,          \* the worker processes
    NoJob,            \* what an idle worker holds
    Handled,          \* the jobs whose type is a key of REGISTRY
    Priority,         \* smaller is more urgent
    MaxRetries,       \* Job.max_retries
    Backoff,          \* _BACKOFF_MINUTES
    Lease,            \* JOB_LEASE_SECONDS, in ticks
    HeartbeatEvery,   \* HEARTBEAT_INTERVAL, in ticks
    RequeueFrom,      \* the statuses from which an administrator retries a job
    MaxRequeues, MaxCrashes, MaxHeartbeatDeaths,   \* bounds on the environment
    MaxOverdue        \* the age at which two overdue jobs are no longer told apart

Waiting == {"PENDING", "RETRYING"}
Terminal == {"COMPLETED", "FAILED"}
JobStatus == Waiting \cup Terminal \cup {"PROCESSING"}

\* "ABSENT" is a key that has no row yet.
RowStatus == JobStatus \cup {"ABSENT"}

\* Where a worker is in the body of run(): about to call recover_stale, about to
\* call claim, inside the handler, or about to acknowledge what the handler did.
WorkerPC == {"loop", "claim", "run", "succeeded", "raised"}

ASSUME JobsAssumption == NoJob \notin Jobs /\ Handled \subseteq Jobs
ASSUME PriorityAssumption == Priority \in [Jobs -> Int]
ASSUME RetriesAssumption == MaxRetries \in Nat
ASSUME BackoffAssumption == Backoff \in Seq(Nat) /\ Len(Backoff) > 0
ASSUME LeaseAssumption ==
    Lease \in Nat /\ HeartbeatEvery \in Nat \ {0} /\ HeartbeatEvery <= Lease
ASSUME RequeueAssumption == RequeueFrom \subseteq JobStatus
ASSUME BoundsAssumption ==
    {MaxRequeues, MaxCrashes, MaxHeartbeatDeaths, MaxOverdue} \subseteq Nat

VARIABLES
    status,      \* [Jobs -> RowStatus]
    retryCount,  \* [Jobs -> Nat], Job.retry_count
    due,         \* [Jobs -> Int], ticks until scheduled_at, while the job waits
    age,         \* [Jobs -> Nat], ticks since heartbeat_at, while it is processed
    claims,      \* [Jobs -> Nat], claims since it was last put in the queue
    pc,          \* [Workers -> WorkerPC]
    held,        \* [Workers -> Jobs \cup {NoJob}], the job of _process
    seen,        \* [Workers -> Nat], retry_count of the row read at the claim
    beating,     \* [Workers -> BOOLEAN], the heartbeat task is alive
    cleaning,    \* [Workers -> SUBSET Jobs], terminal hooks left to call
    faults       \* what the environment has done so far

rows == <<status, retryCount, due, age, claims>>
workers == <<pc, held, seen, beating, cleaning>>
vars == <<rows, workers, faults>>

Faults == [crashes : 0..MaxCrashes, deaths : 0..MaxHeartbeatDeaths,
           requeues : 0..MaxRequeues]

TypeOK ==
    /\ status \in [Jobs -> RowStatus]
    /\ retryCount \in [Jobs -> 0..MaxRetries]
    /\ due \in [Jobs -> Int]
    /\ age \in [Jobs -> 0..(Lease + 1)]
    /\ claims \in [Jobs -> Nat]
    /\ pc \in [Workers -> WorkerPC]
    /\ held \in [Workers -> Jobs \cup {NoJob}]
    /\ seen \in [Workers -> 0..MaxRetries]
    /\ beating \in [Workers -> BOOLEAN]
    /\ cleaning \in [Workers -> SUBSET Jobs]
    /\ faults \in Faults

Init ==
    /\ status = [j \in Jobs |-> "ABSENT"]
    /\ retryCount = [j \in Jobs |-> 0]
    /\ due = [j \in Jobs |-> 0]
    /\ age = [j \in Jobs |-> 0]
    /\ claims = [j \in Jobs |-> 0]
    /\ pc = [w \in Workers |-> "loop"]
    /\ held = [w \in Workers |-> NoJob]
    /\ seen = [w \in Workers |-> 0]
    /\ beating = [w \in Workers |-> FALSE]
    /\ cleaning = [w \in Workers |-> {}]
    /\ faults = [crashes |-> 0, deaths |-> 0, requeues |-> 0]

-----------------------------------------------------------------------------
(* Writers of the table other than the workers.                            *)

\* JobRepository.enqueue: a key that already has a row gets that row back (no
\* step); two racing inserts are told apart by the unique key.
Enqueue(j) ==
    /\ status[j] = "ABSENT"
    /\ status' = [status EXCEPT ![j] = "PENDING"]
    /\ claims' = [claims EXCEPT ![j] = 0]
    /\ UNCHANGED <<retryCount, due, age, workers, faults>>

\* Mutant: the manual retry forgets to reset the counter.
RequeueKeepingCount(j) ==
    /\ status[j] \in RequeueFrom
    /\ faults.requeues < MaxRequeues
    /\ faults' = [faults EXCEPT !.requeues = @ + 1]
    /\ status' = [status EXCEPT ![j] = "PENDING"]
    /\ due' = [due EXCEPT ![j] = 0]
    /\ age' = [age EXCEPT ![j] = 0]
    /\ claims' = [claims EXCEPT ![j] = 0]
    /\ UNCHANGED <<retryCount, workers>>

\* POST /admin/jobs/{id}/retry.  The code looks at no status: RequeueFrom says from
\* which ones the administrators of an instance use it.
Requeue(j) ==
    /\ status[j] \in RequeueFrom
    /\ faults.requeues < MaxRequeues
    /\ faults' = [faults EXCEPT !.requeues = @ + 1]
    /\ status' = [status EXCEPT ![j] = "PENDING"]
    /\ retryCount' = [retryCount EXCEPT ![j] = 0]
    /\ due' = [due EXCEPT ![j] = 0]
    /\ age' = [age EXCEPT ![j] = 0]
    /\ claims' = [claims EXCEPT ![j] = 0]
    /\ UNCHANGED workers

-----------------------------------------------------------------------------
(* The worker's loop.                                                      *)

\* Mutant: the lease is compared with <= instead of <.
StaleTooEarly == {j \in Jobs : status[j] = "PROCESSING" /\ age[j] >= Lease}
Stale == {j \in Jobs : status[j] = "PROCESSING" /\ age[j] > Lease}
Exhausted == {j \in Stale : retryCount[j] >= MaxRetries}

\* Mutant: an expired lease does not cost the job an attempt.
RecoverStaleForFree(w) ==
    /\ pc[w] = "loop" /\ cleaning[w] = {}
    /\ status' = [j \in Jobs |-> IF j \in Stale THEN "RETRYING" ELSE status[j]]
    /\ age' = [j \in Jobs |-> IF j \in Stale THEN 0 ELSE age[j]]
    /\ pc' = [pc EXCEPT ![w] = "claim"]
    /\ UNCHANGED <<retryCount, due, claims, held, seen, beating, cleaning, faults>>

\* Mutant: a job whose retries are exhausted is skipped instead of failed.
RecoverStaleOnlyRetries(w) ==
    /\ pc[w] = "loop" /\ cleaning[w] = {}
    /\ status' = [j \in Jobs |-> IF j \in Stale \ Exhausted THEN "RETRYING" ELSE status[j]]
    /\ retryCount' = [j \in Jobs |-> IF j \in Stale \ Exhausted
                                     THEN retryCount[j] + 1 ELSE retryCount[j]]
    /\ age' = [j \in Jobs |-> IF j \in Stale \ Exhausted THEN 0 ELSE age[j]]
    /\ pc' = [pc EXCEPT ![w] = "claim"]
    /\ UNCHANGED <<due, claims, held, seen, beating, cleaning, faults>>

\* recover_stale: one transaction puts every job whose lease expired back in the
\* queue, or fails it and leaves its terminal hook to this worker.
RecoverStale(w) ==
    /\ pc[w] = "loop" /\ cleaning[w] = {}
    /\ status' = [j \in Jobs |-> IF j \in Exhausted THEN "FAILED"
                                 ELSE IF j \in Stale THEN "RETRYING" ELSE status[j]]
    /\ retryCount' = [j \in Jobs |-> IF j \in Stale \ Exhausted
                                     THEN retryCount[j] + 1 ELSE retryCount[j]]
    /\ due' = [j \in Jobs |-> IF j \in Stale THEN 0 ELSE due[j]]
    /\ age' = [j \in Jobs |-> IF j \in Stale THEN 0 ELSE age[j]]
    /\ cleaning' = [cleaning EXCEPT ![w] = Exhausted]
    /\ pc' = [pc EXCEPT ![w] = "claim"]
    /\ UNCHANGED <<claims, held, seen, beating, faults>>

\* _cleanup_terminal returns, whether the hook did its work, raised, or does not exist.
TerminalHook(w, j) ==
    /\ j \in cleaning[w]
    /\ cleaning' = [cleaning EXCEPT ![w] = @ \ {j}]
    /\ UNCHANGED <<rows, pc, held, seen, beating, faults>>

\* Mutant: whatever is not completed may be claimed.
EligibleUnlessCompleted ==
    {j \in Jobs : status[j] \notin {"ABSENT", "COMPLETED"} /\ due[j] <= 0}
Eligible == {j \in Jobs : status[j] \in Waiting /\ due[j] <= 0}

Precedes(i, j) ==
    \/ Priority[i] < Priority[j]
    \/ Priority[i] = Priority[j] /\ due[i] <= due[j]

\* claim_one: FOR UPDATE SKIP LOCKED makes the whole statement one step.  A type that
\* is not in REGISTRY goes straight to fail(), without a heartbeat.
Claim(w, j) ==
    /\ pc[w] = "claim" /\ cleaning[w] = {}
    /\ j \in Eligible /\ \A i \in Eligible : Precedes(j, i)
    /\ status' = [status EXCEPT ![j] = "PROCESSING"]
    /\ due' = [due EXCEPT ![j] = 0]
    /\ age' = [age EXCEPT ![j] = 0]
    /\ claims' = [claims EXCEPT ![j] = @ + 1]
    /\ held' = [held EXCEPT ![w] = j]
    /\ seen' = [seen EXCEPT ![w] = retryCount[j]]
    /\ beating' = [beating EXCEPT ![w] = j \in Handled]
    /\ pc' = [pc EXCEPT ![w] = IF j \in Handled THEN "run" ELSE "raised"]
    /\ UNCHANGED <<retryCount, cleaning, faults>>

NothingToClaim(w) ==
    /\ pc[w] = "claim" /\ cleaning[w] = {}
    /\ Eligible = {}
    /\ pc' = [pc EXCEPT ![w] = "loop"]
    /\ UNCHANGED <<rows, held, seen, beating, cleaning, faults>>

\* JobRepository.heartbeat: any live heartbeat renews the lease of a job that is
\* being processed, whoever claimed it last.
Heartbeat(w) ==
    /\ pc[w] = "run" /\ beating[w]
    /\ status[held[w]] = "PROCESSING" /\ age[held[w]] > 0
    /\ age' = [age EXCEPT ![held[w]] = 0]
    /\ UNCHANGED <<status, retryCount, due, claims, workers, faults>>

\* One database error ends the task of _heartbeat; the handler runs on without it.
HeartbeatDies(w) ==
    /\ pc[w] = "run" /\ beating[w]
    /\ faults.deaths < MaxHeartbeatDeaths
    /\ faults' = [faults EXCEPT !.deaths = @ + 1]
    /\ beating' = [beating EXCEPT ![w] = FALSE]
    /\ UNCHANGED <<rows, pc, held, seen, cleaning>>

\* The handler returns or raises; the heartbeat is cancelled before the acknowledgement.
Finish(w, outcome) ==
    /\ pc[w] = "run"
    /\ outcome \in {"succeeded", "raised"}
    /\ pc' = [pc EXCEPT ![w] = outcome]
    /\ beating' = [beating EXCEPT ![w] = FALSE]
    /\ UNCHANGED <<rows, held, seen, cleaning, faults>>

\* The end of an iteration: the session and the job read in it are dropped.
Release(w) ==
    /\ pc' = [pc EXCEPT ![w] = "loop"]
    /\ held' = [held EXCEPT ![w] = NoJob]
    /\ seen' = [seen EXCEPT ![w] = 0]

\* JobService.complete
Complete(w) ==
    /\ pc[w] = "succeeded"
    /\ status' = [status EXCEPT ![held[w]] = "COMPLETED"]
    /\ age' = [age EXCEPT ![held[w]] = 0]
    /\ Release(w)
    /\ UNCHANGED <<retryCount, due, claims, beating, cleaning, faults>>

BackoffAfter(n) == Backoff[IF n < Len(Backoff) THEN n + 1 ELSE Len(Backoff)]

\* Mutant: <= instead of < in the test of the retries left.
FailRetryOneTooMany(w) ==
    /\ pc[w] = "raised" /\ seen[w] <= MaxRetries
    /\ status' = [status EXCEPT ![held[w]] = "RETRYING"]
    /\ retryCount' = [retryCount EXCEPT ![held[w]] = seen[w] + 1]
    /\ due' = [due EXCEPT ![held[w]] = BackoffAfter(seen[w])]
    /\ age' = [age EXCEPT ![held[w]] = 0]
    /\ Release(w)
    /\ UNCHANGED <<claims, beating, cleaning, faults>>

\* JobService.fail with retries left: the counter written is the one read at the claim, plus one.
FailRetry(w) ==
    /\ pc[w] = "raised" /\ seen[w] < MaxRetries
    /\ status' = [status EXCEPT ![held[w]] = "RETRYING"]
    /\ retryCount' = [retryCount EXCEPT ![held[w]] = seen[w] + 1]
    /\ due' = [due EXCEPT ![held[w]] = BackoffAfter(seen[w])]
    /\ age' = [age EXCEPT ![held[w]] = 0]
    /\ Release(w)
    /\ UNCHANGED <<claims, beating, cleaning, faults>>

\* Mutant: the worker ignores that the failure is final.
FailFinalWithoutHook(w) ==
    /\ pc[w] = "raised" /\ seen[w] >= MaxRetries
    /\ status' = [status EXCEPT ![held[w]] = "FAILED"]
    /\ age' = [age EXCEPT ![held[w]] = 0]
    /\ Release(w)
    /\ UNCHANGED <<retryCount, due, claims, beating, cleaning, faults>>

\* JobService.fail without retries left.  The terminal hook follows, except on the path
\* of an unknown type, which drops the verdict of fail().
FailFinal(w) ==
    /\ pc[w] = "raised" /\ seen[w] >= MaxRetries
    /\ status' = [status EXCEPT ![held[w]] = "FAILED"]
    /\ age' = [age EXCEPT ![held[w]] = 0]
    /\ cleaning' = [cleaning EXCEPT ![w] = {held[w]} \cap Handled]
    /\ Release(w)
    /\ UNCHANGED <<retryCount, due, claims, beating, faults>>

-----------------------------------------------------------------------------
(* The environment.                                                        *)

\* The process dies and is restarted (restart: unless-stopped): what it held in memory is gone.
Crash(w) ==
    /\ faults.crashes < MaxCrashes
    /\ faults' = [faults EXCEPT !.crashes = @ + 1]
    /\ Release(w)
    /\ beating' = [beating EXCEPT ![w] = FALSE]
    /\ cleaning' = [cleaning EXCEPT ![w] = {}]
    /\ UNCHANGED rows

\* A tick is minutes: no acknowledgement lasts one, and a live heartbeat is never late.
Tick ==
    /\ \A w \in Workers : pc[w] \notin {"succeeded", "raised"}
    /\ \A w \in Workers :
           beating[w] /\ status[held[w]] = "PROCESSING" => age[held[w]] < HeartbeatEvery
    /\ due' = [j \in Jobs |-> IF status[j] \in Waiting /\ due[j] > -MaxOverdue
                              THEN due[j] - 1 ELSE due[j]]
    /\ age' = [j \in Jobs |-> IF status[j] = "PROCESSING" /\ age[j] <= Lease
                              THEN age[j] + 1 ELSE age[j]]
    /\ UNCHANGED <<status, retryCount, claims, workers, faults>>

-----------------------------------------------------------------------------

Ack(w) == Complete(w) \/ FailRetry(w) \/ FailFinal(w)

WorkerStep(w) ==
    \/ RecoverStale(w)
    \/ NothingToClaim(w)
    \/ Heartbeat(w)
    \/ HeartbeatDies(w)
    \/ Ack(w)
    \/ Crash(w)
    \/ \E j \in Jobs : TerminalHook(w, j) \/ Claim(w, j)
    \/ \E outcome \in {"succeeded", "raised"} : Finish(w, outcome)

Next ==
    \/ Tick
    \/ \E j \in Jobs : Enqueue(j) \/ Requeue(j)
    \/ \E w \in Workers : WorkerStep(w)

Spec == Init /\ [][Next]_vars

\* asyncio runs every worker's loop, the handlers end (each LLM call has a timeout),
\* the heartbeat task is scheduled and time passes.  Nothing is assumed of the
\* administrators, of the crashes or of the founders who enqueue.
Fairness ==
    /\ WF_vars(Tick)
    /\ \A w \in Workers :
        /\ WF_vars(RecoverStale(w))
        /\ WF_vars(NothingToClaim(w))
        /\ WF_vars(\E j \in Jobs : Claim(w, j))
        /\ WF_vars(\E j \in Jobs : TerminalHook(w, j))
        /\ WF_vars(Heartbeat(w))
        /\ WF_vars(\E outcome \in {"succeeded", "raised"} : Finish(w, outcome))
        /\ WF_vars(Ack(w))

FairSpec == Spec /\ Fairness

-----------------------------------------------------------------------------
(* Properties.  Calm names the environments in which a lease is lost only   *)
(* with its worker: no heartbeat task dies before its handler, and nobody   *)
(* retries by hand a job that is being processed.                          *)

Calm == MaxHeartbeatDeaths = 0 /\ "PROCESSING" \notin RequeueFrom

Holds(w, j) == held[w] = j /\ j # NoJob

\* No two workers process the same job at the same time: what the claim
\* (SKIP LOCKED), the heartbeats and the lease are there for, across crashes,
\* recoveries and manual retries.  In a calm environment.
OneHolder ==
    \A v, w \in Workers : v # w => ~ \E j \in Jobs : Holds(v, j) /\ Holds(w, j)

\* A job put in the queue is claimed at most MaxRetries + 1 times, whether its attempts end
\* in an exception, in a crash or in an expired lease, before an administrator retries it.
\* In a calm environment.
RetryBudget == \A j \in Jobs : claims[j] <= MaxRetries + 1

\* COMPLETED and FAILED are left through a manual retry only (app/jobs/service.py, the
\* life cycle of the docstring).  In a calm environment.
VerdictIsFinal ==
    [][\A j \in Jobs : status[j] \in Terminal /\ status'[j] # status[j]
                           => faults'.requeues = faults.requeues + 1]_vars

\* A lease that has expired is the lease of a dead worker (app/jobs/models.py).  In a calm
\* environment.
ExpiredMeansDead == \A j \in Stale : \A w \in Workers : ~ Holds(w, j)

\* What an operator counts on in a calm environment: the budget of attempts holds whatever ends
\* them, and a lease is taken away from the dead only.
LeasesAndRetries == RetryBudget /\ ExpiredMeansDead

\* Why the four hold: the loop's memory and the table agree.  A worker holds a job
\* exactly while it is inside _process, under a heartbeat while the handler runs; the row it holds is still
\* its own claim, with a fresh lease and the counter it read; nobody else holds it; and the counter
\* accounts for the claims.
LoopConsistent ==
    \A w \in Workers :
        /\ held[w] # NoJob <=> pc[w] \in {"run", "succeeded", "raised"}
        /\ beating[w] <=> pc[w] = "run"
ClaimIsCurrent ==
    \A w \in Workers : held[w] # NoJob =>
        /\ status[held[w]] = "PROCESSING"
        /\ seen[w] = retryCount[held[w]]
        /\ age[held[w]] <= HeartbeatEvery
ClaimsCounted ==
    \A j \in Jobs :
        /\ status[j] = "ABSENT" => retryCount[j] = 0 /\ claims[j] = 0
        /\ status[j] \in Waiting => claims[j] = retryCount[j]
        /\ status[j] \in Terminal \cup {"PROCESSING"} => claims[j] = retryCount[j] + 1

CalmInv == LoopConsistent /\ ClaimIsCurrent /\ OneHolder /\ ClaimsCounted

\* Every job that is enqueued is completed or failed in the end, whatever the crashes, the lost
\* heartbeats and the manual retries, as long as they are finitely many.
EveryJobSettles ==
    \A j \in Jobs : status[j] # "ABSENT" ~> status[j] \in Terminal
=============================================================================
