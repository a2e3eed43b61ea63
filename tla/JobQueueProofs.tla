--------------------------- MODULE JobQueueProofs ---------------------------
(***************************************************************************)
(* Theorems about JobQueue for every set of jobs and workers, every lease, *)
(* backoff and bound.                                                      *)
(***************************************************************************)
EXTENDS JobQueueRefinement, TLAPS

\* The delay after any number of attempts is one of the configured delays.
LEMMA BackoffIsNat == \A n \in Nat : BackoffAfter(n) \in Nat
  BY BackoffAssumption DEF BackoffAfter

\* Overwriting a function, even outside its domain, keeps its type.
LEMMA ExceptType ==
    ASSUME NEW D, NEW R, NEW f \in [D -> R], NEW d, NEW r \in R
    PROVE  [f EXCEPT ![d] = r] \in [D -> R]
  OBVIOUS

LEMMA TypeInit == Init => TypeOK
  BY RetriesAssumption, LeaseAssumption, BoundsAssumption, JobsAssumption
  DEF Init, TypeOK, RowStatus, JobStatus, Waiting, Terminal, WorkerPC, Faults

LEMMA TypeStep == TypeOK /\ [Next]_vars => TypeOK'
<1> SUFFICES ASSUME TypeOK, [Next]_vars PROVE TypeOK'
  OBVIOUS
<1> USE RetriesAssumption, LeaseAssumption, BoundsAssumption, JobsAssumption
    DEF TypeOK, RowStatus, JobStatus, Waiting, Terminal, WorkerPC, rows, workers
<1>1. CASE Tick
  BY <1>1 DEF Tick
<1>2. ASSUME NEW j \in Jobs, Enqueue(j) PROVE TypeOK'
  BY <1>2 DEF Enqueue
<1>3. ASSUME NEW j \in Jobs, Requeue(j) PROVE TypeOK'
  BY <1>3 DEF Requeue, Faults
<1>4. ASSUME NEW w \in Workers, RecoverStale(w) PROVE TypeOK'
  BY <1>4 DEF RecoverStale, Stale, Exhausted
<1>5. ASSUME NEW w \in Workers, NothingToClaim(w) PROVE TypeOK'
  BY <1>5 DEF NothingToClaim
<1>6. ASSUME NEW w \in Workers, Heartbeat(w) PROVE TypeOK'
  <2>1. age' \in [Jobs -> 0..(Lease + 1)]
    BY <1>6, ExceptType DEF Heartbeat
  <2>2. QED BY <1>6, <2>1 DEF Heartbeat
<1>7. ASSUME NEW w \in Workers, HeartbeatDies(w) PROVE TypeOK'
  BY <1>7 DEF HeartbeatDies, Faults
<1>8. ASSUME NEW w \in Workers, Ack(w) PROVE TypeOK'
  <2>1. CASE Complete(w)
    <3>1. status' \in [Jobs -> RowStatus] /\ age' \in [Jobs -> 0..(Lease + 1)]
      BY <2>1, ExceptType DEF Complete
    <3>2. QED BY <2>1, <3>1 DEF Complete, Release
  <2>2. CASE FailRetry(w)
    <3>1. BackoffAfter(seen[w]) \in Int /\ seen[w] + 1 \in 0..MaxRetries
      BY <2>2, BackoffIsNat DEF FailRetry
    <3>2. /\ status' \in [Jobs -> RowStatus] /\ retryCount' \in [Jobs -> 0..MaxRetries]
          /\ due' \in [Jobs -> Int] /\ age' \in [Jobs -> 0..(Lease + 1)]
      BY <2>2, <3>1, ExceptType DEF FailRetry
    <3>3. QED BY <2>2, <3>2 DEF FailRetry, Release
  <2>3. CASE FailFinal(w)
    <3>1. status' \in [Jobs -> RowStatus] /\ age' \in [Jobs -> 0..(Lease + 1)]
      BY <2>3, ExceptType DEF FailFinal
    <3>2. QED BY <2>3, <3>1 DEF FailFinal, Release
  <2>4. QED BY <1>8, <2>1, <2>2, <2>3 DEF Ack
<1>9. ASSUME NEW w \in Workers, Crash(w) PROVE TypeOK'
  BY <1>9 DEF Crash, Release, Faults
<1>10. ASSUME NEW w \in Workers, NEW j \in Jobs, TerminalHook(w, j) PROVE TypeOK'
  BY <1>10 DEF TerminalHook
<1>11. ASSUME NEW w \in Workers, NEW j \in Jobs, Claim(w, j) PROVE TypeOK'
  BY <1>11 DEF Claim
<1>12. ASSUME NEW w \in Workers, NEW o \in {"succeeded", "raised"}, Finish(w, o)
       PROVE TypeOK'
  BY <1>12 DEF Finish
<1>13. CASE UNCHANGED vars
  BY <1>13 DEF vars
<1>14. QED
  BY <1>1, <1>2, <1>3, <1>4, <1>5, <1>6, <1>7, <1>8, <1>9, <1>10, <1>11, <1>12, <1>13
  DEF Next, WorkerStep

\* Type correctness, in every environment: in particular no sequence of crashes, lost
\* heartbeats and manual retries takes retry_count beyond max_retries.
THEOREM TypeCorrect == Spec => []TypeOK
  BY TypeInit, TypeStep, PTL DEF Spec

-----------------------------------------------------------------------------
(* The calm environments.                                                  *)

LEMMA CalmInit == Init => CalmInv
  BY JobsAssumption
  DEF Init, CalmInv, LoopConsistent, ClaimIsCurrent, OneHolder, Holds, ClaimsCounted, Waiting, Terminal

\* A held job is never stale: its age is at most a heartbeat, which is at most the lease.
LEMMA HeldIsFresh ==
    ASSUME TypeOK, CalmInv, NEW w \in Workers, held[w] # NoJob
    PROVE  held[w] \in Jobs /\ held[w] \notin Stale
  BY LeaseAssumption DEF TypeOK, CalmInv, ClaimIsCurrent, Stale

LEMMA CalmStep == Calm /\ TypeOK /\ CalmInv /\ [Next]_vars => CalmInv'
<1> SUFFICES ASSUME Calm, TypeOK, CalmInv, [Next]_vars PROVE CalmInv'
  OBVIOUS
<1> USE JobsAssumption, RetriesAssumption, LeaseAssumption
    DEF TypeOK, CalmInv, LoopConsistent, ClaimIsCurrent, OneHolder, Holds, ClaimsCounted,
        RowStatus, JobStatus, Waiting, Terminal, WorkerPC, rows, workers
<1>1. CASE Tick
  BY <1>1 DEF Tick
<1>2. ASSUME NEW j \in Jobs, Enqueue(j) PROVE CalmInv'
  BY <1>2 DEF Enqueue
<1>3. ASSUME NEW j \in Jobs, Requeue(j) PROVE CalmInv'
  BY <1>3 DEF Requeue, Calm
<1>4. ASSUME NEW w \in Workers, RecoverStale(w) PROVE CalmInv'
  <2>1. \A v \in Workers : held[v] # NoJob => held[v] \in Jobs /\ held[v] \notin Stale
    BY HeldIsFresh
  <2>2. ClaimIsCurrent'
    <3>1. \A j \in Jobs \ Stale : /\ status'[j] = status[j] /\ age'[j] = age[j]
                                /\ retryCount'[j] = retryCount[j]
      BY <1>4 DEF RecoverStale, Exhausted
    <3>2. QED BY <1>4, <2>1, <3>1 DEF RecoverStale
  <2>3. ClaimsCounted'
    BY <1>4 DEF RecoverStale, Stale, Exhausted
  <2>4. LoopConsistent' /\ OneHolder'
    BY <1>4 DEF RecoverStale
  <2>5. QED BY <2>2, <2>3, <2>4
<1>5. ASSUME NEW w \in Workers, NothingToClaim(w) PROVE CalmInv'
  BY <1>5 DEF NothingToClaim
<1>6. ASSUME NEW w \in Workers, Heartbeat(w) PROVE CalmInv'
  BY <1>6 DEF Heartbeat
<1>7. ASSUME NEW w \in Workers, HeartbeatDies(w) PROVE CalmInv'
  BY <1>7, BoundsAssumption DEF HeartbeatDies, Calm, Faults
<1>8. ASSUME NEW w \in Workers, Ack(w) PROVE CalmInv'
  <2>1. held[w] \in Jobs /\ held[w] # NoJob /\ ~beating[w]
    BY <1>8 DEF Ack, Complete, FailRetry, FailFinal
  <2>2. \A v \in Workers : v # w => held[v] # held[w]
    BY <2>1
  <2>3. CASE Complete(w)
    BY <2>1, <2>2, <2>3 DEF Complete, Release
  <2>4. CASE FailRetry(w)
    BY <2>1, <2>2, <2>4 DEF FailRetry, Release
  <2>5. CASE FailFinal(w)
    BY <2>1, <2>2, <2>5 DEF FailFinal, Release
  <2>6. QED BY <1>8, <2>3, <2>4, <2>5 DEF Ack
<1>9. ASSUME NEW w \in Workers, Crash(w) PROVE CalmInv'
  BY <1>9 DEF Crash, Release
<1>10. ASSUME NEW w \in Workers, NEW j \in Jobs, TerminalHook(w, j) PROVE CalmInv'
  BY <1>10 DEF TerminalHook
<1>11. ASSUME NEW w \in Workers, NEW j \in Jobs, Claim(w, j) PROVE CalmInv'
  <2>1. status[j] \in Waiting /\ \A v \in Workers : held[v] # j
    BY <1>11 DEF Claim, Eligible
  <2>2. LoopConsistent'
    <3>1. /\ held' = [held EXCEPT ![w] = j]
          /\ beating' = [beating EXCEPT ![w] = j \in Handled]
          /\ pc' = [pc EXCEPT ![w] = IF j \in Handled THEN "run" ELSE "raised"]
      BY <1>11 DEF Claim
    <3>2. CASE j \in Handled
      BY <3>1, <3>2
    <3>3. CASE j \notin Handled
      BY <3>1, <3>3
    <3>4. QED BY <3>2, <3>3
  <2>6. OneHolder'
    BY <1>11, <2>1 DEF Claim
  <2>3. ClaimIsCurrent'
    BY <1>11, <2>1 DEF Claim
  <2>4. ClaimsCounted'
    BY <1>11, <2>1 DEF Claim
  <2>5. QED BY <2>2, <2>3, <2>4, <2>6
<1>12. ASSUME NEW w \in Workers, NEW o \in {"succeeded", "raised"}, Finish(w, o)
       PROVE CalmInv'
  BY <1>12 DEF Finish
<1>13. CASE UNCHANGED vars
  BY <1>13 DEF vars
<1>14. QED
  BY <1>1, <1>2, <1>3, <1>4, <1>5, <1>6, <1>7, <1>8, <1>9, <1>10, <1>11, <1>12, <1>13
  DEF Next, WorkerStep

\* In a calm environment the memories of the workers and the table agree.
THEOREM CalmCorrect ==
    ASSUME Calm PROVE Spec => [](TypeOK /\ CalmInv)
<1>1. Init => TypeOK /\ CalmInv
  BY TypeInit, CalmInit
<1>2. TypeOK /\ CalmInv /\ [Next]_vars => (TypeOK /\ CalmInv)'
  BY TypeStep, CalmStep
<1>3. QED BY <1>1, <1>2, PTL DEF Spec

\* No two workers ever process the same job: neither a claim, nor the recovery of a lease, nor a
\* manual retry hands out a job that a live worker holds.
THEOREM MutualExclusion ==
    ASSUME Calm PROVE Spec => []OneHolder
<1>1. CalmInv => OneHolder
  BY DEF CalmInv
<1>2. QED BY <1>1, CalmCorrect, PTL

\* A job is claimed at most MaxRetries + 1 times before an administrator retries it.
THEOREM RetriesBounded ==
    ASSUME Calm PROVE Spec => []RetryBudget
<1>1. TypeOK /\ CalmInv => RetryBudget
  BY RetriesAssumption
  DEF TypeOK, CalmInv, ClaimsCounted, RetryBudget, RowStatus, JobStatus, Waiting, Terminal
<1>2. QED BY <1>1, CalmCorrect, PTL

\* An expired lease is the lease of a dead worker.
THEOREM LeaseIsSound ==
    ASSUME Calm PROVE Spec => []ExpiredMeansDead
<1>1. TypeOK /\ CalmInv => ExpiredMeansDead
  BY HeldIsFresh, JobsAssumption DEF ExpiredMeansDead, Holds, Stale
<1>2. QED BY <1>1, CalmCorrect, PTL

\* The attempts at a job are counted right and a lease is taken from the dead only.
THEOREM LeasesAndRetriesHold ==
    ASSUME Calm PROVE Spec => []LeasesAndRetries
<1>1. RetryBudget /\ ExpiredMeansDead => LeasesAndRetries
  BY DEF LeasesAndRetries
<1>2. QED BY <1>1, RetriesBounded, LeaseIsSound, PTL

\* Only a manual retry takes a job out of COMPLETED or FAILED: every other writer of the
\* status works on a job that waits or is being processed.
LEMMA VerdictStep ==
    ASSUME TypeOK, CalmInv, [Next]_vars, NEW j \in Jobs,
           status[j] \in Terminal, status'[j] # status[j]
    PROVE  faults'.requeues = faults.requeues + 1
<1> USE DEF TypeOK, CalmInv, ClaimIsCurrent, LoopConsistent, Terminal, Waiting, rows, workers
<1>1. CASE Tick
  BY <1>1 DEF Tick
<1>2. ASSUME NEW i \in Jobs, Enqueue(i) PROVE FALSE
  BY <1>2 DEF Enqueue
<1>3. ASSUME NEW i \in Jobs, Requeue(i) PROVE faults'.requeues = faults.requeues + 1
  BY <1>3 DEF Requeue, Faults
<1>4. ASSUME NEW w \in Workers, RecoverStale(w) PROVE FALSE
  BY <1>4 DEF RecoverStale, Stale, Exhausted
<1>5. ASSUME NEW w \in Workers, Ack(w) PROVE FALSE
  <2>1. status[held[w]] = "PROCESSING"
    BY <1>5, JobsAssumption DEF Ack, Complete, FailRetry, FailFinal
  <2>2. QED BY <1>5, <2>1 DEF Ack, Complete, FailRetry, FailFinal
<1>6. ASSUME NEW w \in Workers, NEW i \in Jobs, Claim(w, i) PROVE FALSE
  BY <1>6 DEF Claim, Eligible
<1>7. ASSUME NEW w \in Workers,
             \/ NothingToClaim(w) \/ Heartbeat(w) \/ HeartbeatDies(w) \/ Crash(w)
             \/ \E i \in Jobs : TerminalHook(w, i)
             \/ \E o \in {"succeeded", "raised"} : Finish(w, o)
      PROVE FALSE
  BY <1>7 DEF NothingToClaim, Heartbeat, HeartbeatDies, Crash, TerminalHook, Finish
<1>8. CASE UNCHANGED vars
  BY <1>8 DEF vars
<1>9. QED
  BY <1>1, <1>2, <1>3, <1>4, <1>5, <1>6, <1>7, <1>8 DEF Next, WorkerStep

\* COMPLETED and FAILED are left through a manual retry only.
THEOREM VerdictsAreFinal ==
    ASSUME Calm PROVE Spec => VerdictIsFinal
<1>1. TypeOK /\ CalmInv /\ [Next]_vars
        => [\A j \in Jobs : status[j] \in Terminal /\ status'[j] # status[j]
                              => faults'.requeues = faults.requeues + 1]_vars
  BY VerdictStep
<1>2. QED BY <1>1, CalmCorrect, PTL DEF Spec, VerdictIsFinal

-----------------------------------------------------------------------------
(* The refinement.                                                         *)

\* What the choice in Owner comes to when no job has two holders.
LEMMA OwnerIs ==
    ASSUME TypeOK, CalmInv, NEW j \in Jobs
    PROVE  /\ \A w \in Workers : held[w] = j <=> Owner[j] = w
           /\ (\A w \in Workers : held[w] # j) <=> Owner[j] = NoWorker
<1>1. CASE \E w \in Workers : held[w] = j
  <2>1. PICK w \in Workers : held[w] = j
    BY <1>1
  <2>2. \A v \in Workers : held[v] = j => v = w
    BY <2>1, JobsAssumption DEF CalmInv, OneHolder, Holds
  <2>3. Owner[j] = w
    BY <2>1, <2>2 DEF Owner
  <2>4. QED BY <2>1, <2>2, <2>3, NoWorkerAssumption
<1>2. CASE \A w \in Workers : held[w] # j
  BY <1>2, NoWorkerAssumption DEF Owner
<1>3. QED BY <1>1, <1>2

LEMMA LifecycleInit == Init => Lifecycle!Init
  BY JobsAssumption DEF Init, Lifecycle!Init, Owner

LEMMA LifecycleStep ==
    ASSUME TypeOK, CalmInv, TypeOK', CalmInv', [Next]_vars
    PROVE  [Lifecycle!Next]_(Lifecycle!vars)
<1>0. /\ Owner \in [Jobs -> Workers \cup {NoWorker}]
      /\ Owner' \in [Jobs -> Workers \cup {NoWorker}]
  BY DEF Owner
<1>a. held' = held => Owner' = Owner
  BY DEF Owner
<1> USE JobsAssumption DEF rows, workers
<1>1. CASE Tick
  BY <1>1, <1>a DEF Tick, Lifecycle!vars
<1>2. ASSUME NEW j \in Jobs, Enqueue(j) PROVE Lifecycle!Publish(j)
  BY <1>2, <1>a DEF Enqueue, Lifecycle!Publish
<1>3. ASSUME NEW j \in Jobs, Requeue(j) PROVE Lifecycle!Reset(j)
  BY <1>3, <1>a DEF Requeue, Lifecycle!Reset
<1>4. ASSUME NEW w \in Workers, RecoverStale(w) PROVE Lifecycle!Expire(Stale)
  <2>1. \A j \in Stale : status[j] = "PROCESSING" /\ Owner[j] = NoWorker
    BY HeldIsFresh, OwnerIs DEF Stale
  <2>2. \A j \in Jobs : j \in Exhausted <=> j \in Stale /\ ~(retryCount[j] < MaxRetries)
    BY RetriesAssumption DEF Exhausted, TypeOK, Stale
  <2>3. /\ status' = [j \in Jobs |-> IF j \notin Stale THEN status[j]
                                     ELSE IF retryCount[j] < MaxRetries THEN "RETRYING"
                                     ELSE "FAILED"]
        /\ retryCount' = [j \in Jobs |-> IF j \in Stale /\ retryCount[j] < MaxRetries
                                         THEN retryCount[j] + 1 ELSE retryCount[j]]
    BY <1>4, <2>2 DEF RecoverStale
  <2>4. UNCHANGED Owner
    BY <1>4, <1>a DEF RecoverStale
  <2>5. QED BY <2>1, <2>3, <2>4 DEF Lifecycle!Expire
<1>5. ASSUME NEW w \in Workers, Ack(w)
      PROVE  Lifecycle!Succeed(held[w]) \/ Lifecycle!Fail(held[w])
  <2>1. /\ held[w] \in Jobs /\ status[held[w]] = "PROCESSING"
        /\ seen[w] = retryCount[held[w]] /\ held' = [held EXCEPT ![w] = NoJob]
    BY <1>5 DEF Ack, Complete, FailRetry, FailFinal, Release, TypeOK, CalmInv,
                LoopConsistent, ClaimIsCurrent
  <2>2. Owner[held[w]] = w /\ w # NoWorker
    BY <2>1, OwnerIs, NoWorkerAssumption
  <2>3. Owner' = [Owner EXCEPT ![held[w]] = NoWorker]
    <3>1. \A i \in Jobs : Owner'[i] = IF i = held[w] THEN NoWorker ELSE Owner[i]
      <4> TAKE i \in Jobs
      <4>1. CASE i = held[w]
        <5>1. \A v \in Workers : held'[v] # i
          BY <2>1, <4>1 DEF TypeOK, CalmInv, OneHolder, Holds
        <5>2. QED BY <4>1, <5>1 DEF Owner
      <4>2. CASE i # held[w]
        <5>1. \A v \in Workers : held'[v] = i <=> held[v] = i
          BY <2>1, <4>2 DEF TypeOK
        <5>2. QED BY <4>2, <5>1 DEF Owner
      <4>3. QED BY <4>1, <4>2
    <3>2. QED BY <1>0, <3>1
  <2>4. CASE Complete(w)
    BY <2>1, <2>2, <2>3, <2>4 DEF Complete, Lifecycle!Succeed
  <2>5. CASE FailRetry(w)
    BY <2>1, <2>2, <2>3, <2>5 DEF FailRetry, Lifecycle!Fail, TypeOK
  <2>6. CASE FailFinal(w)
    BY <2>1, <2>2, <2>3, <2>6, RetriesAssumption DEF FailFinal, Lifecycle!Fail, TypeOK
  <2>7. QED BY <1>5, <2>4, <2>5, <2>6 DEF Ack
<1>6. ASSUME NEW w \in Workers, Crash(w)
      PROVE  UNCHANGED Lifecycle!vars \/ \E j \in Jobs : Lifecycle!Die(j)
  <2>1. UNCHANGED <<status, retryCount>> /\ held' = [held EXCEPT ![w] = NoJob]
    BY <1>6 DEF Crash, Release
  <2>2. CASE held[w] = NoJob
    <3>1. held' = held
      BY <2>1, <2>2 DEF TypeOK
    <3>2. QED BY <2>1, <3>1, <1>a DEF Lifecycle!vars
  <2>3. CASE held[w] # NoJob
    <3>1. held[w] \in Jobs /\ Owner[held[w]] = w /\ w # NoWorker
      BY <2>3, OwnerIs, NoWorkerAssumption DEF TypeOK
    <3>2. \A i \in Jobs : Owner'[i] = IF i = held[w] THEN NoWorker ELSE Owner[i]
      <4> TAKE i \in Jobs
      <4>1. CASE i = held[w]
        <5>1. \A v \in Workers : held'[v] # i
          BY <2>1, <3>1, <4>1 DEF TypeOK, CalmInv, OneHolder, Holds
        <5>2. QED BY <4>1, <5>1 DEF Owner
      <4>2. CASE i # held[w]
        <5>1. \A v \in Workers : held'[v] = i <=> held[v] = i
          BY <2>1, <4>2 DEF TypeOK
        <5>2. QED BY <4>2, <5>1 DEF Owner
      <4>3. QED BY <4>1, <4>2
    <3>3. Owner' = [Owner EXCEPT ![held[w]] = NoWorker]
      BY <1>0, <3>2
    <3>4. QED BY <2>1, <3>1, <3>3 DEF Lifecycle!Die
  <2>4. QED BY <2>2, <2>3
<1>7. ASSUME NEW w \in Workers, NEW j \in Jobs, Claim(w, j) PROVE Lifecycle!Own(w, j)
  <2>1. /\ status[j] \in Waiting /\ held[w] = NoJob
        /\ held' = [held EXCEPT ![w] = j] /\ \A v \in Workers : held[v] # j
    BY <1>7 DEF Claim, Eligible, TypeOK, CalmInv, LoopConsistent, ClaimIsCurrent, Waiting
  <2>2. Owner[j] = NoWorker /\ \A i \in Jobs : Owner[i] # w
    BY <2>1, OwnerIs
  <2>3. \A i \in Jobs : Owner'[i] = IF i = j THEN w ELSE Owner[i]
    <3> TAKE i \in Jobs
    <3>1. CASE i = j
      <4>1. \A v \in Workers : held'[v] = i <=> v = w
        BY <2>1, <3>1 DEF TypeOK
      <4>2. QED BY <3>1, <4>1 DEF Owner
    <3>2. CASE i # j
      <4>1. \A v \in Workers : held'[v] = i <=> held[v] = i
        BY <2>1, <3>2 DEF TypeOK
      <4>2. QED BY <3>2, <4>1 DEF Owner
    <3>3. QED BY <3>1, <3>2
  <2>4. Owner' = [Owner EXCEPT ![j] = w]
    BY <1>0, <2>3
  <2>5. QED BY <1>7, <2>1, <2>2, <2>4 DEF Claim, Lifecycle!Own, Waiting
<1>8. ASSUME NEW w \in Workers,
             \/ NothingToClaim(w) \/ Heartbeat(w) \/ HeartbeatDies(w)
             \/ \E i \in Jobs : TerminalHook(w, i)
             \/ \E o \in {"succeeded", "raised"} : Finish(w, o)
      PROVE  UNCHANGED Lifecycle!vars
  BY <1>8, <1>a DEF NothingToClaim, Heartbeat, HeartbeatDies, TerminalHook, Finish, Lifecycle!vars
<1>9. CASE UNCHANGED vars
  BY <1>9, <1>a DEF vars, Lifecycle!vars
<1>10. ASSUME NEW w \in Workers, Ack(w) PROVE held[w] \in Jobs
  BY <1>10 DEF Ack, Complete, FailRetry, FailFinal, TypeOK, CalmInv, LoopConsistent
<1>11. ASSUME NEW w \in Workers, RecoverStale(w) PROVE Stale \in SUBSET Jobs
  BY DEF Stale
<1>12. QED
  BY <1>1, <1>2, <1>3, <1>4, <1>5, <1>6, <1>7, <1>8, <1>9, <1>10, <1>11
  DEF Next, WorkerStep, Lifecycle!Next

\* In a calm environment the queue implements the life cycle of app/jobs/service.py.
THEOREM QueueImplementsLifecycle ==
    ASSUME Calm PROVE Spec => ImplementsLifecycle
<1>1. (TypeOK /\ CalmInv) /\ (TypeOK /\ CalmInv)' /\ [Next]_vars
        => [Lifecycle!Next]_(Lifecycle!vars)
  BY LifecycleStep
<1>2. QED
  BY <1>1, LifecycleInit, CalmCorrect, PTL DEF Spec, ImplementsLifecycle, Lifecycle!Spec
=============================================================================
