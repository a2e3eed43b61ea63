------------------------- MODULE JobQueueRefinement -------------------------
(***************************************************************************)
(* In a calm environment the queue implements the life cycle it promises.  *)
(***************************************************************************)
EXTENDS JobQueue

CONSTANT NoWorker
ASSUME NoWorkerAssumption == NoWorker \notin Workers

\* The owner of an attempt is the worker whose loop holds the job.
Owner == [j \in Jobs |-> IF \E w \in Workers : held[w] = j
                         THEN CHOOSE w \in Workers : held[w] = j
                         ELSE NoWorker]

Lifecycle == INSTANCE JobLifecycle
    WITH state <- status, attempts <- retryCount, owner <- Owner,
         Resettable <- RequeueFrom

\* The queue, its leases and the rows its workers remember behave as the life cycle that
\* app/jobs/service.py documents: one owner, whose verdict alone settles its attempt.
ImplementsLifecycle == Lifecycle!Spec
=============================================================================
