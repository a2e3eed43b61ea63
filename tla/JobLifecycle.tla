---------------------------- MODULE JobLifecycle ----------------------------
(***************************************************************************)
(* What the job queue promises to the rest of the system, without clocks,  *)
(* leases or workers' memories: the life cycle drawn in the docstring of   *)
(* app/jobs/service.py, with the owner of each attempt.                    *)
(***************************************************************************)
EXTENDS Integers

CONSTANTS Jobs, Workers, NoWorker, MaxRetries, Resettable

VARIABLES
    state,     \* [Jobs -> the statuses of a job, or "ABSENT"]
    attempts,  \* [Jobs -> Nat], failed attempts so far
    owner      \* [Jobs -> Workers \cup {NoWorker}]

vars == <<state, attempts, owner>>

Init ==
    /\ state = [j \in Jobs |-> "ABSENT"]
    /\ attempts = [j \in Jobs |-> 0]
    /\ owner = [j \in Jobs |-> NoWorker]

\* A founder's command puts a job in the queue, once.
Publish(j) ==
    /\ state[j] = "ABSENT"
    /\ state' = [state EXCEPT ![j] = "PENDING"]
    /\ UNCHANGED <<attempts, owner>>

\* An administrator starts the life of a job again.
Reset(j) ==
    /\ state[j] \in Resettable
    /\ state' = [state EXCEPT ![j] = "PENDING"]
    /\ attempts' = [attempts EXCEPT ![j] = 0]
    /\ UNCHANGED owner

\* A worker that owns nothing becomes the owner of a waiting job that nobody owns.
Own(w, j) ==
    /\ state[j] \in {"PENDING", "RETRYING"}
    /\ \A i \in Jobs : owner[i] # w
    /\ owner[j] = NoWorker
    /\ state' = [state EXCEPT ![j] = "PROCESSING"]
    /\ owner' = [owner EXCEPT ![j] = w]
    /\ UNCHANGED attempts

\* The owner, and nobody else, reports success ...
Succeed(j) ==
    /\ state[j] = "PROCESSING" /\ owner[j] # NoWorker
    /\ state' = [state EXCEPT ![j] = "COMPLETED"]
    /\ owner' = [owner EXCEPT ![j] = NoWorker]
    /\ UNCHANGED attempts

\* ... or failure, which costs one attempt or ends the job.
Fail(j) ==
    /\ state[j] = "PROCESSING" /\ owner[j] # NoWorker
    /\ IF attempts[j] < MaxRetries
       THEN /\ state' = [state EXCEPT ![j] = "RETRYING"]
            /\ attempts' = [attempts EXCEPT ![j] = @ + 1]
       ELSE /\ state' = [state EXCEPT ![j] = "FAILED"]
            /\ UNCHANGED attempts
    /\ owner' = [owner EXCEPT ![j] = NoWorker]

\* An owner dies: the attempt is nobody's.
Die(j) ==
    /\ owner[j] # NoWorker
    /\ owner' = [owner EXCEPT ![j] = NoWorker]
    /\ UNCHANGED <<state, attempts>>

\* Attempts that are nobody's are settled like failures, several at a time.
Expire(S) ==
    /\ \A j \in S : state[j] = "PROCESSING" /\ owner[j] = NoWorker
    /\ state' = [j \in Jobs |-> IF j \notin S THEN state[j]
                                ELSE IF attempts[j] < MaxRetries THEN "RETRYING"
                                ELSE "FAILED"]
    /\ attempts' = [j \in Jobs |-> IF j \in S /\ attempts[j] < MaxRetries
                                   THEN attempts[j] + 1 ELSE attempts[j]]
    /\ UNCHANGED owner

Next ==
    \/ \E j \in Jobs : Publish(j) \/ Reset(j) \/ Succeed(j) \/ Fail(j) \/ Die(j)
    \/ \E w \in Workers, j \in Jobs : Own(w, j)
    \/ \E S \in SUBSET Jobs : Expire(S)

Spec == Init /\ [][Next]_vars
=============================================================================
