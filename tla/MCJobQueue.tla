----------------------------- MODULE MCJobQueue -----------------------------
(***************************************************************************)
(* The instances of JobQueue that TLC checks.                              *)
(***************************************************************************)
EXTENDS JobQueueRefinement, TLC

CONSTANTS j1, j2, j3, w1, w2

\* One job more urgent than the other; ticks stand for 5 minutes or so.
UrgentFirst == j1 :> 10 @@ j2 :> 100 @@ j3 :> 100
SamePriority == [j \in Jobs |-> 100]
ShortBackoff == <<1>>
GrowingBackoff == <<0, 2>>

AnyStatus == JobStatus
NotRunning == JobStatus \ {"PROCESSING"}

Symmetric == Permutations({w1, w2})
=============================================================================
