------------------------------ MODULE MCWaiting ------------------------------
(***************************************************************************)
(* What a founder waits for: a request on a rehearsal that two tabs have   *)
(* open, the calls of the LLM that hold it up, and the limit that lets a   *)
(* request in.  They share nothing that is modelled: an execution is a     *)
(* scene of one of the three, in which the others stay as they began.      *)
(***************************************************************************)
EXTENDS PitchSession, Resilience, TLC

CONSTANTS ba, ndiaye, sow, market, money, m1, b1, b2, b3, s1, s2, r1, r2

OneJudge == <<ba>>
Obsessions == ba :> market @@ ndiaye :> money @@ sow :> money
SmallPool == market :> {m1} @@ money :> {b1}

VARIABLE scene
waitingVars == <<scene, pitchVars, resilienceVars>>

WaitingInit == scene \in {"tabs", "chain", "limit"} /\ PitchInit /\ ResilienceInit
WaitingNext ==
    /\ UNCHANGED scene
    /\ \/ scene = "tabs" /\ PitchNext /\ UNCHANGED resilienceVars
       \/ scene = "chain" /\ ChainNext /\ UNCHANGED pitchVars
       \/ scene = "limit" /\ LimitNext /\ UNCHANGED pitchVars

\* Each component with its own fairness.
WaitingSpec ==
    /\ WaitingInit /\ [][WaitingNext]_waitingVars
    /\ \A r \in Requests : SF_pitchVars(Serve(r))
    /\ ResilienceFairness
=============================================================================
