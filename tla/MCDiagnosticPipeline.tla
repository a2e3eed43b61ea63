------------------------ MODULE MCDiagnosticPipeline ------------------------
(***************************************************************************)
(* The instances of DiagnosticPipeline that TLC checks: one diagnostic and *)
(* two workers, which is enough for two attempts to overlap.               *)
(***************************************************************************)
EXTENDS DiagnosticPipeline, TLC

CONSTANTS w1, w2, s1, s2, c1, c2, d1

SamePriority == [j \in Jobs |-> 100]
NoDelay == <<0>>
NotRunning == JobStatus \ {"PROCESSING"}

Symmetric == Permutations({w1, w2}) \cup Permutations({s1, s2}) \cup Permutations({c1, c2})
=============================================================================
