--------------------------- MODULE MCPitchSession ---------------------------
(***************************************************************************)
(* The instances of PitchSession that TLC checks.  As in the committee     *)
(* « investisseur » with its fintech expert, two judges share an obsession *)
(* whose angles are too few for both.                                      *)
(***************************************************************************)
EXTENDS PitchSession, TLC

CONSTANTS ba, ndiaye, sow, market, money, m1, b1, b2, b3, s1, s2, r1, r2

SharedAxis == <<ndiaye, sow>>
OneJudge == <<ba>>
Obsessions == ba :> market @@ ndiaye :> money @@ sow :> money
AnglePool == market :> {m1} @@ money :> {b1, b2, b3}
SmallPool == market :> {m1} @@ money :> {b1}

Symmetric == Permutations({b1, b2, b3})
SymmetricTabs == Permutations({r1, r2})
=============================================================================
