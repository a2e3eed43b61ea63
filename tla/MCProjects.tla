----------------------------- MODULE MCProjects -----------------------------
(***************************************************************************)
(* What surrounds a project, in small: an execution is a scene of one of   *)
(* the six components, in which the others stay as they began.  They share *)
(* nothing, so that no interleaving of two of them shows more.             *)
(***************************************************************************)
EXTENDS Projects, TLC

CONSTANTS g1, g2, adm1, adm2, s1, j1, o1, o2, f1, k1, d1, l1, r1, r2, t1, t2,
          p1, p2, fallback, qs, qt, qp, made_up, f, m, a, opp1, c1, c2

-----------------------------------------------------------------------------
(* Two small grids; what two passes of the LLM and a founder give.         *)
ASSUME TheGridIsValid == ValidGrid(RadarV2)

Axis(key) == [key |-> key, pillar |-> "viabilite", anchors |-> Bands, lever |-> "academy", question |-> TRUE]
SmallGrid(w) == [scale |-> 10, axes |-> <<Axis("d4"), Axis("d6")>>, weights |-> [fintech |-> [d6 |-> w]]]
TwoGrids == g1 :> SmallGrid(15) @@ g2 :> SmallGrid(10)
Scored(x, y) == [d4 |-> x, d6 |-> y]
SomePasses == {Scored(4, 4), Scored(6, 5), Scored(9, 4), [d4 |-> 5]}
HumanScored == {Scored(8, 9)}
OnD6 == f1 :> "d6"

-----------------------------------------------------------------------------
(* Three dossiers, one too short; what a pass finds in them.               *)
Dossier(r, n) == [reference |-> r, narrative |-> n]
ThreeDossiers == <<Dossier("A", "readable"), Dossier("B", "readable"), Dossier("C", "short")>>
Says(t, x, y, s) == [type |-> t, quote_a |-> x, quote_b |-> y, severity |-> s]
ListOf(type, findings) == [type |-> type, findings |-> findings]
Findable ==
    {<<None, ListOf("internal", <<Says(None, qs, qt, 9)>>),
       ListOf("market", <<Says("market", qt, qp, 0), Says("temporal", qp, None, 2), Says("market", made_up, qs, 2)>>)>>}
LongQuotes == {<<qp, qs>>, <<qp, qt>>}

-----------------------------------------------------------------------------
(* Answers of the LLM for a deck and for a logo.                           *)
Concept(angle, mode) == [angle |-> angle, mode |-> mode]
Unlabelled == Concept(None, None)
LogoGiven ==
    {None, <<>>, <<Concept("wordmark", None), Unlabelled>>,
     <<Concept(None, "monogram"), Concept("name-literal", None)>>,
     <<None, Unlabelled, Unlabelled, Unlabelled, Unlabelled, Unlabelled>>}
DeckGiven == {<<"slide", "slide">>, <<"junk", "slide">>, <<"junk">>}

-----------------------------------------------------------------------------
(* Two cases for the exception bench; three command lines for the other.   *)
BenchAxes == [scale |-> 10, axes |-> <<[key |-> "k1", pillar |-> "p"], [key |-> "k2", pillar |-> "p"]>>,
              weights |-> <<>>]
Pass(x, y) == [k1 |-> x, k2 |-> y]
ThinAndRich == <<[quality |-> "thin"], [quality |-> "rich"]>>
BenchPasses == {None, Pass(5, 5), Pass(5, 9), [k1 |-> 5], Pass(5, 11)}
TwoSweeps == {<<None>>, <<2, 7>>}
OneChain == (fallback :> {p1, p2}) @@ (p1 :> {}) @@ (p2 :> {})
BenchOutputs ==
    {None, [listed |-> FALSE],
     [listed |-> TRUE,
      entries |-> <<None, ListOf("market", <<Says("market", qs, qt, 2), Says("temporal", qt, qs, 2), Says("x", qs, made_up, 2)>>)>>]}
Case(clean) == [controle_propre |-> clean]
CommandLine(variants, n, cases, context, dedup) ==
    [variants |-> variants, runs |-> n, cases |-> cases, use_context |-> context, use_dedup |-> dedup]
CommandLines ==
    {CommandLine(<<"v2b">>, 1, <<Case(FALSE)>>, TRUE, TRUE),
     CommandLine(<<"v1", "v2c">>, 2, <<Case(FALSE), Case(TRUE)>>, TRUE, TRUE),
     CommandLine(<<"v2cfr", "v2a">>, 1, <<Case(TRUE), Case(FALSE)>>, FALSE, FALSE)}

-----------------------------------------------------------------------------
(* A founder, a mentor and an admin.                                       *)
ThreeRoles == f :> "founder" @@ m :> "mentor" @@ a :> "admin"
OneCriterion == {[is_active |-> TRUE, min_overall |-> 60, min_maturity |-> 5, sector |-> None]}
TwoResults == {[overall |-> 5, d11 |-> 6], [overall |-> 7, d11 |-> None]}

-----------------------------------------------------------------------------
VARIABLE scene

Scores == {"grids", "switch", "scores", "memory"}
Benches == {"exceptions", "contradictions"}
Readings == {"review", "funnel", "catalogue"}
Scenes == Scores \cup Benches \cup Readings \cup {"vault", "audits", "workbench"}

\* Three ways to bound what the threads do: reviews of the reports while rights change; the
\* founder's path through the funnel; administrators on an opportunity.
Serves(c, operations) == serving'[c].op \in operations \cup {None}
AllArrive == tokens' # tokens \/ tokens = Users
ReadsReports(kind) ==
    /\ JourneyNext
    /\ kind = "review" =>
         /\ AllArrive /\ tokens \subseteq tokens'
         /\ \A u \in Users : account'[u].grants = {}
         /\ Len(reports') <= 1 /\ \A i \in DOMAIN reports' : reports'[i].status # "FAILED" /\ ~ reports'[i].pdf
         /\ Serves(c1, AssigneeGuarded \cup {"get_detail"}) /\ Serves(c2, {"assign"})
    /\ kind = "funnel" =>
         /\ AllArrive /\ tokens \subseteq tokens' /\ account' = account
         /\ Serves(c1, Reading \cup OwnerGuarded \cup {"admin_create"}) /\ Serves(c2, {})
    /\ kind = "catalogue" =>
         /\ reports' = reports /\ account'[f] = account[f] /\ account'[a] = account[a] /\ account'[m].active
         /\ Serves(c1, OnOpp) /\ Serves(c2, OnOpp)

Plays(kind) ==
    \/ /\ kind \in Scores
       /\ \/ kind = "grids" /\ GridNext
          \/ kind = "switch" /\ (RunNext \/ Activate(adm1))
          \/ /\ kind = "scores"
             /\ RunNext \/ (MemoryNext /\ UNCHANGED <<grids, activation, scoring, adjust, runs>>)
             /\ \A o \in Adds : Adding(o)' => o = o1 /\ Len(memory') < 2
          \/ kind = "memory" /\ MemoryNext /\ UNCHANGED <<grids, activation, scoring, adjust, runs>>
       /\ UNCHANGED <<vaultVars, auditVars, workbenchVars, benchVars, journeyVars>>
    \/ /\ kind = "vault" /\ VaultNext
       /\ UNCHANGED <<scoringVars, auditVars, workbenchVars, benchVars, journeyVars>>
    \/ /\ kind = "audits" /\ AuditNext
       /\ UNCHANGED <<scoringVars, vaultVars, workbenchVars, benchVars, journeyVars>>
    \/ /\ kind = "workbench" /\ WorkbenchNext
       /\ UNCHANGED <<scoringVars, vaultVars, auditVars, benchVars, journeyVars>>
    \/ /\ kind \in Benches
       /\ (kind = "exceptions" /\ ExceptionNext) \/ (kind = "contradictions" /\ ContradictionNext)
       /\ UNCHANGED <<scoringVars, vaultVars, auditVars, workbenchVars, journeyVars>>
    \/ /\ kind \in Readings /\ ReadsReports(kind)
       /\ UNCHANGED <<scoringVars, vaultVars, auditVars, workbenchVars, benchVars>>

SceneInit ==
    /\ scene \in Scenes
    /\ ProjectsInit
    \* What is not played begins in one way.
    /\ scene \notin Scores \ {"memory"} => grids = {g1}
    /\ scene # "exceptions" => sweep = <<None>>
    /\ scene # "contradictions" => args = CommandLine(<<"v2b">>, 1, <<Case(FALSE)>>, TRUE, TRUE)
SceneNext == UNCHANGED scene /\ Plays(scene)

sceneVars == <<scene, projectsVars>>
SceneSpec == SceneInit /\ [][SceneNext]_sceneVars

\* No property tells the tabs or the calls of the vault apart, nor the texts of a founder.
Alike == Permutations({r1, r2}) \cup Permutations({t1, t2})
=============================================================================
