------------------------------ MODULE MCPeople ------------------------------
(***************************************************************************)
(* The people of the platform in small: an execution is a scene of one of  *)
(* the three components, in which the two others stay as they began.  They *)
(* share nothing, so that no interleaving of two of them shows more.       *)
(***************************************************************************)
EXTENDS People, TLC

CONSTANTS d1, d2, r1, r2, c1, a1, a2, e1, q1, f1, l1

\* One candidate who applies twice.
OneCandidate == [a \in Applications |-> e1]

\* No property tells the devices, or the requests being served, apart.
AnybodyMayCall == Permutations(Devices) \cup Permutations(Requests)

VARIABLE scene
sceneVars == <<scene, peopleVars>>

SceneInit ==
    /\ scene \in {"sessions", "mentors", "academy"}
    /\ PeopleInit
    \* What is not played begins in one way.
    /\ scene # "sessions" => account = "NONE"
    /\ scene # "academy" => \A d \in Asked : radar[d] = None
SceneNext ==
    /\ UNCHANGED scene
    /\ \/ scene = "sessions" /\ AccountNext /\ UNCHANGED <<mentorVars, academyVars>>
       \/ scene = "mentors" /\ MentorNext /\ UNCHANGED <<accountVars, academyVars>>
       \/ scene = "academy" /\ AcademyNext /\ UNCHANGED <<accountVars, mentorVars>>
SceneSpec == SceneInit /\ [][SceneNext]_sceneVars
=============================================================================
