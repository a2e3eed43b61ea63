------------------------------ MODULE Projects ------------------------------
(***************************************************************************)
(* What surrounds a project: its scorings and its memory, its documents    *)
(* and links, the audits of its dossiers, the founder's deck and logo, the *)
(* benches that tune the scoring, and the reading of its reports.  They    *)
(* share no row that is modelled, and their steps interleave as they       *)
(* please.                                                                 *)
(***************************************************************************)
EXTENDS Scoring, ProjectVault, Audit, Workbench, Bench, Journey

projectsVars == <<scoringVars, vaultVars, auditVars, workbenchVars, benchVars, journeyVars>>

ProjectsInit == ScoringInit /\ VaultInit /\ AuditInit /\ WorkbenchInit /\ BenchInit /\ JourneyInit
ProjectsNext ==
    \/ ScoringNext /\ UNCHANGED <<vaultVars, auditVars, workbenchVars, benchVars, journeyVars>>
    \/ VaultNext /\ UNCHANGED <<scoringVars, auditVars, workbenchVars, benchVars, journeyVars>>
    \/ AuditNext /\ UNCHANGED <<scoringVars, vaultVars, workbenchVars, benchVars, journeyVars>>
    \/ WorkbenchNext /\ UNCHANGED <<scoringVars, vaultVars, auditVars, benchVars, journeyVars>>
    \/ BenchNext /\ UNCHANGED <<scoringVars, vaultVars, auditVars, workbenchVars, journeyVars>>
    \/ JourneyNext /\ UNCHANGED <<scoringVars, vaultVars, auditVars, workbenchVars, benchVars>>
ProjectsSpec == ProjectsInit /\ [][ProjectsNext]_projectsVars

\* The types of the six components.
ProjectsTypeOK ==
    ScoringTypeOK /\ VaultTypeOK /\ AuditTypeOK /\ WorkbenchTypeOK /\ BenchTypeOK /\ JourneyTypeOK
=============================================================================
