------------------------------- MODULE People -------------------------------
(***************************************************************************)
(* Those who use the platform: the sessions of a user, the onboarding of   *)
(* the mentors and the requests they get, and the guided modules of a      *)
(* founder.  They share no row that is modelled, and their steps           *)
(* interleave as they please.                                              *)
(***************************************************************************)
EXTENDS Accounts, Mentorship, Academy

peopleVars == <<accountVars, mentorVars, academyVars>>

PeopleInit == AccountInit /\ MentorInit /\ AcademyInit
PeopleNext ==
    \/ AccountNext /\ UNCHANGED <<mentorVars, academyVars>>
    \/ MentorNext /\ UNCHANGED <<accountVars, academyVars>>
    \/ AcademyNext /\ UNCHANGED <<accountVars, mentorVars>>
PeopleSpec == PeopleInit /\ [][PeopleNext]_peopleVars

\* The types of the three components.
PeopleTypeOK == AccountTypeOK /\ MentorTypeOK /\ AcademyTypeOK
=============================================================================
