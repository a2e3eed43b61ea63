----------------------------- MODULE Mentorship -----------------------------
(***************************************************************************)
(* Mentors (app/mentors): the application of a candidate, its review, the  *)
(* invitation that activates the account it created, the suspension of a   *)
(* mentor, the profile a mentor shows or hides himself, and the requests   *)
(* that founders send to mentors.                                          *)
(*                                                                         *)
(* A call is one HTTP request in its transaction.  Each operation reads    *)
(* its rows and checks them (Open...), and writes and commits later        *)
(* (Commit...), whatever other calls did in between.  What is written is   *)
(* what differs from what was loaded.  The history variable crossed keeps  *)
(* which of the calls that write is_active overlapped; no step depends on  *)
(* it.                                                                     *)
(***************************************************************************)
EXTENDS Persistence, Naturals, FiniteSets

CONSTANTS
    Applications,   \* rows of mentor_applications
    Emails,         \* the candidates; a user and a profile for each at most
    EmailOf,        \* [Applications -> Emails]; one candidate may apply again
    Asks,           \* rows of mentor_requests
    Calls           \* the calls being served

ASSUME MentorshipAssumption == EmailOf \in [Applications -> Emails] /\ None \notin Emails

VARIABLES
    application,  \* [Applications -> its status]
    mentor,       \* [Emails -> the status of the user]
    listed,       \* profile.is_active: the mentor is shown in the marketplace
    invite,       \* [Applications -> the status of the invitation it led to]
    lapsed,       \* the invitations past their expires_at
    ask,          \* [Asks -> a row of mentor_requests]
    call,         \* [Calls -> what a call has loaded]
    crossed       \* history: the mentors of whom two calls were about to write is_active

onboarding == <<application, mentor, listed, invite, lapsed>>
mentorVars == <<onboarding, ask, call, crossed>>

MentorApplicationStatus == {"PENDING", "APPROVED", "REJECTED"}
MentorAccountStatus == {"INVITED", "ACTIVE", "SUSPENDED"}
MentorInvitationStatus == {"PENDING", "ACCEPTED"}
MentorRequestStatus == {"REQUESTED", "ACCEPTED", "DECLINED", "SESSION_PLANNED", "DONE", "CANCELLED"}

\* Mutant: a session can be closed that was never planned.
MENTOR_TRANSITIONS_Short == {<<"REQUESTED", "ACCEPTED">>, <<"REQUESTED", "DECLINED">>,
    <<"ACCEPTED", "SESSION_PLANNED">>, <<"ACCEPTED", "DONE">>, <<"SESSION_PLANNED", "DONE">>}
MENTOR_TRANSITIONS == {<<"REQUESTED", "ACCEPTED">>, <<"REQUESTED", "DECLINED">>,
                       <<"ACCEPTED", "SESSION_PLANNED">>, <<"SESSION_PLANNED", "DONE">>}
FOUNDER_TRANSITIONS == {"REQUESTED", "ACCEPTED", "SESSION_PLANNED"} \X {"CANCELLED"}

MentorRequest == [status : MentorRequestStatus \cup {"ABSENT"}, mentor : Emails \cup {None}, session_at : BOOLEAN]
MentorApplication == MentorApplicationStatus \cup {"ABSENT"}
MentorProfile == BOOLEAN

\* The calls that write is_active of a profile.
Visibility == {"suspend", "activate", "update_profile"}
MentorOperations == {"approve", "reject", "accept_invitation", "request",
                     "respond", "plan", "complete", "cancel"} \cup Visibility
MentorCall == [op : MentorOperations \cup {"none"}, on : Applications \cup Emails \cup Asks \cup {None},
         seen : {"none"} \cup MentorApplication \cup MentorAccountStatus \cup MentorRequestStatus,
         profile : {"unread", "TRUE", "FALSE"}]
NoCall == [op |-> "none", on |-> None, seen |-> "none", profile |-> "unread"]

\* The types of the rows and of what the calls have loaded.
MentorTypeOK ==
    /\ application \in [Applications -> MentorApplication]
    /\ mentor \in [Emails -> MentorAccountStatus \cup {"NONE"}]
    /\ listed \in [Emails -> MentorProfile]
    /\ invite \in [Applications -> MentorInvitationStatus \cup {"NONE"}]
    /\ lapsed \subseteq Applications
    /\ ask \in [Asks -> MentorRequest]
    /\ call \in [Calls -> MentorCall]
    /\ crossed \subseteq Emails
    /\ \A c \in Calls :
        /\ call[c].op \in {"approve", "reject", "accept_invitation"} => call[c].on \in Applications
        /\ call[c].op \in Visibility \cup {"request"} => call[c].on \in Emails
        /\ call[c].op \in {"respond", "plan", "complete", "cancel"} =>
               call[c].on \in Asks /\ ask[call[c].on].mentor # None

MentorInit ==
    /\ application = [a \in Applications |-> "ABSENT"]
    /\ mentor = [e \in Emails |-> "NONE"]
    /\ listed = [e \in Emails |-> FALSE]
    /\ invite = [a \in Applications |-> "NONE"]
    /\ lapsed = {}
    /\ ask = [q \in Asks |-> [status |-> "ABSENT", mentor |-> None, session_at |-> FALSE]]
    /\ call = [c \in Calls |-> NoCall]
    /\ crossed = {}

Crossing(op, on) == op \in Visibility /\ \E d \in Calls : call[d].op \in Visibility /\ call[d].on = on

OpenCall(c, op, on, seen) ==
    /\ call[c].op = "none"
    /\ call' = [call EXCEPT ![c] = [op |-> op, on |-> on, seen |-> seen, profile |-> "unread"]]
    /\ crossed' = crossed \cup {e \in {on} : Crossing(op, e)}
CloseCall(c) == call' = [call EXCEPT ![c] = NoCall] /\ UNCHANGED crossed

-----------------------------------------------------------------------------
(* Applications and invitations.                                           *)

Apply(a) ==
    /\ application[a] = "ABSENT"
    /\ application' = [application EXCEPT ![a] = "PENDING"]
    /\ UNCHANGED <<mentor, listed, invite, lapsed, ask, call, crossed>>

OpenReview(c, a, op) ==
    /\ op \in {"approve", "reject"}
    /\ application[a] = "PENDING"
    /\ OpenCall(c, op, a, "PENDING")
    /\ UNCHANGED <<onboarding, ask>>

\* Mutant: nothing keeps two users from having the same email.
NewAccountTwice(a) ==
    /\ mentor' = [mentor EXCEPT ![EmailOf[a]] = "INVITED"]
    /\ listed' = [listed EXCEPT ![EmailOf[a]] = TRUE]
    /\ invite' = [invite EXCEPT ![a] = "PENDING"]
\* The account, its profile and the invitation, unless the email has an account already:
\* the unique index on users.email decides between two approvals.
NewAccount(a) ==
    /\ mentor[EmailOf[a]] = "NONE"
    /\ mentor' = [mentor EXCEPT ![EmailOf[a]] = "INVITED"]
    /\ listed' = [listed EXCEPT ![EmailOf[a]] = TRUE]
    /\ invite' = [invite EXCEPT ![a] = "PENDING"]

Approve(c) ==
    /\ call[c].op = "approve"
    /\ \/ /\ NewAccount(call[c].on)
          /\ application' = [application EXCEPT ![call[c].on] = "APPROVED"]
       \/ mentor[EmailOf[call[c].on]] # "NONE" /\ UNCHANGED <<application, mentor, listed, invite>>
    /\ CloseCall(c)
    /\ UNCHANGED <<lapsed, ask>>

Reject(c) ==
    /\ call[c].op = "reject"
    /\ application' = [application EXCEPT ![call[c].on] = "REJECTED"]
    /\ CloseCall(c)
    /\ UNCHANGED <<mentor, listed, invite, lapsed, ask>>

\* Seven days pass.
Lapse(a) ==
    /\ invite[a] # "NONE"
    /\ lapsed' = lapsed \cup {a}
    /\ UNCHANGED <<application, mentor, listed, invite, ask, call, crossed>>

OpenInvitation(c, a) ==
    /\ invite[a] = "PENDING" /\ a \notin lapsed
    /\ OpenCall(c, "accept_invitation", a, mentor[EmailOf[a]])
    /\ UNCHANGED <<onboarding, ask>>

ActivateMentor(c) ==
    LET a == call[c].on  e == EmailOf[a] IN
    /\ call[c].op = "accept_invitation"
    /\ mentor' = [mentor EXCEPT ![e] = Column(call[c].seen, "ACTIVE", mentor[e])]
    /\ invite' = [invite EXCEPT ![a] = "ACCEPTED"]
    /\ CloseCall(c)
    /\ UNCHANGED <<application, listed, lapsed, ask>>

-----------------------------------------------------------------------------
(* Suspension: the user is read, then his profile, then both are written.  *)
(* An active mentor may write is_active of his profile himself.            *)

OpenMentor(c, e, op) ==
    /\ op \in {"suspend", "activate"}
    /\ mentor[e] # "NONE"
    /\ OpenCall(c, op, e, mentor[e])
    /\ UNCHANGED <<onboarding, ask>>

\* The token is checked against the status of the user before the profile is read.
OpenProfile(c, e) ==
    /\ mentor[e] = "ACTIVE"
    /\ OpenCall(c, "update_profile", e, mentor[e])
    /\ UNCHANGED <<onboarding, ask>>

ReadProfile(c) ==
    /\ call[c].op \in Visibility /\ call[c].profile = "unread"
    /\ call' = [call EXCEPT ![c].profile = IF listed[call[c].on] THEN "TRUE" ELSE "FALSE"]
    /\ UNCHANGED <<onboarding, ask, crossed>>

\* Mutant: the suspension forgets the marketplace.
SetMentorStatusOnly(c) ==
    LET e == call[c].on IN
    /\ call[c].op \in {"suspend", "activate"} /\ call[c].profile # "unread"
    /\ mentor' = [mentor EXCEPT ![e] = IF call[c].op = "suspend" THEN "SUSPENDED" ELSE "ACTIVE"]
    /\ CloseCall(c)
    /\ UNCHANGED <<application, listed, invite, lapsed, ask>>
SetMentorStatus(c) ==
    LET e == call[c].on  suspend == call[c].op = "suspend" IN
    /\ call[c].op \in {"suspend", "activate"} /\ call[c].profile # "unread"
    /\ mentor' = [mentor EXCEPT ![e] = Column(call[c].seen, IF suspend THEN "SUSPENDED" ELSE "ACTIVE", mentor[e])]
    /\ listed' = [listed EXCEPT ![e] = Column(call[c].profile = "TRUE", ~suspend, listed[e])]
    /\ CloseCall(c)
    /\ UNCHANGED <<application, invite, lapsed, ask>>

\* The mentor's own PATCH.  A field that is not sent keeps its value, as one sent unchanged does.
UpdateMyProfile(c) ==
    LET e == call[c].on IN
    /\ call[c].op = "update_profile" /\ call[c].profile # "unread"
    /\ \E available \in BOOLEAN :
        listed' = [listed EXCEPT ![e] = Column(call[c].profile = "TRUE", available, listed[e])]
    /\ CloseCall(c)
    /\ UNCHANGED <<application, mentor, invite, lapsed, ask>>

-----------------------------------------------------------------------------
(* The requests of founders.                                               *)

Marketplace == {e \in Emails : listed[e]}

OpenRequest(c, e) ==
    /\ e \in Marketplace
    /\ OpenCall(c, "request", e, "none")
    /\ UNCHANGED <<onboarding, ask>>

RequestMentor(c, q) ==
    /\ call[c].op = "request" /\ ask[q].status = "ABSENT"
    /\ ask' = [ask EXCEPT ![q] = [status |-> "REQUESTED", mentor |-> call[c].on, session_at |-> FALSE]]
    /\ CloseCall(c)
    /\ UNCHANGED onboarding

\* The mentor answers, plans and closes, the founder cancels, from the status that was loaded.
Targets(op, from) ==
    CASE op = "respond"  -> {t \in {"ACCEPTED", "DECLINED"} : <<from, t>> \in MENTOR_TRANSITIONS}
      [] op = "plan"     -> {t \in {"SESSION_PLANNED"} : <<from, t>> \in MENTOR_TRANSITIONS}
      [] op = "complete" -> {t \in {"DONE"} : <<from, t>> \in MENTOR_TRANSITIONS}
      [] op = "cancel"   -> {t \in {"CANCELLED"} : <<from, t>> \in FOUNDER_TRANSITIONS}

OpenAsk(c, q, op) ==
    /\ op \in {"respond", "plan", "complete", "cancel"}
    /\ ask[q].status # "ABSENT" /\ Targets(op, ask[q].status) # {}
    /\ OpenCall(c, op, q, ask[q].status)
    /\ UNCHANGED <<onboarding, ask>>

TransitionRequest(c, op, dated) ==
    /\ call[c].op = op
    /\ \E target \in Targets(op, call[c].seen) :
        ask' = [ask EXCEPT ![call[c].on] = [status |-> target, mentor |-> @.mentor, session_at |-> @.session_at \/ dated]]
    /\ CloseCall(c)
    /\ UNCHANGED onboarding

RespondRequest(c) == TransitionRequest(c, "respond", FALSE)
PlanSession(c) == TransitionRequest(c, "plan", TRUE)
CompleteRequest(c) == TransitionRequest(c, "complete", FALSE)
CancelRequest(c) == TransitionRequest(c, "cancel", FALSE)

-----------------------------------------------------------------------------
MentorNext ==
    \/ \E a \in Applications : Apply(a) \/ Lapse(a)
    \/ \E c \in Calls, a \in Applications :
        \/ \E op \in MentorOperations : OpenReview(c, a, op)
        \/ OpenInvitation(c, a)
    \/ \E c \in Calls : Approve(c) \/ Reject(c) \/ ActivateMentor(c)
    \/ \E c \in Calls, e \in Emails : \/ \E op \in MentorOperations : OpenMentor(c, e, op)
                                      \/ OpenProfile(c, e)
                                      \/ OpenRequest(c, e)
    \/ \E c \in Calls : ReadProfile(c) \/ SetMentorStatus(c) \/ UpdateMyProfile(c)
    \/ \E c \in Calls, q \in Asks : \/ \E op \in MentorOperations : OpenAsk(c, q, op)
                                    \/ RequestMentor(c, q)
    \/ \E c \in Calls : RespondRequest(c) \/ PlanSession(c) \/ CompleteRequest(c) \/ CancelRequest(c)

MentorSpec == MentorInit /\ [][MentorNext]_mentorVars

-----------------------------------------------------------------------------
(* Properties.                                                             *)

\* However reviews overlap, an email has an account exactly when one of its applications
\* has led to an invitation, and only one has: nobody is invited twice, or to an account
\* that is not there.
OneInvitation ==
    \A e \in Emails :
        LET invited == {a \in Applications : EmailOf[a] = e /\ invite[a] # "NONE"} IN
        /\ mentor[e] # "NONE" <=> invited # {}
        /\ \A a, b \in invited : a = b

\* An invitation that was used has activated its account, and no later step takes the
\* account back to waiting for an activation it has no invitation for.
InvitedCanActivate ==
    \A a \in Applications :
        invite[a] = "ACCEPTED" => mentor[EmailOf[a]] \in {"ACTIVE", "SUSPENDED"}

\* The onboarding of mentors agrees in its three tables (mentors/service.py, approve and
\* accept_invitation), for any overlap of reviews and activations.
OnboardingAgrees == OneInvitation /\ InvitedCanActivate

\* A mentor who is suspended is not in the marketplace (set_mentor_status), whatever
\* activations, requests and reviews overlap with his suspension, unless two calls that write
\* is_active of him, an administrator's or his own, have been open at once: only those can
\* relist him, and they do (nothing locks the profile).
SuspendedIsHidden ==
    \A e \in Emails : mentor[e] = "SUSPENDED" => e \notin Marketplace \/ e \in crossed

\* A request whose session is planned or held has a date, and a mentor who exists,
\* although its transitions may be applied to a row that has moved on.
SessionIsDated ==
    \A q \in Asks :
        /\ ask[q].status \in {"SESSION_PLANNED", "DONE"} => ask[q].session_at
        /\ ask[q].status # "ABSENT" => mentor[ask[q].mentor] # "NONE"

\* The three promises of the mentors' tables, checked together.
MentorshipIsSound == OnboardingAgrees /\ SuspendedIsHidden /\ SessionIsDated
=============================================================================
