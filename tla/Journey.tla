------------------------------ MODULE Journey ------------------------------
(***************************************************************************)
(* What a founder does with his report, and who else may touch it: the     *)
(* rights of a call (app/iam: dependencies, permissions), the reading and  *)
(* the editing of a report (app/reports), its assignment (app/projects),   *)
(* the opportunities that it opens (app/opportunities) and the events of   *)
(* the funnel (app/instrumentation).                                       *)
(*                                                                         *)
(* There is one project.  A call arrives with a token and the rights that  *)
(* its user then has (Arrive), loads its rows and checks them against the  *)
(* project (Load), and writes (the action named after the operation);      *)
(* accounts, grants, the assignment and the reports may change in between. *)
(***************************************************************************)
EXTENDS Persistence, Integers, Sequences, FiniteSets

CONSTANTS
    Users,        \* the accounts
    RoleOf,       \* [Users -> their role]
    Founder,      \* the owner of the project
    Sector,       \* the sector of the project
    Granted,      \* the permissions that the table of grants can hold
    Threads,      \* the calls being served
    Opps,         \* the rows of opportunities
    Criteria,     \* what an admin sends: [is_active, min_overall, min_maturity, sector]
    Results,      \* what a scoring gives: [overall, d11], d11 may be None
    MaxReports    \* bound: the rows of reports

ASSUME JourneyAssumption ==
    /\ Founder \in Users /\ None \notin Users /\ MaxReports \in Nat
    /\ None \notin Results /\ Results \subseteq [overall : Nat, d11 : Nat \cup {None}]
    /\ Criteria \subseteq [is_active : BOOLEAN, min_overall : 0..100, min_maturity : 0..10 \cup {None},
                          sector : {c.sector : c \in Criteria}]

VARIABLES
    account,    \* [Users -> [active, grants]]
    tokens,     \* the users who hold an access token that has not expired
    assignee,   \* the user the project is assigned to, or None
    reports,    \* the rows of reports, in the order of their creation
    catalogue,  \* [Opps -> a row of opportunities, or NoOpp]
    events,     \* the names and the actors of the rows of events
    serving      \* [Threads -> what a call has loaded; came and assignees are history: what was true
                \* when the call came, and whom the project was assigned to since]

journeyVars == <<account, tokens, assignee, reports, catalogue, events, serving>>

-----------------------------------------------------------------------------
(* iam/permissions.py                                                      *)

ROLE_PERMISSIONS == [
    founder  |-> {"project:read:own", "project:write:own", "project:transition", "diagnostic:run", "report:read:own",
                  "academy:read", "academy:progress", "pitchsim:run", "pitch:edit", "studio:edit"},
    mentor   |-> {"project:read:assigned", "mentor:review"},
    analyst  |-> {"project:read:assigned", "mentor:review"},
    investor |-> {"dealflow:read", "intro:request"},
    admin    |-> {"project:read:any", "user:manage", "invitation:send", "investor:approve", "mentor:approve",
                  "permission:grant", "audit:read", "jobs:manage", "opportunity:manage"}]
Permission == UNION {ROLE_PERMISSIONS[r] : r \in DOMAIN ROLE_PERMISSIONS} \cup {"certification:sign"}

\* A permission that the catalogue does not know is ignored.
LoadGrants(u) == account[u].grants \cap Permission
PermissionsFor(u) == ROLE_PERMISSIONS[RoleOf[u]] \cup LoadGrants(u)

\* Mutant: the token is enough, as it names the user and his role.
AuthenticatedByToken(u) == u \in tokens
Authenticated(u) == u \in tokens /\ account[u].active

-----------------------------------------------------------------------------
(* What each route requires (its dependency), and what guards its rows.    *)

Reading == {"list_mine", "get_detail", "get_html", "get_pdf_url", "get_workspace", "list_opportunities"}
OwnerGuarded == (Reading \ {"list_mine"}) \cup {"start_action", "express_interest"}
AssigneeGuarded == {"adjust_scores", "edit_report"}
Administration == {"assign", "admin_create", "admin_update", "admin_set_active"}
JourneyOperations == Reading \cup OwnerGuarded \cup AssigneeGuarded \cup Administration
ASSUME NoneIsNoOperation == None \notin JourneyOperations
Requires(op) ==
    CASE op \in {"list_mine", "start_action"} -> {"report:read:own"}
      [] op = "assign"                        -> {"user:manage"}
      [] op \in Administration \ {"assign"}   -> {"opportunity:manage"}
      [] OTHER                                -> {}

GuardOwnerAccess(u) == RoleOf[u] = "admin" \/ u = Founder
GuardAssignedOrAdmin(u, permissions) == RoleOf[u] = "admin" \/ ("mentor:review" \in permissions /\ assignee = u)
Guarded(op, u, permissions) ==
    /\ op \in OwnerGuarded => GuardOwnerAccess(u)
    /\ op \in AssigneeGuarded => GuardAssignedOrAdmin(u, permissions)

NoOpp == [is_active |-> FALSE]
NoService == [op |-> None]

\* The types of the rows; a call that loaded a row holds one that is there.
JourneyTypeOK ==
    /\ account \in [Users -> [active : BOOLEAN, grants : SUBSET Granted]]
    /\ tokens \subseteq Users
    /\ assignee \in {u \in Users : RoleOf[u] # "founder"} \cup {None}
    /\ Len(reports) <= MaxReports
    /\ \A i \in DOMAIN reports :
        /\ reports[i].status \in {"PENDING", "READY", "FAILED"}
        /\ reports[i].status = "READY" => reports[i].score # None
        /\ reports[i].pdf => reports[i].status = "READY"
    /\ catalogue \in [Opps -> Criteria \cup [is_active : BOOLEAN, min_overall : 0..100, min_maturity : 0..10 \cup {None},
                                             sector : {c.sector : c \in Criteria}] \cup {NoOpp}]
    /\ events \subseteq {"bilan_viewed", "action_started", "opportunity_interest"} \X Users
    /\ \A c \in Threads : serving[c] # NoService =>
        serving[c].op \in JourneyOperations /\ serving[c].stage \in {"arrived", "loaded"}

JourneyInit ==
    /\ account = [u \in Users |-> [active |-> TRUE, grants |-> {}]]
    /\ tokens = {}
    /\ assignee = None
    /\ reports = <<>>
    /\ catalogue = [o \in Opps |-> NoOpp]
    /\ events = {}
    /\ serving = [c \in Threads |-> NoService]

-----------------------------------------------------------------------------
(* Around the calls.                                                       *)

\* login and refresh give a token to an active account; it expires after some minutes.
IssueToken(u) ==
    /\ account[u].active /\ u \notin tokens
    /\ tokens' = tokens \cup {u}
    /\ UNCHANGED <<account, assignee, reports, catalogue, events, serving>>
TokenExpires(u) ==
    /\ u \in tokens
    /\ tokens' = tokens \ {u}
    /\ UNCHANGED <<account, assignee, reports, catalogue, events, serving>>

\* set_mentor_status; nothing is done to the tokens that were given.
SetStatus(u, active) ==
    /\ RoleOf[u] = "mentor"
    /\ account' = [account EXCEPT ![u].active = active]
    /\ UNCHANGED <<tokens, assignee, reports, catalogue, events, serving>>
ChangeGrants(u, grants) ==
    /\ account' = [account EXCEPT ![u].grants = grants]
    /\ UNCHANGED <<tokens, assignee, reports, catalogue, events, serving>>

\* A diagnostic creates its report and then scores it, publishes it or gives up.
CreatePending ==
    /\ Len(reports) < MaxReports
    /\ reports' = Append(reports, [status |-> "PENDING", score |-> None, pdf |-> FALSE])
    /\ UNCHANGED <<account, tokens, assignee, catalogue, events, serving>>
Mark(i) ==
    /\ i \in DOMAIN reports /\ reports[i].status = "PENDING"
    /\ \E score \in Results, pdf \in BOOLEAN, status \in {"PENDING", "READY", "FAILED"} :
        reports' = [reports EXCEPT ![i] =
            [status |-> status, score |-> IF status = "FAILED" THEN @.score ELSE score, pdf |-> pdf /\ status = "READY"]]
    /\ UNCHANGED <<account, tokens, assignee, catalogue, events, serving>>

-----------------------------------------------------------------------------
(* A call.                                                                 *)

\* get_current_user and require: who he is, and what he may do, as the database has it.
Arrive(c, u, op) ==
    /\ serving[c] = NoService
    /\ Authenticated(u) /\ Requires(op) \subseteq PermissionsFor(u)
    /\ serving' = [serving EXCEPT ![c] =
           [op |-> op, user |-> u, permissions |-> PermissionsFor(u), stage |-> "arrived", on |-> None, loaded |-> None,
            came |-> [active |-> account[u].active, held |-> PermissionsFor(u)],
            assignees |-> {assignee : x \in {op} \cap AssigneeGuarded}]]
    /\ UNCHANGED <<account, tokens, assignee, reports, catalogue, events>>

OnReport == {"get_detail", "get_html", "get_pdf_url", "start_action", "adjust_scores", "edit_report"}
OnOpp == {"express_interest", "admin_create", "admin_update", "admin_set_active"}
Targets(op) ==
    CASE op \in OnReport        -> DOMAIN reports
      [] op = "admin_create"    -> {o \in Opps : catalogue[o] = NoOpp}
      [] op \in OnOpp           -> {o \in Opps : catalogue[o] # NoOpp}
      [] OTHER                  -> {None}
RowOf(op, x) ==
    CASE op \in OnReport -> reports[x] [] op \in OnOpp -> catalogue[x] [] OTHER -> [assignee |-> assignee]

\* The row that the call is about and the project are loaded, and the guard passes.
Load(c) ==
    /\ serving[c] # NoService /\ serving[c].stage = "arrived"
    /\ Guarded(serving[c].op, serving[c].user, serving[c].permissions)
    /\ \E x \in Targets(serving[c].op) :
        /\ serving[c].op = "get_pdf_url" => reports[x].pdf
        /\ serving' = [serving EXCEPT ![c] = [@ EXCEPT !.stage = "loaded", !.on = x, !.loaded = RowOf(serving[c].op, x)]]
    /\ UNCHANGED <<account, tokens, assignee, reports, catalogue, events>>

\* Refused or not found: nothing is written.
Reject(c) ==
    /\ serving[c] # NoService
    /\ serving' = [serving EXCEPT ![c] = NoService]
    /\ UNCHANGED <<account, tokens, assignee, reports, catalogue, events>>

Answer(c, op) == serving[c].op = op /\ serving[c].stage = "loaded"
Release(c) == serving' = [serving EXCEPT ![c] = NoService]
Emit(name, u) == events' = events \cup {<<name, u>>}

Show(c) ==
    /\ \E op \in Reading \ {"get_detail"} : Answer(c, op)
    /\ Release(c)
    /\ UNCHANGED <<account, tokens, assignee, reports, catalogue, events>>

\* Mutant: whoever opens a report enters the funnel.
ViewedByAnyone(u) == Emit("bilan_viewed", u)
\* Only the founder's own reading counts.
Seen(u) == IF u = Founder THEN Emit("bilan_viewed", u) ELSE UNCHANGED events
GetDetail(c) ==
    /\ Answer(c, "get_detail") /\ Seen(serving[c].user) /\ Release(c)
    /\ UNCHANGED <<account, tokens, assignee, reports, catalogue>>

StartAction(c) ==
    /\ Answer(c, "start_action") /\ Emit("action_started", serving[c].user) /\ Release(c)
    /\ UNCHANGED <<account, tokens, assignee, reports, catalogue>>
ExpressInterest(c) ==
    /\ Answer(c, "express_interest") /\ Emit("opportunity_interest", serving[c].user) /\ Release(c)
    /\ UNCHANGED <<account, tokens, assignee, reports, catalogue>>

\* The scores of an analyst go to the report; its PDF and its status stay.
Rescore(c) ==
    /\ Answer(c, "adjust_scores") /\ Release(c)
    /\ \E score \in Results :
        reports' = [reports EXCEPT ![serving[c].on].score = Column(serving[c].loaded.score, score, @)]
    /\ UNCHANGED <<account, tokens, assignee, catalogue, events>>
EditReport(c) ==
    /\ Answer(c, "edit_report") /\ Release(c)
    /\ UNCHANGED <<account, tokens, assignee, reports, catalogue, events>>

\* Anybody but a founder; the editors under way have seen both assignments.
Assign(c) ==
    /\ Answer(c, "assign")
    /\ \E u \in {x \in Users : RoleOf[x] # "founder"} \cup {None} : assignee' = Column(serving[c].loaded.assignee, u, assignee)
    /\ serving' = [d \in Threads |->
           IF d = c THEN NoService
           ELSE IF serving[d].op \notin AssigneeGuarded THEN serving[d]
           ELSE [serving[d] EXCEPT !.assignees = @ \cup {assignee'}]]
    /\ UNCHANGED <<account, tokens, reports, catalogue, events>>

ManageOpp(c, op, row) ==
    /\ Answer(c, op) /\ Release(c)
    /\ catalogue' = [catalogue EXCEPT ![serving[c].on] = row]
    /\ UNCHANGED <<account, tokens, assignee, reports, events>>
AdminCreate(c) == \E row \in Criteria : ManageOpp(c, "admin_create", row) /\ catalogue[serving[c].on] = NoOpp
AdminUpdate(c) == \E row \in Criteria :
    ManageOpp(c, "admin_update", [f \in DOMAIN row |-> Column(serving[c].loaded[f], row[f], catalogue[serving[c].on][f])])
AdminSetActive(c) == \E active \in BOOLEAN :
    ManageOpp(c, "admin_set_active", [catalogue[serving[c].on] EXCEPT !.is_active = Column(serving[c].loaded.is_active, active, @)])

JourneyNext ==
    \/ \E u \in Users : IssueToken(u) \/ TokenExpires(u) \/ (\E a \in BOOLEAN : SetStatus(u, a)) \/ (\E g \in SUBSET Granted : ChangeGrants(u, g))
    \/ CreatePending \/ \E i \in 1..MaxReports : Mark(i)
    \/ \E c \in Threads :
        \/ \E u \in Users, op \in JourneyOperations : Arrive(c, u, op)
        \/ Load(c) \/ Reject(c) \/ Show(c) \/ GetDetail(c) \/ StartAction(c) \/ ExpressInterest(c)
        \/ Rescore(c) \/ EditReport(c) \/ Assign(c) \/ AdminCreate(c) \/ AdminUpdate(c) \/ AdminSetActive(c)
JourneySpec == JourneyInit /\ [][JourneyNext]_journeyVars
-----------------------------------------------------------------------------
(* The funnel and the opportunities.                                       *)

ActorsOf(name) == {u \in Users : <<name, u>> \in events}

\* The latest report that is READY decides, whatever came after it.
ProjectScore ==
    LET ready == {i \in DOMAIN reports : reports[i].status = "READY"} IN
    IF ready = {} THEN [overall |-> 0, d11 |-> None]
    ELSE reports[CHOOSE i \in ready : \A j \in ready : j <= i].score

\* evaluate_eligibility; min_overall is in tenths.
Short(opp, score) == 10 * score.overall < opp.min_overall
Immature(opp, score) == opp.min_maturity # None /\ (score.d11 = None \/ score.d11 < opp.min_maturity)
Elsewhere(opp) == opp.sector # None /\ opp.sector # Sector
Missing(opp, score) ==
    (IF Short(opp, score) THEN {"overall"} ELSE {}) \cup (IF Immature(opp, score) THEN {"maturity"} ELSE {})
        \cup (IF Elsewhere(opp) THEN {"sector"} ELSE {})
ListForProject == [o \in {x \in Opps : catalogue[x].is_active} |-> Missing(catalogue[o], ProjectScore)]

-----------------------------------------------------------------------------
(* Properties.                                                             *)

\* A call is answered to a user whose account was active and who held the permissions of the
\* route when it came in, even if his token is older than a suspension (« révocation immédiate
\* possible », get_current_user); the report is shown to its owner or an admin only, and edited
\* by an admin or a reviewer to whom the project was assigned at some moment while his call was
\* served (SEC-02).  Rights that are revoked after the arrival of a call still act in it.
Answering == {c \in Threads : serving[c] # NoService /\ serving[c].stage = "loaded"}
RightsAreCurrent ==
    \A c \in Answering : LET call == serving[c]  u == call.user IN
        /\ call.came.active /\ Requires(call.op) \subseteq call.came.held
        /\ call.op \in OwnerGuarded => RoleOf[u] = "admin" \/ u = Founder
        /\ call.op \in AssigneeGuarded => RoleOf[u] = "admin" \/ ("mentor:review" \in call.came.held /\ u \in call.assignees)

\* The first stage of the funnel counts founders only, whoever opens reports (get_detail: « SEULEMENT
\* celle du porteur »).
FunnelStartsWithFounders == ActorsOf("bilan_viewed") \subseteq {Founder}

\* An opportunity is missed for the axes that are too low, and those only: a project that does
\* better on every axis keeps what it had (list_for_project, evaluate_eligibility).
Better(new, old) == new.overall >= old.overall /\ (old.d11 = None \/ (new.d11 # None /\ new.d11 >= old.d11))
WorkOpensDoors ==
    \A o \in DOMAIN ListForProject : \A score \in Results :
        Better(score, ProjectScore) => Missing(catalogue[o], score) \subseteq ListForProject[o]

\* What a founder's journey rests on: calls that act with the rights they came in with, a funnel
\* whose first stage counts the founder, opportunities that open as he progresses.
JourneyIsSound == RightsAreCurrent /\ FunnelStartsWithFounders /\ WorkOpensDoors
=============================================================================
