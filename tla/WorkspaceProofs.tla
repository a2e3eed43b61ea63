-------------------------- MODULE WorkspaceProofs ---------------------------
(***************************************************************************)
(* What holds, for any number of users, calls, tabs and dossiers, of the   *)
(* journey of a founder (Journey) and of the pages he writes (Workbench);  *)
(* and of the files and links of a project (ProjectVault) for any number of*)
(* documents, links and requests, and a storage that fails or not.         *)
(***************************************************************************)
EXTENDS Journey, Workbench, ProjectVault, FoldLemmas

-----------------------------------------------------------------------------
(* The journey of a founder.                                               *)

ReportRow == [status : {"PENDING", "READY", "FAILED"}, score : Results \cup {None}, pdf : BOOLEAN]
OppRow == [is_active : BOOLEAN, min_overall : 0..100, min_maturity : 0..10 \cup {None},
           sector : {c.sector : c \in Criteria}]
Rights == Permission \cup UNION {ROLE_PERMISSIONS[RoleOf[u]] : u \in Users}
Assignees == {u \in Users : RoleOf[u] # "founder"} \cup {None}
Call == [op : JourneyOperations, user : Users, permissions : SUBSET Rights, stage : {"arrived", "loaded"},
         on : Nat \cup Opps \cup {None},
         loaded : ReportRow \cup OppRow \cup {NoOpp} \cup [assignee : Assignees] \cup {None},
         came : [active : BOOLEAN, held : SUBSET Rights], assignees : SUBSET Assignees]

\* The rows, and what the calls have loaded.
JourneyTypes ==
    /\ account \in [Users -> [active : BOOLEAN, grants : SUBSET Granted]]
    /\ tokens \subseteq Users
    /\ assignee \in Assignees
    /\ reports \in Seq(ReportRow) /\ Len(reports) <= MaxReports
    /\ \A i \in 1..Len(reports) :
        /\ reports[i].status = "READY" => reports[i].score # None
        /\ reports[i].pdf => reports[i].status = "READY"
    /\ catalogue \in [Opps -> OppRow \cup {NoOpp}]
    /\ events \subseteq {"bilan_viewed", "action_started", "opportunity_interest"} \X Users
    /\ serving \in [Threads -> Call \cup {NoService}]
    /\ \A c \in Threads : serving[c] # NoService /\ serving[c].stage = "loaded" =>
        /\ serving[c].op \in OnOpp => serving[c].on \in Opps
        /\ serving[c].op \in {"admin_update", "admin_set_active"} => catalogue[serving[c].on] # NoOpp
        /\ serving[c].op = "assign" => serving[c].loaded \in [assignee : Assignees]

\* What a call rests on: rights as they were when it came, and, for an editor, an assignment that the
\* call has seen.
CallInv ==
    \A c \in Threads : LET call == serving[c] IN call # NoService =>
        /\ call.came.active /\ call.permissions = call.came.held
        /\ Requires(call.op) \subseteq call.came.held
        /\ call.op \in AssigneeGuarded => assignee \in call.assignees
        /\ call.stage = "loaded" =>
            /\ call.op \in OwnerGuarded => RoleOf[call.user] = "admin" \/ call.user = Founder
            /\ call.op \in AssigneeGuarded =>
                RoleOf[call.user] = "admin" \/ ("mentor:review" \in call.came.held /\ call.user \in call.assignees)

JourneyInv == JourneyTypes /\ CallInv /\ FunnelStartsWithFounders

LEMMA NoServiceIsNone == NoService \notin Call /\ NoService.op \notin JourneyOperations
  BY NoneIsNoOperation DEF NoService, Call

LEMMA NoOppIsNone == NoOpp \notin OppRow
  BY DEF NoOpp, OppRow

LEMMA PermissionsAreRights == ASSUME JourneyTypes, NEW u \in Users PROVE PermissionsFor(u) \in SUBSET Rights
  BY DEF PermissionsFor, LoadGrants, Rights

LEMMA JourneyStarts == JourneyInit => JourneyInv
<1> SUFFICES ASSUME JourneyInit PROVE JourneyInv
  OBVIOUS
<1>1. JourneyTypes
  <2>1. account \in [Users -> [active : BOOLEAN, grants : SUBSET Granted]]
    BY DEF JourneyInit
  <2>2. serving \in [Threads -> Call \cup {NoService}] /\ \A c \in Threads : serving[c] = NoService
    BY DEF JourneyInit
  <2>3. catalogue \in [Opps -> OppRow \cup {NoOpp}] /\ assignee \in Assignees
    BY DEF JourneyInit, Assignees
  <2>4. reports \in Seq(ReportRow) /\ Len(reports) = 0
    BY DEF JourneyInit
  <2>5. tokens \subseteq Users /\ events = {}
    BY DEF JourneyInit
  <2> QED BY <2>1, <2>2, <2>3, <2>4, <2>5, JourneyAssumption DEF JourneyTypes
<1>2. CallInv
  BY DEF JourneyInit, CallInv
<1>3. FunnelStartsWithFounders
  BY DEF JourneyInit, FunnelStartsWithFounders, ActorsOf
<1> QED BY <1>1, <1>2, <1>3 DEF JourneyInv

\* A call ends, or one comes or goes on: nothing else of what a call rests on has moved.
LEMMA CallsReleased ==
  ASSUME JourneyTypes, CallInv, NEW c \in Threads, Release(c), assignee' = assignee
  PROVE  CallInv' /\ serving' \in [Threads -> Call \cup {NoService}]
         /\ \A d \in Threads : serving'[d] = NoService \/ serving'[d] = serving[d]
<1>1. \A d \in Threads : serving'[d] = NoService \/ serving'[d] = serving[d]
  BY DEF Release, JourneyTypes
<1>2. CallInv'
  BY <1>1 DEF CallInv
<1>3. serving' \in [Threads -> Call \cup {NoService}]
  BY DEF Release, JourneyTypes
<1> QED BY <1>1, <1>2, <1>3

\* Around the calls.
LEMMA AroundStep ==
  ASSUME JourneyInv, UNCHANGED <<assignee, catalogue, events, serving>>,
         account' \in [Users -> [active : BOOLEAN, grants : SUBSET Granted]], tokens' \subseteq Users,
         reports' \in Seq(ReportRow), Len(reports') <= MaxReports,
         \A i \in 1..Len(reports') :
            /\ reports'[i].status = "READY" => reports'[i].score # None
            /\ reports'[i].pdf => reports'[i].status = "READY"
  PROVE  JourneyInv'
<1>1. JourneyTypes'
  BY DEF JourneyInv, JourneyTypes
<1>2. CallInv'
  BY DEF JourneyInv, CallInv
<1>3. FunnelStartsWithFounders'
  BY DEF JourneyInv, FunnelStartsWithFounders, ActorsOf
<1> QED BY <1>1, <1>2, <1>3 DEF JourneyInv

LEMMA AccountsMove ==
  ASSUME JourneyInv, NEW u \in Users,
         \/ IssueToken(u) \/ TokenExpires(u) \/ (\E a \in BOOLEAN : SetStatus(u, a))
         \/ (\E g \in SUBSET Granted : ChangeGrants(u, g))
  PROVE  JourneyInv'
<1>1. UNCHANGED <<assignee, catalogue, events, serving, reports>>
  BY DEF IssueToken, TokenExpires, SetStatus, ChangeGrants
<1>2. tokens' \subseteq Users
  BY DEF IssueToken, TokenExpires, SetStatus, ChangeGrants, JourneyInv, JourneyTypes
<1>3. account' \in [Users -> [active : BOOLEAN, grants : SUBSET Granted]]
  BY DEF IssueToken, TokenExpires, SetStatus, ChangeGrants, JourneyInv, JourneyTypes
<1> QED BY <1>1, <1>2, <1>3, AroundStep DEF JourneyInv, JourneyTypes

LEMMA ReportsMove ==
  ASSUME JourneyInv, CreatePending \/ \E i \in 1..MaxReports : Mark(i)
  PROVE  JourneyInv'
<1>1. UNCHANGED <<assignee, catalogue, events, serving, tokens, account>>
  BY DEF CreatePending, Mark
<1>2. /\ reports \in Seq(ReportRow) /\ Len(reports) \in Nat /\ Len(reports) <= MaxReports
      /\ tokens \subseteq Users
      /\ account \in [Users -> [active : BOOLEAN, grants : SUBSET Granted]]
      /\ \A i \in 1..Len(reports) :
            /\ reports[i].status = "READY" => reports[i].score # None
            /\ reports[i].pdf => reports[i].status = "READY"
  BY DEF JourneyInv, JourneyTypes
<1>3. CASE CreatePending
  <2> DEFINE new == [status |-> "PENDING", score |-> None, pdf |-> FALSE]
  <2>1. new \in ReportRow /\ new.status = "PENDING" /\ ~ new.pdf
    BY DEF ReportRow
  <2>2. reports' = Append(reports, new) /\ Len(reports) < MaxReports
    BY <1>3 DEF CreatePending
  <2> HIDE DEF new
  <2>3. /\ reports' \in Seq(ReportRow) /\ Len(reports') = Len(reports) + 1
        /\ \A i \in 1..Len(reports) : reports'[i] = reports[i]
        /\ reports'[Len(reports) + 1] = new
    BY <1>2, <2>1, <2>2, AppendProperties
  <2>4. Len(reports') <= MaxReports
    BY <1>2, <2>2, <2>3, JourneyAssumption
  <2>5. \A i \in 1..Len(reports') : i \in 1..Len(reports) \/ i = Len(reports) + 1
    BY <1>2, <2>3
  <2>6. \A i \in 1..Len(reports') :
            /\ reports'[i].status = "READY" => reports'[i].score # None
            /\ reports'[i].pdf => reports'[i].status = "READY"
    BY <1>2, <2>1, <2>3, <2>5
  <2> QED BY <1>1, <1>2, <2>3, <2>4, <2>6, AroundStep
<1>4. ASSUME NEW i \in 1..MaxReports, Mark(i) PROVE JourneyInv'
  <2>1. i \in 1..Len(reports) /\ reports[i].status = "PENDING"
    BY <1>2, <1>4 DEF Mark
  <2>2. PICK score \in Results, pdf \in BOOLEAN, status \in {"PENDING", "READY", "FAILED"} :
          reports' = [reports EXCEPT ![i] =
             [status |-> status, score |-> IF status = "FAILED" THEN reports[i].score ELSE score,
              pdf |-> pdf /\ status = "READY"]]
    BY <1>4 DEF Mark
  <2> DEFINE new == [status |-> status, score |-> IF status = "FAILED" THEN reports[i].score ELSE score,
                     pdf |-> pdf /\ status = "READY"]
  <2>3. reports[i] \in ReportRow
    BY <1>2, <2>1
  <2>4. (pdf /\ status = "READY") \in BOOLEAN
    OBVIOUS
  <2>5. new \in ReportRow
    BY <2>3, <2>4 DEF ReportRow
  <2>6. (new.status = "READY" => new.score # None) /\ (new.pdf => new.status = "READY")
    BY JourneyAssumption
  <2>7. reports' = [reports EXCEPT ![i] = new]
    BY <2>2
  <2> HIDE DEF new
  <2>8. reports' \in Seq(ReportRow) /\ Len(reports') = Len(reports)
    BY <1>2, <2>1, <2>5, <2>7
  <2>9. \A k \in 1..Len(reports) : reports'[k] = IF k = i THEN new ELSE reports[k]
    BY <1>2, <2>1, <2>7
  <2>10. \A k \in 1..Len(reports') :
            /\ reports'[k].status = "READY" => reports'[k].score # None
            /\ reports'[k].pdf => reports'[k].status = "READY"
    BY <1>2, <2>6, <2>8, <2>9
  <2> QED BY <1>1, <1>2, <2>8, <2>10, AroundStep
<1> QED BY <1>3, <1>4


\* One call comes, or goes on: it is as the invariant wants it, and the others stay.
LEMMA CallMoves ==
  ASSUME JourneyInv, NEW c \in Threads, NEW call \in Call,
         serving' = [serving EXCEPT ![c] = call],
         UNCHANGED <<account, tokens, assignee, reports, catalogue, events>>,
         call.came.active, call.permissions = call.came.held, Requires(call.op) \subseteq call.came.held,
         call.op \in AssigneeGuarded => assignee \in call.assignees,
         call.stage = "loaded" =>
            /\ call.op \in OwnerGuarded => RoleOf[call.user] = "admin" \/ call.user = Founder
            /\ call.op \in AssigneeGuarded =>
                RoleOf[call.user] = "admin" \/ ("mentor:review" \in call.came.held /\ call.user \in call.assignees)
            /\ call.op \in OnOpp => call.on \in Opps
            /\ call.op \in {"admin_update", "admin_set_active"} => catalogue[call.on] # NoOpp
            /\ call.op = "assign" => call.loaded \in [assignee : Assignees]
  PROVE  JourneyInv'
<1>1. serving \in [Threads -> Call \cup {NoService}]
  BY DEF JourneyInv, JourneyTypes
<1>2. serving'[c] = call /\ \A d \in Threads : d # c => serving'[d] = serving[d]
  BY <1>1
<1>3. serving' \in [Threads -> Call \cup {NoService}]
  BY <1>1
<1>4. JourneyTypes'
  BY <1>2, <1>3 DEF JourneyInv, JourneyTypes
<1>5. CallInv'
  BY <1>2 DEF JourneyInv, CallInv
<1>6. FunnelStartsWithFounders'
  BY DEF JourneyInv, FunnelStartsWithFounders, ActorsOf
<1> QED BY <1>4, <1>5, <1>6 DEF JourneyInv

LEMMA ArriveStep ==
  ASSUME JourneyInv, NEW c \in Threads, NEW u \in Users, NEW op \in JourneyOperations, Arrive(c, u, op)
  PROVE  JourneyInv'
<1> DEFINE call == [op |-> op, user |-> u, permissions |-> PermissionsFor(u), stage |-> "arrived", on |-> None,
                    loaded |-> None, came |-> [active |-> account[u].active, held |-> PermissionsFor(u)],
                    assignees |-> {assignee : x \in {op} \cap AssigneeGuarded}]
<1>1. PermissionsFor(u) \in SUBSET Rights
  BY PermissionsAreRights DEF JourneyInv
<1>2. account[u].active \in BOOLEAN /\ account[u].active /\ assignee \in Assignees
  BY DEF Arrive, Authenticated, JourneyInv, JourneyTypes
<1>3. call \in Call
  BY <1>1, <1>2 DEF Call
<1>4. /\ serving' = [serving EXCEPT ![c] = call] /\ Requires(op) \subseteq PermissionsFor(u)
      /\ UNCHANGED <<account, tokens, assignee, reports, catalogue, events>>
  BY DEF Arrive
<1>5. /\ call.came.active /\ call.permissions = call.came.held /\ Requires(call.op) \subseteq call.came.held
      /\ call.op \in AssigneeGuarded => assignee \in call.assignees
      /\ call.stage # "loaded"
  BY <1>2, <1>4
<1> HIDE DEF call
<1> QED BY <1>3, <1>4, <1>5, CallMoves

LEMMA RowIsTyped ==
  ASSUME JourneyTypes, NEW op \in JourneyOperations, NEW x \in Targets(op)
  PROVE  /\ x \in Nat \cup Opps \cup {None}
         /\ RowOf(op, x) \in ReportRow \cup OppRow \cup {NoOpp} \cup [assignee : Assignees]
         /\ op \in OnOpp => x \in Opps
         /\ op \in {"admin_update", "admin_set_active"} => catalogue[x] # NoOpp
         /\ op = "assign" => RowOf(op, x) \in [assignee : Assignees]
<1>1. CASE op \in OnReport
  <2>1. op \notin OnOpp /\ op \notin {"admin_create", "admin_update", "admin_set_active", "assign"}
    BY <1>1 DEF OnReport, OnOpp
  <2>2. Targets(op) = DOMAIN reports
    BY <1>1, <2>1 DEF Targets
  <2>3. RowOf(op, x) = reports[x]
    BY <1>1, <2>1 DEF RowOf
  <2>4. x \in 1..Len(reports) /\ reports[x] \in ReportRow
    BY <2>2 DEF JourneyTypes
  <2> QED BY <2>1, <2>3, <2>4
<1>2. CASE op \in OnOpp
  <2>1. op \notin OnReport /\ op # "assign"
    BY <1>2 DEF OnReport, OnOpp
  <2>2. RowOf(op, x) = catalogue[x]
    BY <1>2, <2>1 DEF RowOf
  <2>3. CASE op = "admin_create"
    <3>1. x \in Opps
      BY <2>1, <2>3 DEF Targets
    <3> QED BY <2>1, <2>2, <2>3, <3>1 DEF JourneyTypes
  <2>4. CASE op # "admin_create"
    <3>1. x \in Opps /\ catalogue[x] # NoOpp
      BY <1>2, <2>1, <2>4 DEF Targets
    <3> QED BY <2>1, <2>2, <3>1 DEF JourneyTypes
  <2> QED BY <2>3, <2>4
<1>3. CASE op \notin OnReport /\ op \notin OnOpp
  <2>1. x = None /\ RowOf(op, x) = [assignee |-> assignee]
    BY <1>3 DEF Targets, RowOf, OnOpp
  <2>2. op \notin {"admin_update", "admin_set_active"}
    BY <1>3 DEF OnOpp
  <2> QED BY <1>3, <2>1, <2>2 DEF JourneyTypes
<1> QED BY <1>1, <1>2, <1>3

LEMMA LoadStep == ASSUME JourneyInv, NEW c \in Threads, Load(c) PROVE JourneyInv'
<1> DEFINE old == serving[c]
<1>1. /\ old \in Call /\ old.stage = "arrived" /\ Guarded(old.op, old.user, old.permissions)
      /\ UNCHANGED <<account, tokens, assignee, reports, catalogue, events>>
  BY DEF Load, JourneyInv, JourneyTypes
<1>2. PICK x \in Targets(old.op) :
        serving' = [serving EXCEPT ![c] = [old EXCEPT !.stage = "loaded", !.on = x, !.loaded = RowOf(old.op, x)]]
  BY Zenon DEF Load
<1> DEFINE new == [old EXCEPT !.stage = "loaded", !.on = x, !.loaded = RowOf(old.op, x)]
<1>3. /\ old.came.active /\ old.permissions = old.came.held /\ Requires(old.op) \subseteq old.came.held
      /\ old.op \in AssigneeGuarded => assignee \in old.assignees
  BY <1>1, NoServiceIsNone DEF JourneyInv, CallInv
<1>4. old.op \in JourneyOperations
  BY <1>1 DEF Call
<1>5. /\ x \in Nat \cup Opps \cup {None}
      /\ RowOf(old.op, x) \in ReportRow \cup OppRow \cup {NoOpp} \cup [assignee : Assignees]
      /\ old.op \in OnOpp => x \in Opps
      /\ old.op \in {"admin_update", "admin_set_active"} => catalogue[x] # NoOpp
      /\ old.op = "assign" => RowOf(old.op, x) \in [assignee : Assignees]
  BY <1>4, RowIsTyped DEF JourneyInv
<1>6. /\ new.op = old.op /\ new.user = old.user /\ new.permissions = old.permissions /\ new.came = old.came
      /\ new.assignees = old.assignees /\ new.stage = "loaded" /\ new.on = x /\ new.loaded = RowOf(old.op, x)
  BY <1>1 DEF Call
<1>7. new \in Call
  BY <1>1, <1>5 DEF Call
<1>8. /\ old.op \in OwnerGuarded => RoleOf[old.user] = "admin" \/ old.user = Founder
      /\ old.op \in AssigneeGuarded =>
           RoleOf[old.user] = "admin" \/ ("mentor:review" \in old.permissions /\ assignee = old.user)
  BY <1>1 DEF Guarded, GuardOwnerAccess, GuardAssignedOrAdmin
<1>9. serving' = [serving EXCEPT ![c] = new]
  BY <1>2
<1> HIDE DEF new, old
<1> QED BY <1>1, <1>3, <1>5, <1>6, <1>7, <1>8, <1>9, CallMoves

\* A call that ends, and writes what is of its type.
LEMMA CallEnds ==
  ASSUME JourneyInv, NEW c \in Threads, Release(c), UNCHANGED <<account, tokens, assignee>>,
         reports' \in Seq(ReportRow), Len(reports') <= MaxReports,
         \A i \in 1..Len(reports') :
            /\ reports'[i].status = "READY" => reports'[i].score # None
            /\ reports'[i].pdf => reports'[i].status = "READY",
         catalogue' \in [Opps -> OppRow \cup {NoOpp}],
         \A o \in Opps : catalogue[o] # NoOpp => catalogue'[o] # NoOpp,
         events' \subseteq {"bilan_viewed", "action_started", "opportunity_interest"} \X Users,
         \A u : <<"bilan_viewed", u>> \in events' => <<"bilan_viewed", u>> \in events \/ u = Founder
  PROVE  JourneyInv'
<1>1. /\ CallInv' /\ serving' \in [Threads -> Call \cup {NoService}]
      /\ \A d \in Threads : serving'[d] = NoService \/ serving'[d] = serving[d]
  BY CallsReleased DEF JourneyInv
<1>2. ASSUME NEW d \in Threads, serving'[d] # NoService, serving'[d].stage = "loaded"
      PROVE  /\ serving'[d].op \in OnOpp => serving'[d].on \in Opps
             /\ serving'[d].op \in {"admin_update", "admin_set_active"} => catalogue'[serving'[d].on] # NoOpp
             /\ serving'[d].op = "assign" => serving'[d].loaded \in [assignee : Assignees]
  <2>1. /\ serving[d].op \in OnOpp => serving[d].on \in Opps
        /\ serving[d].op \in {"admin_update", "admin_set_active"} => catalogue[serving[d].on] # NoOpp
        /\ serving[d].op = "assign" => serving[d].loaded \in [assignee : Assignees]
    BY <1>1, <1>2 DEF JourneyInv, JourneyTypes
  <2>2. serving'[d] = serving[d] /\ {"admin_update", "admin_set_active"} \subseteq OnOpp
    BY <1>1, <1>2 DEF OnOpp
  <2> QED BY <2>1, <2>2
<1>3. JourneyTypes'
  BY <1>1, <1>2 DEF JourneyInv, JourneyTypes
<1>4. FunnelStartsWithFounders'
  BY DEF JourneyInv, FunnelStartsWithFounders, ActorsOf
<1> QED BY <1>1, <1>3, <1>4 DEF JourneyInv

LEMMA ReadingStep ==
  ASSUME JourneyInv, NEW c \in Threads,
         Reject(c) \/ Show(c) \/ GetDetail(c) \/ StartAction(c) \/ ExpressInterest(c) \/ EditReport(c)
  PROVE  JourneyInv'
<1>1. Release(c) /\ UNCHANGED <<account, tokens, assignee, reports, catalogue>>
  BY DEF Reject, Show, GetDetail, StartAction, ExpressInterest, EditReport, Release
<1>2. /\ reports \in Seq(ReportRow) /\ Len(reports) <= MaxReports
      /\ \A i \in 1..Len(reports) :
            /\ reports[i].status = "READY" => reports[i].score # None
            /\ reports[i].pdf => reports[i].status = "READY"
      /\ catalogue \in [Opps -> OppRow \cup {NoOpp}]
      /\ events \subseteq {"bilan_viewed", "action_started", "opportunity_interest"} \X Users
  BY DEF JourneyInv, JourneyTypes
<1>3. \/ events' = events
      \/ serving[c].user \in Users /\ (\/ serving[c].user = Founder /\ Emit("bilan_viewed", serving[c].user)
                                       \/ Emit("action_started", serving[c].user)
                                       \/ Emit("opportunity_interest", serving[c].user))
  <2>1. CASE events' = events
    BY <2>1
  <2>2. CASE events' # events
    <3>1. serving[c].op \in JourneyOperations
      BY <2>2 DEF Reject, Show, GetDetail, StartAction, ExpressInterest, EditReport, Seen, Answer,
                  JourneyOperations, Reading, OwnerGuarded
    <3>2. serving[c].user \in Users
      BY <3>1, NoServiceIsNone DEF JourneyInv, JourneyTypes, Call
    <3> QED BY <2>2, <3>2 DEF Reject, Show, GetDetail, StartAction, ExpressInterest, EditReport, Seen
  <2> QED BY <2>1, <2>2
<1>4. /\ events' \subseteq {"bilan_viewed", "action_started", "opportunity_interest"} \X Users
      /\ \A u : <<"bilan_viewed", u>> \in events' => <<"bilan_viewed", u>> \in events \/ u = Founder
  BY <1>2, <1>3 DEF Emit
<1> QED BY <1>1, <1>2, <1>4, CallEnds


LEMMA RescoreStep == ASSUME JourneyInv, NEW c \in Threads, Rescore(c) PROVE JourneyInv'
<1> DEFINE x == serving[c].on
<1>1. PICK score \in Results :
        reports' = [reports EXCEPT ![x].score = Column(serving[c].loaded.score, score, @)]
  BY DEF Rescore
<1>2. /\ Release(c) /\ UNCHANGED <<account, tokens, assignee, catalogue, events>>
  BY DEF Rescore
<1>3. /\ reports \in Seq(ReportRow) /\ Len(reports) <= MaxReports
      /\ \A i \in 1..Len(reports) :
            /\ reports[i].status = "READY" => reports[i].score # None
            /\ reports[i].pdf => reports[i].status = "READY"
      /\ catalogue \in [Opps -> OppRow \cup {NoOpp}]
      /\ events \subseteq {"bilan_viewed", "action_started", "opportunity_interest"} \X Users
  BY DEF JourneyInv, JourneyTypes
<1> DEFINE v == Column(serving[c].loaded.score, score, reports[x].score)
<1>4. v = score \/ v = reports[x].score
  BY DEF Column
<1>5. reports' = [reports EXCEPT ![x] = [reports[x] EXCEPT !.score = v]]
  BY <1>1
<1> HIDE DEF x, v
<1>6. \A i \in 1..Len(reports) : reports'[i] = IF i = x THEN [reports[x] EXCEPT !.score = v] ELSE reports[i]
  BY <1>3, <1>5
<1>7. \A i \in 1..Len(reports) : reports[i] \in ReportRow
  BY <1>3
<1>8. \A i \in 1..Len(reports) :
         /\ reports'[i] \in ReportRow
         /\ reports'[i].status = "READY" => reports'[i].score # None
         /\ reports'[i].pdf => reports'[i].status = "READY"
  BY <1>3, <1>4, <1>6, <1>7, JourneyAssumption DEF ReportRow
<1>9. reports' \in Seq(ReportRow) /\ Len(reports') = Len(reports)
  <2>1. DOMAIN reports' = 1..Len(reports) /\ Len(reports) \in Nat
    BY <1>3, <1>5
  <2>2. reports' = [i \in 1..Len(reports) |-> reports'[i]]
    BY <1>5, <2>1
  <2> QED BY <1>8, <2>1, <2>2
<1> QED BY <1>2, <1>3, <1>8, <1>9, CallEnds

LEMMA AssignStep == ASSUME JourneyInv, NEW c \in Threads, Assign(c) PROVE JourneyInv'
<1>1. UNCHANGED <<account, tokens, reports, catalogue, events>>
  BY DEF Assign
<1>2. serving[c] \in Call /\ serving[c].stage = "loaded" /\ serving[c].op = "assign"
  BY NoServiceIsNone DEF Assign, Answer, JourneyInv, JourneyTypes, JourneyOperations, Administration
<1>3. assignee' \in Assignees
  BY DEF Assign, Column, JourneyInv, JourneyTypes, Assignees
<1> DEFINE after(d) == IF d = c THEN NoService
                       ELSE IF serving[d].op \notin AssigneeGuarded THEN serving[d]
                       ELSE [serving[d] EXCEPT !.assignees = @ \cup {assignee'}]
<1>4. serving' = [d \in Threads |-> after(d)]
  BY DEF Assign
<1>5. NoService.op \notin AssigneeGuarded
  BY NoServiceIsNone DEF JourneyOperations
<1>6. ASSUME NEW d \in Threads, serving'[d] # NoService
      PROVE  /\ serving[d] \in Call /\ serving'[d] \in Call
             /\ serving'[d].op = serving[d].op /\ serving'[d].user = serving[d].user
             /\ serving'[d].permissions = serving[d].permissions /\ serving'[d].stage = serving[d].stage
             /\ serving'[d].on = serving[d].on /\ serving'[d].loaded = serving[d].loaded
             /\ serving'[d].came = serving[d].came
             /\ serving[d].assignees \subseteq serving'[d].assignees
             /\ serving[d].op \in AssigneeGuarded => assignee' \in serving'[d].assignees
  <2>1. serving[d] \in Call
    <3>1. after(d) # NoService
      BY <1>4, <1>6
    <3>2. serving[d] # NoService
      BY <1>5, <3>1
    <3> QED BY <3>2 DEF JourneyInv, JourneyTypes
  <2>2. CASE serving[d].op \notin AssigneeGuarded
    BY <1>4, <1>6, <2>1, <2>2
  <2>3. CASE serving[d].op \in AssigneeGuarded
    <3>1. serving'[d] = [serving[d] EXCEPT !.assignees = @ \cup {assignee'}]
      BY <1>4, <1>6, <2>3
    <3> QED BY <1>3, <2>1, <3>1 DEF Call
  <2> QED BY <2>2, <2>3
<1>7. serving' \in [Threads -> Call \cup {NoService}]
  BY <1>4, <1>6
<1>8. \A d \in Threads : serving'[d] # NoService => serving[d] # NoService
  BY <1>6, NoServiceIsNone
<1>9. CallInv'
  <2> SUFFICES ASSUME NEW d \in Threads, serving'[d] # NoService
               PROVE  LET call == serving'[d] IN
                      /\ call.came.active /\ call.permissions = call.came.held
                      /\ Requires(call.op) \subseteq call.came.held
                      /\ call.op \in AssigneeGuarded => assignee' \in call.assignees
                      /\ call.stage = "loaded" =>
                          /\ call.op \in OwnerGuarded => RoleOf[call.user] = "admin" \/ call.user = Founder
                          /\ call.op \in AssigneeGuarded =>
                              RoleOf[call.user] = "admin"
                                \/ ("mentor:review" \in call.came.held /\ call.user \in call.assignees)
    BY DEF CallInv
  <2> QED BY <1>6, <1>8 DEF JourneyInv, CallInv
<1>10. JourneyTypes'
  BY <1>1, <1>3, <1>6, <1>7, <1>8 DEF JourneyInv, JourneyTypes
<1>11. FunnelStartsWithFounders'
  BY <1>1 DEF JourneyInv, FunnelStartsWithFounders, ActorsOf
<1> QED BY <1>9, <1>10, <1>11 DEF JourneyInv

LEMMA ManageStep ==
  ASSUME JourneyInv, NEW c \in Threads, AdminCreate(c) \/ AdminUpdate(c) \/ AdminSetActive(c)
  PROVE  JourneyInv'
<1> DEFINE x == serving[c].on
           cell == catalogue[x]
<1>1. /\ catalogue \in [Opps -> OppRow \cup {NoOpp}]
      /\ \A u : <<"bilan_viewed", u>> \in events => <<"bilan_viewed", u>> \in events
  BY DEF JourneyInv, JourneyTypes
<1>2. Criteria \subseteq OppRow
  BY JourneyAssumption DEF OppRow
<1>3. Release(c) /\ UNCHANGED <<account, tokens, assignee, reports, events>>
  BY DEF AdminCreate, AdminUpdate, AdminSetActive, ManageOpp
<1>4. PICK row : catalogue' = [catalogue EXCEPT ![x] = row] /\ row \in OppRow
  <2>1. CASE AdminCreate(c)
    BY <1>2, <2>1 DEF AdminCreate, ManageOpp
  <2>2. CASE AdminUpdate(c) \/ AdminSetActive(c)
    <3>1. serving[c].op \in {"admin_update", "admin_set_active"} /\ serving[c].stage = "loaded"
      BY <2>2 DEF AdminUpdate, AdminSetActive, ManageOpp, Answer
    <3>2. serving[c] # NoService
      BY <3>1, NoServiceIsNone DEF JourneyOperations, Administration
    <3>3. x \in Opps /\ cell # NoOpp
      BY <3>1, <3>2 DEF JourneyInv, JourneyTypes, OnOpp
    <3>4. cell \in OppRow
      BY <1>1, <3>3
    <3>5. CASE AdminUpdate(c)
      <4>1. PICK sent \in Criteria : catalogue' = [catalogue EXCEPT ![x] =
                [f \in DOMAIN sent |-> Column(serving[c].loaded[f], sent[f], cell[f])]]
        BY <3>5 DEF AdminUpdate, ManageOpp
      <4> DEFINE new == [f \in DOMAIN sent |-> Column(serving[c].loaded[f], sent[f], cell[f])]
      <4>2. sent \in OppRow
        BY <1>2
      <4>3. DOMAIN sent = {"is_active", "min_overall", "min_maturity", "sector"}
        BY <4>2 DEF OppRow
      <4>4. \A f \in DOMAIN sent : new[f] = sent[f] \/ new[f] = cell[f]
        BY DEF Column
      <4>5. new \in OppRow
        <5>1. new = [is_active |-> new.is_active, min_overall |-> new.min_overall,
                     min_maturity |-> new.min_maturity, sector |-> new.sector]
          BY <4>3
        <5> HIDE DEF new, cell
        <5> QED BY <3>4, <4>2, <4>3, <4>4, <5>1 DEF OppRow
      <4> QED BY <4>1, <4>5
    <3>6. CASE AdminSetActive(c)
      <4>1. PICK active \in BOOLEAN : catalogue' = [catalogue EXCEPT ![x] =
                [cell EXCEPT !.is_active = Column(serving[c].loaded.is_active, active, @)]]
        BY <3>6 DEF AdminSetActive, ManageOpp
      <4> DEFINE v == Column(serving[c].loaded.is_active, active, cell.is_active)
      <4>2. v \in BOOLEAN
        <5>1. cell.is_active \in BOOLEAN
          BY <3>4 DEF OppRow
        <5>2. v = active \/ v = cell.is_active
          BY DEF Column
        <5> QED BY Zenon, <5>1, <5>2
      <4> HIDE DEF v
      <4>3. [cell EXCEPT !.is_active = v] \in OppRow
        BY <3>4, <4>2 DEF OppRow
      <4> QED BY <4>1, <4>3 DEF v
    <3> QED BY <2>2, <3>5, <3>6
  <2> QED BY <2>1, <2>2
<1> HIDE DEF x
<1>5. catalogue' \in [Opps -> OppRow \cup {NoOpp}]
  BY <1>1, <1>4
<1>6. \A o \in Opps : catalogue[o] # NoOpp => catalogue'[o] # NoOpp
  BY <1>1, <1>4, NoOppIsNone
<1> QED BY <1>1, <1>3, <1>5, <1>6, CallEnds DEF JourneyInv, JourneyTypes

LEMMA JourneyStep == JourneyInv /\ [JourneyNext]_journeyVars => JourneyInv'
<1> SUFFICES ASSUME JourneyInv, [JourneyNext]_journeyVars PROVE JourneyInv'
  OBVIOUS
<1>1. CASE UNCHANGED journeyVars
  BY <1>1 DEF journeyVars, JourneyInv, JourneyTypes, CallInv, FunnelStartsWithFounders, ActorsOf
<1> QED BY <1>1, AccountsMove, ReportsMove, ArriveStep, LoadStep, ReadingStep, RescoreStep, AssignStep, ManageStep
        DEF JourneyNext

\* The opportunities that a better score would open are those that the list says are missed.
LEMMA DoorsOpen == JourneyInv => WorkOpensDoors
<1> SUFFICES ASSUME JourneyInv, NEW o \in DOMAIN ListForProject, NEW score \in Results,
                    Better(score, ProjectScore)
             PROVE  Missing(catalogue[o], score) \subseteq ListForProject[o]
  BY DEF WorkOpensDoors
<1> DEFINE row == catalogue[o]
           old == ProjectScore
<1>1. row \in OppRow /\ ListForProject[o] = Missing(row, old)
  <2>1. o \in Opps /\ catalogue[o].is_active
    BY DEF ListForProject
  <2>2. catalogue[o] # NoOpp
    BY <2>1 DEF NoOpp
  <2> QED BY <2>1, <2>2 DEF ListForProject, JourneyInv, JourneyTypes
<1>2. old \in [overall : Nat, d11 : Nat \cup {None}]
  <2> DEFINE ready == {i \in DOMAIN reports : reports[i].status = "READY"}
  <2>1. CASE ready = {}
    <3>1. old = [overall |-> 0, d11 |-> None]
      BY <2>1 DEF ProjectScore
    <3> QED BY <3>1
  <2>2. CASE ready # {}
    <3>1. reports \in Seq(ReportRow) /\ Len(reports) \in Nat /\ ready \in SUBSET (1..Len(reports))
      BY DEF JourneyInv, JourneyTypes
    <3>2. \E k \in ready : \A l \in ready : l <= k
      <4> HIDE DEF ready
      <4> QED BY <2>2, <3>1, LargestOf
    <3>3. PICK k \in ready : old = reports[k].score
      BY <2>2, <3>2 DEF ProjectScore
    <3>4. reports[k] \in ReportRow /\ reports[k].score # None
      BY <3>1, <3>3 DEF JourneyInv, JourneyTypes
    <3>5. reports[k].score \in Results
      BY <3>4 DEF ReportRow
    <3> QED BY <3>3, <3>5, JourneyAssumption
  <2> QED BY <2>1, <2>2
<1>3. score \in [overall : Nat, d11 : Nat \cup {None}]
  BY JourneyAssumption
<1> HIDE DEF row, old
<1>4. Better(score, old)
  BY DEF old
<1>5. Short(row, score) => Short(row, old)
  BY <1>1, <1>2, <1>3, <1>4 DEF Better, Short, OppRow
<1>6. Immature(row, score) => Immature(row, old)
  BY <1>1, <1>2, <1>3, <1>4 DEF Better, Immature, OppRow
<1>7. Missing(row, score) \subseteq Missing(row, old)
  BY <1>5, <1>6 DEF Missing
<1> QED BY <1>1, <1>7 DEF row

\* A call acts with the rights it had when it came in; a report is shown to its owner or an admin only,
\* and edited by an admin or a reviewer who was assigned at some moment while his call was served; the
\* first stage of the funnel counts nobody but the founder; and a project that does better keeps its
\* opportunities: whoever the users of the project are, whatever tokens, grants and assignments become
\* while calls are served.
THEOREM TheJourneyIsSound == JourneySpec => []JourneyIsSound
<1>1. JourneyInv => RightsAreCurrent
  BY DEF JourneyInv, CallInv, RightsAreCurrent, Answering
<1>2. JourneyInv => JourneyIsSound
  BY <1>1, DoorsOpen DEF JourneyInv, JourneyIsSound
<1> QED BY <1>2, JourneyStarts, JourneyStep, PTL DEF JourneySpec

\* Whatever calls overlap, in any number: the rows keep their types, a report that is READY has a score
\* and only such a report has a PDF, and the events are of users (app/reports, app/opportunities).
THEOREM TheJourneyIsTyped == JourneySpec => []JourneyTypeOK
<1>1. JourneyInv => JourneyTypeOK
  <2> SUFFICES ASSUME JourneyTypes PROVE JourneyTypeOK
    BY DEF JourneyInv
  <2>1. reports \in Seq(ReportRow) /\ DOMAIN reports = 1..Len(reports)
    BY DEF JourneyTypes
  <2>2. \A i \in 1..Len(reports) : reports[i] \in ReportRow
    BY <2>1
  <2>3. \A i \in DOMAIN reports :
          /\ reports[i].status \in {"PENDING", "READY", "FAILED"}
          /\ reports[i].status = "READY" => reports[i].score # None
          /\ reports[i].pdf => reports[i].status = "READY"
    BY <2>1, <2>2 DEF JourneyTypes, ReportRow
  <2>4. \A c \in Threads : serving[c] # NoService =>
            serving[c].op \in JourneyOperations /\ serving[c].stage \in {"arrived", "loaded"}
    BY DEF JourneyTypes, Call
  <2>5. catalogue \in [Opps -> OppRow \cup {NoOpp}] /\ assignee \in Assignees /\ tokens \subseteq Users
    BY DEF JourneyTypes
  <2> QED BY <2>3, <2>4, <2>5 DEF JourneyTypes, JourneyTypeOK, OppRow, Assignees
<1> QED BY <1>1, JourneyStarts, JourneyStep, PTL DEF JourneySpec

-----------------------------------------------------------------------------
(* The pitch editor and the studio.                                        *)

Slideshow == {s \in Seq(Slide) : \A i, j \in DOMAIN s : s[i][1] = s[j][1] /\ (s[i] = s[j] => i = j)}
PitchRow == [sections : [Sections -> Texts \cup {None}], slides : Slideshow]
Lots == {<<>>} \cup {lot \in [1..4 -> LogoSpec] : \A i \in 1..4 : lot[i].angle = ANGLES[i]}
LogoRow == [spec : LogoSpec \cup {None}, variations : Lots]

\* The rows; a tab has loaded one that is there, and the section that is being written is as it was loaded.
WorkbenchTypes ==
    /\ pitch \in PitchRow \cup {None} /\ logo \in LogoRow \cup {None} /\ decks \in Nat
    /\ saved \in [Sections -> Texts \cup {None}] /\ DOMAIN tab = Tabs /\ tab = [r \in Tabs |-> tab[r]]
    /\ pitch = None => saved = [k \in Sections |-> None]
TabInv ==
    \A r \in Tabs :
        /\ tab[r].op \in PitchOperations =>
            /\ pitch # None /\ tab[r].loaded \in PitchRow
            /\ tab[r].op \in {"slide", "delete"} => tab[r].at \in DOMAIN tab[r].loaded.slides
            /\ tab[r].op = "section" => tab[r].at \in Sections
        /\ tab[r].op \in LogoOperations =>
            /\ logo # None /\ tab[r].loaded \in LogoRow
            /\ tab[r].op = "select" => tab[r].at \in DOMAIN tab[r].loaded.variations
SectionInv ==
    "section" \in Serial =>
        /\ SectionsAsSaved
        /\ \A r \in Tabs : tab[r].op = "section" =>
            /\ tab[r].loaded.sections = pitch.sections
            /\ \A q \in Tabs : tab[q].op = "section" => q = r
WorkbenchInv == WorkbenchTypes /\ TabInv /\ SectionInv

LEMMA RowsAreSomething == None \notin PitchRow /\ None \notin LogoRow
<1>1. PitchRow \subseteq [sections : [Sections -> Texts \cup {None}], slides : Seq(Slide)]
  BY DEF PitchRow, Slideshow
<1>2. LogoRow \subseteq [spec : LogoSpec \cup {None}, variations : Seq(LogoSpec)]
  <2>1. ASSUME NEW lot \in Lots PROVE lot \in Seq(LogoSpec)
    <3>1. CASE lot = <<>>
      BY <3>1
    <3>2. CASE lot \in [1..4 -> LogoSpec]
      <4>1. lot = [i \in 1..4 |-> lot[i]] /\ \A i \in 1..4 : lot[i] \in LogoSpec
        BY <3>2
      <4> QED BY <4>1
    <3> QED BY <2>1, <3>1, <3>2 DEF Lots
  <2> QED BY <2>1 DEF LogoRow
<1> QED BY <1>1, <1>2, NoneIsNoRow

LEMMA RowsAreSound == WorkbenchInv => OneDeck /\ LotCoversAngles
<1> SUFFICES ASSUME WorkbenchInv PROVE OneDeck /\ LotCoversAngles
  OBVIOUS
<1>1. OneDeck
  BY DEF WorkbenchInv, WorkbenchTypes, OneDeck, PitchRow, Slideshow
<1>2. LotCoversAngles
  <2> SUFFICES ASSUME logo # None
               PROVE  /\ logo.variations # <<>> => [i \in DOMAIN logo.variations |-> logo.variations[i].angle] = ANGLES
                      /\ logo.spec # None => logo.spec.angle \in AngleSet /\ logo.spec.mode \in MODES
    BY DEF LotCoversAngles
  <2>1. logo.spec \in LogoSpec \cup {None} /\ logo.variations \in Lots
    BY DEF WorkbenchInv, WorkbenchTypes, LogoRow
  <2>2. ASSUME logo.variations # <<>> PROVE [i \in DOMAIN logo.variations |-> logo.variations[i].angle] = ANGLES
    <3>1. logo.variations \in [1..4 -> LogoSpec] /\ \A i \in 1..4 : logo.variations[i].angle = ANGLES[i]
      BY <2>1, <2>2 DEF Lots
    <3>2. ANGLES = [i \in 1..4 |-> ANGLES[i]]
      BY DEF ANGLES
    <3> QED BY <3>1, <3>2
  <2> QED BY <2>1, <2>2 DEF LogoSpec
<1> QED BY <1>1, <1>2

LEMMA WorkbenchStarts == WorkbenchInit => WorkbenchInv
<1> SUFFICES ASSUME WorkbenchInit PROVE WorkbenchInv
  OBVIOUS
<1>1. \A r \in Tabs : tab[r].op \notin PitchOperations \cup LogoOperations
  BY NoneIsNoRow DEF WorkbenchInit, NoTab
<1>2. TabInv
  BY <1>1 DEF TabInv
<1>3. WorkbenchTypes
  BY DEF WorkbenchInit, WorkbenchTypes
<1>4. SectionInv
  BY <1>1 DEF WorkbenchInit, SectionInv, SectionsAsSaved, PitchOperations
<1> QED BY <1>2, <1>3, <1>4 DEF WorkbenchInv

\* The slides of an answer are of one deck, and each is there once.
LEMMA SlidesAreOfADeck ==
  ASSUME NEW answer, NEW n \in Nat, DOMAIN answer = 1..n, NEW deck \in Nat
  PROVE  SlidesOf(answer, deck) \in Slideshow
<1> DEFINE places == [i \in DOMAIN answer |-> i]
           Place(slides, i) == IF answer[i] = "slide" THEN Append(slides, <<deck, i>>) ELSE slides
           B == Seq(Slide)
           F == [x \in B \X (1..n) |-> Place(x[1], x[2])]
           h == CHOOSE g : g = [s \in SUBSET DOMAIN places |->
                    IF s = {} THEN <<>> ELSE Place(g[s \ {Max(s)}], places[Max(s)])]
<1>1. DOMAIN places = 1..n /\ \A i \in 1..n : places[i] = i
  OBVIOUS
<1>2. SlidesOf(answer, deck) = h[DOMAIN places]
  <2>1. FoldLeft(LAMBDA slides, i : IF answer[i] = "slide" THEN Append(slides, <<deck, i>>) ELSE slides, <<>>, places)
        = LET iter[s \in SUBSET DOMAIN places] ==
                IF s = {} THEN <<>> ELSE Place(iter[s \ {Max(s)}], places[Max(s)])
          IN iter[DOMAIN places]
    BY Zenon DEF FoldLeft, MapThenFoldSet
  <2> QED BY <2>1 DEF SlidesOf
<1> HIDE DEF places
<1>3. \A i \in 1..n : <<deck, i>> \in Slide
  BY DEF Slide
<1>4. \A b \in B, i \in 1..n : Place(b, i) \in B
  BY <1>3
<1>5. <<>> \in B
  OBVIOUS
<1> HIDE DEF B
<1>6. F \in [B \X (1..n) -> B] /\ \A b \in B, i \in 1..n : F[<<b, i>>] = Place(b, i)
  BY <1>4
<1> HIDE DEF F
<1>7. \A s \in SUBSET (1..n) : s # {} => Max(s) \in 1..n
  BY MaxIn
<1>8. h = [s \in SUBSET (1..n) |-> IF s = {} THEN <<>> ELSE Place(h[s \ {Max(s)}], Max(s))]
  <2>1. PICK g \in [SUBSET (1..n) -> B] : FoldedBy(g, n, <<>>, F)
    BY <1>5, <1>6, FoldExists
  <2>2. ASSUME NEW s \in SUBSET (1..n), s # {} PROVE g[s] = Place(g[s \ {Max(s)}], Max(s)) /\ places[Max(s)] = Max(s)
    <3>1. g[s \ {Max(s)}] \in B /\ Max(s) \in 1..n
      BY <1>7, <2>1, <2>2
    <3> HIDE DEF Place
    <3> QED BY <1>1, <1>6, <2>1, <2>2, <3>1 DEF FoldedBy
  <2> HIDE DEF Place
  <2>3. g = [s \in SUBSET (1..n) |-> IF s = {} THEN <<>> ELSE Place(g[s \ {Max(s)}], places[Max(s)])]
    BY <2>1, <2>2 DEF FoldedBy
  <2>4. h = [s \in SUBSET (1..n) |-> IF s = {} THEN <<>> ELSE Place(h[s \ {Max(s)}], places[Max(s)])]
    BY <1>1, <2>3
  <2>5. \A s \in SUBSET (1..n) : s # {} => places[Max(s)] = Max(s)
    BY <1>1, <1>7
  <2> HIDE DEF h
  <2> QED BY <2>4, <2>5
<1> HIDE DEF h
<1>9. FoldedIn(h, n, B, <<>>, F)
  <2> HIDE DEF Place
  <2> QED BY <1>6, <1>7, <1>8 DEF FoldedIn
<1>10. PICK it \in [0..n -> B] : it[n] = h[1..n] /\ StepsOf(it, n, <<>>, F)
  BY <1>5, <1>6, <1>9, FoldSteps
<1>11. ASSUME NEW k \in 1..n PROVE it[k] = Place(it[k - 1], k) /\ it[k - 1] \in B
  <2> HIDE DEF Place
  <2>1. k - 1 \in 0..n
    OBVIOUS
  <2> QED BY <1>6, <1>10, <2>1 DEF StepsOf
\* Those of the first k answers have increasing places.
<1> DEFINE Ordered(k) == \A i \in DOMAIN it[k] : it[k][i][1] = deck /\ it[k][i][2] \in 1..k
                              /\ \A j \in DOMAIN it[k] : j < i => it[k][j][2] < it[k][i][2]
           Bad == {k \in 0..n : ~ Ordered(k)}
<1>12. Bad = {}
  <2> SUFFICES ASSUME Bad # {} PROVE FALSE
    OBVIOUS
  <2>1. PICK k \in Bad : \A l \in Bad : k <= l
    <3>1. Bad \in SUBSET Nat
      OBVIOUS
    <3> HIDE DEF Bad
    <3> QED BY <3>1, SmallestOf
  <2>2. k # 0
    BY <1>10, <2>1 DEF StepsOf
  <2>3. k \in 1..n /\ k - 1 \in 0..n /\ k - 1 \notin Bad
    <3>1. k \in 1..n /\ k - 1 \in 0..n /\ ~ (k <= k - 1)
      BY <2>1, <2>2
    <3> HIDE DEF Bad
    <3> QED BY <2>1, <3>1
  <2>4. Ordered(k - 1)
    BY <2>3
  <2> DEFINE old == it[k - 1]
  <2>5. old \in Seq(Slide) /\ it[k] = IF answer[k] = "slide" THEN Append(old, <<deck, k>>) ELSE old
    BY <1>11, <2>3 DEF B
  <2>6. /\ \A i \in DOMAIN old : old[i][1] = deck /\ old[i][2] \in 1..(k - 1)
        /\ \A i, j \in DOMAIN old : j < i => old[j][2] < old[i][2]
    BY <2>4
  <2> HIDE DEF old
  <2>7. Ordered(k)
    <3>1. CASE answer[k] # "slide"
      BY <2>3, <2>5, <2>6, <3>1
    <3>2. CASE answer[k] = "slide"
      <4> DEFINE new == Append(old, <<deck, k>>)
      <4>1. /\ DOMAIN new = 1..(Len(old) + 1) /\ new[Len(old) + 1] = <<deck, k>> /\ Len(old) \in Nat
            /\ \A i \in 1..Len(old) : new[i] = old[i] /\ DOMAIN old = 1..Len(old)
        BY <1>3, <2>3, <2>5
      <4> HIDE DEF new
      <4>2. \A i \in DOMAIN new : new[i][1] = deck /\ new[i][2] \in 1..k
        BY <2>3, <2>6, <4>1
      <4>3. ASSUME NEW i \in DOMAIN new, NEW j \in DOMAIN new, j < i PROVE new[j][2] < new[i][2]
        <5>1. j \in 1..Len(old) /\ new[j] = old[j]
          BY <4>1, <4>3
        <5>2. CASE i \in 1..Len(old)
          BY <2>6, <4>1, <4>3, <5>1, <5>2
        <5>3. CASE i = Len(old) + 1
          <6>1. old[j][2] \in 1..(k - 1)
            BY <2>6, <4>1, <5>1
          <6> QED BY <2>3, <4>1, <5>1, <5>3, <6>1
        <5> QED BY <4>1, <5>2, <5>3
      <4>4. it[k] = new
        BY <2>5, <3>2 DEF new
      <4> QED BY <4>2, <4>3, <4>4
    <3> QED BY <3>1, <3>2
  <2> QED BY <2>1, <2>7
<1>13. Ordered(n) /\ it[n] \in Seq(Slide)
  <2>1. n \in 0..n
    OBVIOUS
  <2> QED BY <1>12, <2>1 DEF B
<1> DEFINE end == it[n]
<1>14. end \in Slideshow
  <2>1. /\ end \in Seq(Slide) /\ \A i \in DOMAIN end : end[i][1] = deck /\ end[i][2] \in Nat
        /\ \A i, j \in DOMAIN end : j < i => end[j][2] < end[i][2]
    BY <1>13
  <2> HIDE DEF end
  <2>2. ASSUME NEW i \in DOMAIN end, NEW j \in DOMAIN end, end[i] = end[j] PROVE i = j
    <3>1. i \in Nat /\ j \in Nat
      BY <2>1
    <3>2. ~ (i < j) /\ ~ (j < i)
      BY <2>1, <2>2
    <3> QED BY <3>1, <3>2
  <2> QED BY <2>1, <2>2 DEF Slideshow
<1> QED BY <1>1, <1>2, <1>10, <1>14

\* The lot being made has, at each angle, a concept of that angle or none.
Slots == {by \in [AngleSet -> LogoSpec \cup {None}] : \A a \in AngleSet : by[a] # None => by[a].angle = a}

LEMMA AnglesAreFour == /\ DOMAIN ANGLES = 1..4 /\ \A i \in 1..4 : ANGLES[i] \in AngleSet
                       /\ \A a \in AngleSet : ANGLE_MODE[a] \in MODES
<1>1. DOMAIN ANGLES = 1..4
  BY DEF ANGLES
<1>2. \A i \in 1..4 : ANGLES[i] \in AngleSet
  BY <1>1 DEF AngleSet
<1>3. ASSUME NEW a \in AngleSet PROVE ANGLE_MODE[a] \in MODES
  <2>1. a \in {"name-literal", "concept", "letter-fantasy", "wordmark"}
    BY <1>1 DEF AngleSet, ANGLES
  <2>2. ANGLE_MODE[a] = CASE a = "name-literal" -> "typographic" [] a = "concept" -> "combination"
                          [] a = "letter-fantasy" -> "monogram" [] a = "wordmark" -> "wordmark"
    BY DEF ANGLE_MODE
  <2> QED BY <2>1, <2>2 DEF MODES
<1> QED BY <1>1, <1>2, <1>3

LEMMA DefaultsAreSpecs ==
  /\ \A a \in AngleSet : DefaultForAngle(a) \in LogoSpec /\ DefaultForAngle(a).angle = a
  /\ DefaultVariations \in Lots
<1>1. \A a \in AngleSet : DefaultForAngle(a) \in LogoSpec /\ DefaultForAngle(a).angle = a
  BY AnglesAreFour DEF DefaultForAngle, LogoSpec
<1>2. \A i \in 1..4 : DefaultVariations[i] = DefaultForAngle(ANGLES[i])
  BY AnglesAreFour DEF DefaultVariations
<1>3. DefaultVariations \in [1..4 -> LogoSpec]
  BY <1>1, AnglesAreFour DEF DefaultVariations
<1> QED BY <1>1, <1>2, <1>3, AnglesAreFour DEF Lots

LEMMA SlotIsFilled == ASSUME NEW by \in Slots, NEW raw PROVE FillSlot(by, raw) \in Slots
<1> DEFINE spec == CoerceSpec(raw)
           angle == IF spec.angle # None THEN spec.angle ELSE FirstEmpty(by)
           mode == IF spec.mode = None THEN ANGLE_MODE[angle] ELSE spec.mode
<1>1. /\ spec.angle \in AngleSet \cup {None}
      /\ spec.mode \in MODES \cup {None}
  BY AnglesAreFour DEF CoerceSpec
<1>2. FirstEmpty(by) \in AngleSet \cup {None}
  <2> DEFINE empty == {i \in DOMAIN ANGLES : by[ANGLES[i]] = None}
  <2>1. CASE empty = {}
    BY <2>1 DEF FirstEmpty
  <2>2. CASE empty # {}
    <3>1. empty \in SUBSET Nat /\ empty \subseteq 1..4
      BY AnglesAreFour
    <3>2. FirstEmpty(by) = ANGLES[Min(empty)]
      BY <2>2 DEF FirstEmpty
    <3> HIDE DEF empty
    <3>3. \E x \in empty : \A y \in empty : x <= y
      BY <2>2, <3>1, SmallestOf
    <3>4. Min(empty) \in empty
      BY <3>3, Zenon DEF Min
    <3> QED BY <3>1, <3>2, <3>4, AnglesAreFour
  <2> QED BY <2>1, <2>2
<1>3. FillSlot(by, raw) = IF raw = None \/ angle = None \/ by[angle] # None THEN by
                          ELSE [by EXCEPT ![angle] = [angle |-> angle, mode |-> mode]]
  BY DEF FillSlot
<1>4. angle \in AngleSet \cup {None}
  BY <1>1, <1>2
<1>5. angle \in AngleSet => mode \in MODES
  BY <1>1, AnglesAreFour
<1> HIDE DEF spec, angle, mode
<1>6. CASE raw = None \/ angle = None \/ by[angle] # None
  BY <1>3, <1>6
<1>7. CASE ~ (raw = None \/ angle = None \/ by[angle] # None)
  <2> DEFINE put == [angle |-> angle, mode |-> mode]
  <2>1. angle \in AngleSet /\ put \in LogoSpec /\ put.angle = angle
    BY <1>4, <1>5, <1>7 DEF LogoSpec
  <2>2. FillSlot(by, raw) = [by EXCEPT ![angle] = put]
    BY <1>3, <1>7
  <2> HIDE DEF put
  <2> QED BY <2>1, <2>2 DEF Slots
<1> QED BY <1>6, <1>7

\* Whatever the LLM answers, there is a concept for each angle.
LEMMA ALotForAnyAnswer ==
  ASSUME NEW answer, NEW n \in Nat, DOMAIN answer = 1..n
  PROVE  ParseVariations(answer) \in Lots /\ ParseVariations(answer)[1] \in LogoSpec
<1> DEFINE B == Slots
           base == [angle \in AngleSet |-> None]
           F == [x \in B \X (1..n) |-> FillSlot(x[1], answer[x[2]])]
           h == CHOOSE g : g = [s \in SUBSET DOMAIN answer |->
                    IF s = {} THEN base ELSE FillSlot(g[s \ {Max(s)}], answer[Max(s)])]
           by == FoldLeft(FillSlot, base, answer)
<1>1. by = h[DOMAIN answer]
  <2>1. by = LET iter[s \in SUBSET DOMAIN answer] ==
                    IF s = {} THEN base ELSE FillSlot(iter[s \ {Max(s)}], answer[Max(s)])
             IN iter[DOMAIN answer]
    BY Zenon DEF FoldLeft, MapThenFoldSet
  <2> QED BY <2>1
<1>2. base \in B
  BY DEF Slots
<1>3. F \in [B \X (1..n) -> B] /\ \A b \in B, i \in 1..n : F[<<b, i>>] = FillSlot(b, answer[i])
  BY SlotIsFilled
<1> HIDE DEF B, F, base
<1>4. \A s \in SUBSET (1..n) : s # {} => Max(s) \in 1..n
  BY MaxIn
<1>5. h = [s \in SUBSET (1..n) |-> IF s = {} THEN base ELSE FillSlot(h[s \ {Max(s)}], answer[Max(s)])]
  <2>1. PICK g \in [SUBSET (1..n) -> B] : FoldedBy(g, n, base, F)
    BY <1>2, <1>3, FoldExists
  <2>2. ASSUME NEW s \in SUBSET (1..n), s # {} PROVE g[s] = FillSlot(g[s \ {Max(s)}], answer[Max(s)])
    <3>1. g[s \ {Max(s)}] \in B /\ Max(s) \in 1..n
      BY <1>4, <2>1, <2>2
    <3> QED BY <1>3, <2>1, <2>2, <3>1 DEF FoldedBy
  <2>3. g = [s \in SUBSET (1..n) |-> IF s = {} THEN base ELSE FillSlot(g[s \ {Max(s)}], answer[Max(s)])]
    BY <2>1, <2>2 DEF FoldedBy
  <2> QED BY <2>3
<1> HIDE DEF h
<1>6. FoldedIn(h, n, B, base, F)
  BY <1>3, <1>4, <1>5 DEF FoldedIn
<1>7. PICK it \in [0..n -> B] : it[n] = h[1..n] /\ StepsOf(it, n, base, F)
  BY <1>2, <1>3, <1>6, FoldSteps
<1>8. by \in Slots
  BY <1>1, <1>7 DEF B
<1>9. ParseVariations(answer) =
        [i \in 1..4 |-> IF by[ANGLES[i]] # None THEN by[ANGLES[i]] ELSE DefaultForAngle(ANGLES[i])]
  BY AnglesAreFour DEF ParseVariations, base
<1> HIDE DEF by
<1>10. \A i \in 1..4 : LET spec == IF by[ANGLES[i]] # None THEN by[ANGLES[i]] ELSE DefaultForAngle(ANGLES[i]) IN
                       spec \in LogoSpec /\ spec.angle = ANGLES[i]
  BY <1>8, AnglesAreFour, DefaultsAreSpecs DEF Slots
<1> QED BY <1>9, <1>10 DEF Lots

LEMMA RowsCreated == ASSUME WorkbenchInv, CreatePitch \/ CreateLogo PROVE WorkbenchInv'
<1>1. CASE CreatePitch
  <2>1. /\ pitch = None /\ pitch' = [sections |-> [k \in Sections |-> None], slides |-> <<>>]
        /\ UNCHANGED <<decks, logo, tab, calls, saved>>
    BY <1>1 DEF CreatePitch
  <2>2. \A r \in Tabs : tab[r].op \notin PitchOperations
    BY <2>1 DEF WorkbenchInv, TabInv
  <2>3. pitch' \in PitchRow /\ pitch'.sections = [k \in Sections |-> None] /\ pitch' # None
    <3>1. <<>> \in Slideshow
      BY DEF Slideshow
    <3>2. pitch' \in PitchRow /\ pitch'.sections = [k \in Sections |-> None]
      BY <2>1, <3>1 DEF PitchRow
    <3> QED BY <3>2, RowsAreSomething
  <2>4. WorkbenchTypes'
    BY <2>1, <2>3 DEF WorkbenchInv, WorkbenchTypes
  <2>5. TabInv'
    BY <2>1, <2>2, <2>3 DEF WorkbenchInv, TabInv
  <2>6. SectionInv'
    BY <2>1, <2>2, <2>3 DEF WorkbenchInv, WorkbenchTypes, SectionInv, SectionsAsSaved, PitchOperations
  <2> QED BY <2>4, <2>5, <2>6 DEF WorkbenchInv
<1>2. CASE CreateLogo
  <2>1. logo' = [spec |-> None, variations |-> <<>>] /\ UNCHANGED <<pitch, decks, tab, calls, saved>>
    BY <1>2 DEF CreateLogo
  <2>2. logo' \in LogoRow /\ logo' # None
    <3>1. logo' \in LogoRow
      BY <2>1 DEF LogoRow, Lots
    <3> QED BY <3>1, RowsAreSomething
  <2>3. WorkbenchTypes'
    BY <2>1, <2>2 DEF WorkbenchInv, WorkbenchTypes
  <2>4. TabInv'
    BY <2>1, <2>2 DEF WorkbenchInv, TabInv
  <2>5. SectionInv'
    BY <2>1 DEF WorkbenchInv, SectionInv, SectionsAsSaved
  <2> QED BY <2>3, <2>4, <2>5 DEF WorkbenchInv
<1> QED BY <1>1, <1>2

\* A tab opens on the row that is there.
LEMMA TabOpens ==
  ASSUME WorkbenchInv, NEW r \in Tabs, NEW op, NEW loaded, NEW at, OpenTab(r, op, loaded, at),
         UNCHANGED <<pitch, decks, logo, saved>>,
         op \in PitchOperations =>
            /\ pitch # None /\ loaded = pitch
            /\ op \in {"slide", "delete"} => at \in DOMAIN pitch.slides
            /\ op = "section" => at \in Sections,
         op \in LogoOperations =>
            /\ logo # None /\ loaded = logo
            /\ op = "select" => at \in DOMAIN logo.variations
  PROVE  WorkbenchInv'
<1> DEFINE call == [op |-> op, loaded |-> loaded, at |-> at]
<1>1. /\ tab' = [tab EXCEPT ![r] = call] /\ tab[r] = NoTab
      /\ op \in Serial => \A q \in Tabs : tab[q].op # op
  BY DEF OpenTab
<1>2. call.op = op /\ call.loaded = loaded /\ call.at = at
  OBVIOUS
<1> HIDE DEF call
<1>3. DOMAIN tab = Tabs /\ tab = [q \in Tabs |-> tab[q]]
  BY DEF WorkbenchInv, WorkbenchTypes
<1>4. /\ tab'[r] = call /\ \A q \in Tabs : q # r => tab'[q] = tab[q]
      /\ DOMAIN tab' = Tabs /\ tab' = [q \in Tabs |-> tab'[q]]
  BY <1>1, <1>3
<1>5. WorkbenchTypes'
  BY <1>4 DEF WorkbenchInv, WorkbenchTypes
<1>6. (pitch # None => pitch \in PitchRow) /\ (logo # None => logo \in LogoRow)
  BY DEF WorkbenchInv, WorkbenchTypes
<1>7. TabInv'
  BY <1>2, <1>4, <1>6 DEF WorkbenchInv, TabInv
<1>8. SectionInv'
  <2> SUFFICES ASSUME "section" \in Serial
               PROVE  /\ SectionsAsSaved'
                      /\ \A q \in Tabs : tab'[q].op = "section" =>
                          /\ tab'[q].loaded.sections = pitch'.sections
                          /\ \A u \in Tabs : tab'[u].op = "section" => u = q
    BY DEF SectionInv
  <2>1. SectionsAsSaved'
    BY DEF WorkbenchInv, SectionInv, SectionsAsSaved
  <2>2. op = "section" => loaded = pitch /\ \A q \in Tabs : tab[q].op # "section"
    BY <1>1 DEF PitchOperations
  <2>3. \A q \in Tabs : tab[q].op = "section" =>
            tab[q].loaded.sections = pitch.sections /\ \A u \in Tabs : tab[u].op = "section" => u = q
    BY DEF WorkbenchInv, SectionInv
  <2> QED BY <1>2, <1>4, <2>1, <2>2, <2>3
<1> QED BY <1>5, <1>7, <1>8 DEF WorkbenchInv

LEMMA OpenStep ==
  ASSUME WorkbenchInv, NEW r \in Tabs,
         \/ \E op \in PitchOperations : OpenPitch(r, op)
         \/ \E op \in LogoOperations : OpenLogo(r, op)
  PROVE  WorkbenchInv'
<1>1. ASSUME NEW op \in PitchOperations, OpenPitch(r, op) PROVE WorkbenchInv'
  <2>1. PICK at \in CASE op = "section" -> Sections
                      [] op \in {"slide", "delete"} -> DOMAIN pitch.slides
                      [] OTHER -> {None} :
             OpenTab(r, op, pitch, at)
    BY <1>1 DEF OpenPitch
  <2>2. pitch # None /\ UNCHANGED <<pitch, decks, logo, saved>>
    BY <1>1 DEF OpenPitch
  <2>3. op = "section" => at \in Sections
    BY <2>1
  <2>4. op \in {"slide", "delete"} => at \in DOMAIN pitch.slides
    BY <2>1
  <2>5. op \notin LogoOperations
    BY DEF PitchOperations, LogoOperations
  <2> QED BY <2>1, <2>2, <2>3, <2>4, <2>5, TabOpens
<1>2. ASSUME NEW op \in LogoOperations, OpenLogo(r, op) PROVE WorkbenchInv'
  <2>1. PICK at \in IF op = "select" THEN DOMAIN logo.variations ELSE {None} : OpenTab(r, op, logo, at)
    BY <1>2 DEF OpenLogo
  <2>2. logo # None /\ UNCHANGED <<pitch, decks, logo, saved>>
    BY <1>2 DEF OpenLogo
  <2>3. op = "select" => at \in DOMAIN logo.variations
    BY <2>1
  <2>4. op \notin PitchOperations
    BY DEF PitchOperations, LogoOperations
  <2> QED BY <2>1, <2>2, <2>3, <2>4, TabOpens
<1> QED BY <1>1, <1>2

\* A tab is done: the rows are as they were, or as it wrote them.
LEMMA TabCloses ==
  ASSUME WorkbenchInv, NEW r \in Tabs, CloseTab(r),
         pitch' \in PitchRow \cup {None}, logo' \in LogoRow \cup {None}, decks' \in Nat,
         saved' \in [Sections -> Texts \cup {None}],
         pitch = None => pitch' = None /\ saved' = saved,
         pitch # None => pitch' # None,
         logo # None => logo' # None,
         \/ pitch # None /\ tab[r].op = "section" /\ ("section" \in Serial => pitch'.sections = saved')
         \/ saved' = saved /\ (pitch # None => pitch'.sections = pitch.sections)
  PROVE  WorkbenchInv'
<1>1. DOMAIN tab = Tabs /\ tab = [q \in Tabs |-> tab[q]] /\ tab' = [tab EXCEPT ![r] = NoTab]
  BY DEF WorkbenchInv, WorkbenchTypes, CloseTab
<1>2. /\ tab'[r].op \notin PitchOperations \cup LogoOperations
      /\ \A q \in Tabs : q # r => tab'[q] = tab[q]
      /\ DOMAIN tab' = Tabs /\ tab' = [q \in Tabs |-> tab'[q]]
  BY <1>1, NoneIsNoRow DEF NoTab
<1>3. WorkbenchTypes'
  BY <1>2 DEF WorkbenchInv, WorkbenchTypes
<1>4. TabInv'
  BY <1>2 DEF WorkbenchInv, TabInv
<1>5. SectionInv'
  <2> SUFFICES ASSUME "section" \in Serial
               PROVE  /\ SectionsAsSaved'
                      /\ \A q \in Tabs : tab'[q].op = "section" =>
                          /\ tab'[q].loaded.sections = pitch'.sections
                          /\ \A u \in Tabs : tab'[u].op = "section" => u = q
    BY DEF SectionInv
  <2>1. pitch # None => pitch.sections = saved
    BY DEF WorkbenchInv, SectionInv, SectionsAsSaved
  <2>2. SectionsAsSaved'
    BY <2>1 DEF SectionsAsSaved
  <2>3. \A q \in Tabs : tab[q].op = "section" =>
            /\ tab[q].loaded.sections = pitch.sections /\ pitch # None
            /\ \A u \in Tabs : tab[u].op = "section" => u = q
    BY DEF WorkbenchInv, SectionInv, TabInv, PitchOperations
  <2>4. tab'[r].op # "section"
    BY <1>2 DEF PitchOperations
  <2> QED BY <1>2, <2>2, <2>3, <2>4
<1> QED BY <1>3, <1>4, <1>5 DEF WorkbenchInv

\* What a tab that writes knows.
LEMMA PitchIsThere ==
  ASSUME WorkbenchInv, NEW r \in Tabs, tab[r].op \in PitchOperations
  PROVE  /\ pitch # None /\ pitch \in PitchRow /\ tab[r].loaded \in PitchRow /\ decks \in Nat
         /\ logo \in LogoRow \cup {None} /\ saved \in [Sections -> Texts \cup {None}]
BY DEF WorkbenchInv, WorkbenchTypes, TabInv

LEMMA LogoIsThere ==
  ASSUME WorkbenchInv, NEW r \in Tabs, tab[r].op \in LogoOperations
  PROVE  /\ logo # None /\ logo \in LogoRow /\ tab[r].loaded \in LogoRow /\ decks \in Nat
         /\ pitch \in PitchRow \cup {None} /\ saved \in [Sections -> Texts \cup {None}]
BY DEF WorkbenchInv, WorkbenchTypes, TabInv

LEMMA GiveUpTabStep == ASSUME WorkbenchInv, NEW r \in Tabs, GiveUpTab(r) PROVE WorkbenchInv'
<1>1. /\ pitch \in PitchRow \cup {None} /\ logo \in LogoRow \cup {None} /\ decks \in Nat
      /\ saved \in [Sections -> Texts \cup {None}]
  BY DEF WorkbenchInv, WorkbenchTypes
<1>2. CloseTab(r) /\ UNCHANGED <<pitch, decks, logo, saved>>
  BY DEF GiveUpTab
<1> QED BY <1>1, <1>2, TabCloses

LEMMA UpdateSectionStep == ASSUME WorkbenchInv, NEW r \in Tabs, UpdateSection(r) PROVE WorkbenchInv'
<1> DEFINE loaded == tab[r].loaded
           at == tab[r].at
<1>1. tab[r].op = "section" /\ CloseTab(r) /\ UNCHANGED <<decks, logo>>
  BY DEF UpdateSection
<1>2. /\ pitch # None /\ pitch \in PitchRow /\ loaded \in PitchRow /\ decks \in Nat
      /\ logo \in LogoRow \cup {None} /\ saved \in [Sections -> Texts \cup {None}]
  BY <1>1, PitchIsThere DEF PitchOperations
<1>3. at \in Sections
  BY <1>1 DEF WorkbenchInv, TabInv, PitchOperations
<1>4. PICK text \in Texts :
        /\ pitch' = [pitch EXCEPT !.sections = Column(loaded.sections, [loaded.sections EXCEPT ![at] = text], @)]
        /\ saved' = [saved EXCEPT ![at] = text]
  BY DEF UpdateSection
<1> DEFINE new == Column(loaded.sections, [loaded.sections EXCEPT ![at] = text], pitch.sections)
<1>5. /\ loaded.sections \in [Sections -> Texts \cup {None}] /\ pitch.sections \in [Sections -> Texts \cup {None}]
  BY <1>2 DEF PitchRow
<1> HIDE DEF loaded, at
<1>6. new \in [Sections -> Texts \cup {None}] /\ saved' \in [Sections -> Texts \cup {None}]
  BY <1>2, <1>4, <1>5 DEF Column
<1>7. "section" \in Serial => new = saved'
  <2> SUFFICES ASSUME "section" \in Serial PROVE new = saved'
    OBVIOUS
  <2>1. loaded.sections = pitch.sections /\ pitch.sections = saved
    BY <1>1, <1>2 DEF loaded, WorkbenchInv, SectionInv, SectionsAsSaved
  <2> QED BY <1>4, <2>1 DEF Column
<1>8. pitch' = [pitch EXCEPT !.sections = new]
  BY <1>4
<1> HIDE DEF new
<1>9. pitch' \in PitchRow /\ pitch'.sections = new
  BY <1>2, <1>6, <1>8 DEF PitchRow
<1>10. pitch' # None
  BY <1>9, RowsAreSomething
<1> QED BY <1>1, <1>2, <1>6, <1>7, <1>9, <1>10, TabCloses

\* Only the slides are written.
LEMMA SlidesWritten ==
  ASSUME WorkbenchInv, NEW r \in Tabs, tab[r].op \in PitchOperations, CloseTab(r), UNCHANGED <<logo, saved>>,
         decks' \in Nat, NEW slides \in Slideshow, pitch' = [pitch EXCEPT !.slides = slides]
  PROVE  WorkbenchInv'
<1>1. /\ pitch # None /\ pitch \in PitchRow
      /\ logo \in LogoRow \cup {None} /\ saved \in [Sections -> Texts \cup {None}]
  BY PitchIsThere
<1>2. pitch' \in PitchRow /\ pitch'.sections = pitch.sections
  BY <1>1 DEF PitchRow
<1>3. pitch' # None
  BY <1>2, RowsAreSomething
<1> QED BY <1>1, <1>2, <1>3, TabCloses

LEMMA GenerateDeckStep == ASSUME WorkbenchInv, NEW r \in Tabs, GenerateDeck(r) PROVE WorkbenchInv'
<1>1. /\ tab[r].op \in PitchOperations /\ CloseTab(r) /\ UNCHANGED <<logo, saved>> /\ decks' = decks + 1
  BY DEF GenerateDeck, PitchOperations
<1>2. pitch \in PitchRow /\ tab[r].loaded \in PitchRow /\ decks' \in Nat
  BY <1>1, PitchIsThere
<1>3. PICK answer \in DeckAnswers : SetSlides(r, SlidesOf(answer, decks'))
  BY DEF GenerateDeck
<1>4. Len(answer) \in Nat /\ DOMAIN answer = 1..Len(answer)
  BY WorkbenchAssumption
<1> DEFINE deck == decks'
           made == SlidesOf(answer, deck)
           slides == Column(tab[r].loaded.slides, made, pitch.slides)
<1>5. made \in Slideshow
  <2> HIDE DEF deck
  <2>1. deck \in Nat
    BY <1>2 DEF deck
  <2> QED BY <1>4, <2>1, SlidesAreOfADeck
<1>6. pitch' = [pitch EXCEPT !.slides = slides]
  BY <1>3 DEF SetSlides
<1> HIDE DEF made
<1>7. slides \in Slideshow
  BY <1>2, <1>5 DEF Column, PitchRow
<1> HIDE DEF slides
<1> QED BY <1>1, <1>2, <1>6, <1>7, SlidesWritten

LEMMA UpdateSlideStep == ASSUME WorkbenchInv, NEW r \in Tabs, UpdateSlide(r) PROVE WorkbenchInv'
<1>1. /\ tab[r].op \in PitchOperations /\ CloseTab(r) /\ UNCHANGED <<decks, logo, saved>>
      /\ pitch' = [pitch EXCEPT !.slides = tab[r].loaded.slides]
  BY DEF UpdateSlide, PitchOperations
<1>2. tab[r].loaded \in PitchRow /\ decks' \in Nat
  BY <1>1, PitchIsThere
<1>3. tab[r].loaded.slides \in Slideshow
  BY <1>2 DEF PitchRow
<1> QED BY <1>1, <1>2, <1>3, SlidesWritten

\* What is left of a deck when a slide is deleted.
LEMMA SlideRemoved ==
  ASSUME NEW slides \in Slideshow, NEW at \in DOMAIN slides
  PROVE  RemoveAt(slides, at) \in Slideshow
<1> DEFINE left == RemoveAt(slides, at)
           n == Len(slides)
<1>1. slides \in Seq(Slide) /\ n \in Nat /\ DOMAIN slides = 1..n /\ at \in 1..n
  BY DEF Slideshow
<1>2. /\ left \in Seq(Slide) /\ Len(left) = n - 1
      /\ \A i \in 1..(n - 1) : left[i] = IF i < at THEN slides[i] ELSE slides[i + 1]
  <2> DEFINE s == SubSeq(slides, 1, at - 1)
             t == SubSeq(slides, at + 1, n)
  <2>1. /\ s \in Seq(Slide) /\ Len(s) = at - 1 /\ \A i \in 1..(at - 1) : s[i] = slides[i]
    BY <1>1
  <2>2. /\ t \in Seq(Slide) /\ Len(t) = n - at /\ \A i \in 1..(n - at) : t[i] = slides[at + i]
    BY <1>1
  <2>3. left = s \o t
    BY DEF RemoveAt
  <2> HIDE DEF s, t
  <2>4. /\ s \o t \in Seq(Slide) /\ Len(s \o t) = n - 1
        /\ \A i \in 1..(n - 1) : (s \o t)[i] = IF i <= at - 1 THEN s[i] ELSE t[i - (at - 1)]
    <3>1. /\ s \o t \in Seq(Slide) /\ Len(s \o t) = Len(s) + Len(t)
          /\ \A i \in 1..(Len(s) + Len(t)) : (s \o t)[i] = IF i <= Len(s) THEN s[i] ELSE t[i - Len(s)]
      BY <2>1, <2>2, ConcatProperties
    <3>2. Len(s) + Len(t) = n - 1
      BY <1>1, <2>1, <2>2
    <3> QED BY <2>1, <3>1, <3>2
  <2> HIDE DEF left
  <2>5. ASSUME NEW i \in 1..(n - 1) PROVE left[i] = IF i < at THEN slides[i] ELSE slides[i + 1]
    <3>1. CASE i < at
      <4>1. i \in 1..(at - 1) /\ i <= at - 1
        BY <1>1, <3>1
      <4> QED BY <2>1, <2>3, <2>4, <3>1, <4>1
    <3>2. CASE ~ (i < at)
      <4>1. i - (at - 1) \in 1..(n - at) /\ ~ (i <= at - 1) /\ at + (i - (at - 1)) = i + 1
        BY <1>1, <3>2
      <4> QED BY <2>2, <2>3, <2>4, <3>2, <4>1
    <3> QED BY <3>1, <3>2
  <2> QED BY <2>3, <2>4, <2>5
<1> HIDE DEF left
<1>3. ASSUME NEW i \in 1..(n - 1), NEW j \in 1..(n - 1)
      PROVE  left[i][1] = left[j][1] /\ (left[i] = left[j] => i = j)
  <2> DEFINE I == IF i < at THEN i ELSE i + 1
             J == IF j < at THEN j ELSE j + 1
  <2>1. I \in 1..n /\ J \in 1..n /\ left[i] = slides[I] /\ left[j] = slides[J] /\ (I = J => i = j)
    BY <1>1, <1>2
  <2> HIDE DEF I, J
  <2> QED BY <1>1, <2>1 DEF Slideshow
<1>4. DOMAIN left = 1..(n - 1) /\ left \in Seq(Slide)
  BY <1>2
<1> QED BY <1>3, <1>4 DEF Slideshow, left

LEMMA DeleteSlideStep == ASSUME WorkbenchInv, NEW r \in Tabs, DeleteSlide(r) PROVE WorkbenchInv'
<1> DEFINE gone == RemoveAt(tab[r].loaded.slides, tab[r].at)
           slides == Column(tab[r].loaded.slides, gone, pitch.slides)
<1>1. /\ tab[r].op = "delete" /\ tab[r].op \in PitchOperations /\ CloseTab(r) /\ UNCHANGED <<decks, logo, saved>>
      /\ pitch' = [pitch EXCEPT !.slides = slides]
  BY DEF DeleteSlide, PitchOperations, SetSlides
<1>2. pitch \in PitchRow /\ tab[r].loaded \in PitchRow /\ decks' \in Nat
  BY <1>1, PitchIsThere
<1>3. tab[r].at \in DOMAIN tab[r].loaded.slides
  BY <1>1 DEF WorkbenchInv, TabInv
<1>4. tab[r].loaded.slides \in Slideshow /\ pitch.slides \in Slideshow
  BY <1>2 DEF PitchRow
<1>5. gone \in Slideshow
  BY <1>3, <1>4, SlideRemoved
<1> HIDE DEF gone
<1>6. slides \in Slideshow
  BY <1>4, <1>5 DEF Column
<1> HIDE DEF slides
<1> QED BY <1>1, <1>2, <1>6, SlidesWritten

\* An order of the slides takes each of them once.
LEMMA OrdersArePermutations ==
  ASSUME NEW n \in Nat, NEW order \in Orders(n)
  PROVE  order \in [1..n -> 1..n] /\ \A i, j \in 1..n : order[i] = order[j] => i = j
<1>1. order \in [1..n -> 1..n] /\ \A i \in 1..n : \E j \in 1..n : order[j] = i
  BY DEF Orders
<1>2. order \in Surjection(1..n, 1..n)
  BY <1>1 DEF Surjection
<1>3. IsFiniteSet(1..n) /\ Cardinality(1..n) = Cardinality(1..n)
  BY FS_Interval
<1>4. order \in Injection(1..n, 1..n)
  BY <1>2, <1>3, FS_SurjSameCardinalityImpliesInj
<1> QED BY <1>1, <1>4 DEF Injection, IsInjective

LEMMA SlidesReordered ==
  ASSUME NEW slides \in Slideshow, NEW order \in Orders(Len(slides))
  PROVE  [i \in DOMAIN slides |-> slides[order[i]]] \in Slideshow
<1> DEFINE n == Len(slides)
           new == [i \in DOMAIN slides |-> slides[order[i]]]
<1>1. slides \in Seq(Slide) /\ n \in Nat /\ DOMAIN slides = 1..n
  BY DEF Slideshow
<1>2. order \in [1..n -> 1..n] /\ \A i, j \in 1..n : order[i] = order[j] => i = j
  BY <1>1, OrdersArePermutations
<1>3. new = [i \in 1..n |-> slides[order[i]]] /\ \A i \in 1..n : slides[order[i]] \in Slide
  BY <1>1, <1>2
<1>4. new \in Seq(Slide) /\ DOMAIN new = 1..n /\ \A i \in 1..n : new[i] = slides[order[i]] /\ order[i] \in 1..n
  BY <1>1, <1>2, <1>3
<1> HIDE DEF new
<1>5. ASSUME NEW i \in 1..n, NEW j \in 1..n PROVE new[i][1] = new[j][1] /\ (new[i] = new[j] => i = j)
  <2>1. slides[order[i]][1] = slides[order[j]][1] /\ (slides[order[i]] = slides[order[j]] => order[i] = order[j])
    BY <1>1, <1>4 DEF Slideshow
  <2> QED BY <1>2, <1>4, <2>1
<1>6. new \in Slideshow
  BY <1>4, <1>5 DEF Slideshow
<1> QED BY <1>6 DEF new

LEMMA ReorderSlidesStep == ASSUME WorkbenchInv, NEW r \in Tabs, ReorderSlides(r) PROVE WorkbenchInv'
<1> DEFINE loaded == tab[r].loaded.slides
<1>1. PICK order \in Orders(Len(loaded)) : SetSlides(r, [i \in DOMAIN loaded |-> loaded[order[i]]])
  BY DEF ReorderSlides
<1> DEFINE new == [i \in DOMAIN loaded |-> loaded[order[i]]]
           slides == Column(loaded, new, pitch.slides)
<1>2. /\ tab[r].op \in PitchOperations /\ CloseTab(r) /\ UNCHANGED <<decks, logo, saved>>
      /\ pitch' = [pitch EXCEPT !.slides = slides]
  BY <1>1 DEF ReorderSlides, PitchOperations, SetSlides
<1>3. pitch \in PitchRow /\ tab[r].loaded \in PitchRow /\ decks' \in Nat
  BY <1>2, PitchIsThere
<1>4. loaded \in Slideshow /\ pitch.slides \in Slideshow
  BY <1>3 DEF PitchRow
<1> HIDE DEF loaded
<1>5. new \in Slideshow
  BY <1>4, SlidesReordered
<1> HIDE DEF new
<1>6. slides \in Slideshow
  BY <1>4, <1>5 DEF Column
<1> HIDE DEF slides
<1> QED BY <1>2, <1>3, <1>6, SlidesWritten

\* Only the logo is written.
LEMMA LogoWritten ==
  ASSUME WorkbenchInv, NEW r \in Tabs, tab[r].op \in LogoOperations, CloseTab(r), UNCHANGED <<pitch, decks, saved>>,
         logo' \in LogoRow
  PROVE  WorkbenchInv'
<1>1. decks' \in Nat /\ pitch' \in PitchRow \cup {None} /\ saved' \in [Sections -> Texts \cup {None}]
  BY LogoIsThere
<1>2. logo' # None
  BY RowsAreSomething
<1> QED BY <1>1, <1>2, TabCloses

LEMMA GenerateLogoStep == ASSUME WorkbenchInv, NEW r \in Tabs, GenerateLogo(r) PROVE WorkbenchInv'
<1>1. PICK answer \in LogoAnswers :
        LET lot == IF answer = None THEN DefaultVariations ELSE ParseVariations(answer) IN
        logo' = [spec |-> IF tab[r].loaded.spec = None THEN lot[1] ELSE logo.spec,
                 variations |-> Column(tab[r].loaded.variations, lot, logo.variations)]
  BY DEF GenerateLogo
<1> DEFINE lot == IF answer = None THEN DefaultVariations ELSE ParseVariations(answer)
<1>2. lot \in Lots
  BY WorkbenchAssumption, ALotForAnyAnswer, DefaultsAreSpecs
<1>3. lot[1] \in LogoSpec
  <2>1. CASE answer = None
    BY <2>1, DefaultsAreSpecs, AnglesAreFour DEF DefaultVariations
  <2>2. CASE answer # None
    <3>1. ParseVariations(answer)[1] \in LogoSpec
      BY <2>2, WorkbenchAssumption, ALotForAnyAnswer
    <3> QED BY <2>2, <3>1
  <2> QED BY <2>1, <2>2
<1>4. /\ tab[r].op \in LogoOperations /\ CloseTab(r) /\ UNCHANGED <<pitch, decks, saved>>
  BY DEF GenerateLogo, LogoOperations
<1>5. logo \in LogoRow /\ tab[r].loaded \in LogoRow
  BY <1>4, LogoIsThere
<1> HIDE DEF lot
<1>6. logo' = [spec |-> IF tab[r].loaded.spec = None THEN lot[1] ELSE logo.spec,
               variations |-> Column(tab[r].loaded.variations, lot, logo.variations)]
  BY <1>1 DEF lot
<1>7. logo' \in LogoRow
  BY <1>2, <1>3, <1>5, <1>6 DEF LogoRow, Column
<1> QED BY <1>4, <1>7, LogoWritten

LEMMA SelectVariationStep == ASSUME WorkbenchInv, NEW r \in Tabs, SelectVariation(r) PROVE WorkbenchInv'
<1> DEFINE loaded == tab[r].loaded
           chosen == loaded.variations[tab[r].at]
           spec == Column(loaded.spec, chosen, logo.spec)
<1>1. /\ tab[r].op = "select" /\ tab[r].op \in LogoOperations /\ CloseTab(r) /\ UNCHANGED <<pitch, decks, saved>>
      /\ logo' = [logo EXCEPT !.spec = spec]
  BY DEF SelectVariation, LogoOperations
<1>2. logo \in LogoRow /\ loaded \in LogoRow
  BY <1>1, LogoIsThere
<1>3. tab[r].at \in DOMAIN loaded.variations
  BY <1>1 DEF WorkbenchInv, TabInv
<1>4. chosen \in LogoSpec
  <2>1. loaded.variations \in Lots
    BY <1>2 DEF LogoRow
  <2> HIDE DEF loaded
  <2>2. loaded.variations \in [1..4 -> LogoSpec]
    BY <1>3, <2>1 DEF Lots
  <2> QED BY <1>3, <2>2
<1> HIDE DEF chosen, loaded
<1>5. spec \in LogoSpec \cup {None}
  BY <1>2, <1>4 DEF LogoRow, Column
<1> HIDE DEF spec
<1>6. logo' \in LogoRow
  BY <1>1, <1>2, <1>5 DEF LogoRow
<1> QED BY <1>1, <1>6, LogoWritten

LEMMA UpdateSpecStep == ASSUME WorkbenchInv, NEW r \in Tabs, UpdateSpec(r) PROVE WorkbenchInv'
<1> DEFINE base == IF tab[r].loaded.spec = None THEN DefaultVariations[1] ELSE tab[r].loaded.spec
<1>1. /\ tab[r].op \in LogoOperations /\ CloseTab(r) /\ UNCHANGED <<pitch, decks, saved>>
      /\ logo' = [logo EXCEPT !.spec = CoerceSpec(base)]
  BY DEF UpdateSpec, LogoOperations
<1>2. logo \in LogoRow /\ tab[r].loaded \in LogoRow
  BY <1>1, LogoIsThere
<1>3. DefaultVariations[1] \in LogoSpec
  BY DefaultsAreSpecs, AnglesAreFour DEF DefaultVariations
<1>4. base \in LogoSpec
  BY <1>2, <1>3 DEF LogoRow
<1> HIDE DEF base
<1>5. CoerceSpec(base) \in LogoSpec
  BY <1>4 DEF LogoSpec, CoerceSpec
<1>6. logo' \in LogoRow
  BY <1>1, <1>2, <1>5 DEF LogoRow
<1> QED BY <1>1, <1>6, LogoWritten

LEMMA WorkbenchStep == WorkbenchInv /\ [WorkbenchNext]_workbenchVars => WorkbenchInv'
<1> SUFFICES ASSUME WorkbenchInv, [WorkbenchNext]_workbenchVars PROVE WorkbenchInv'
  OBVIOUS
<1>1. CASE UNCHANGED workbenchVars
  BY <1>1 DEF workbenchVars, WorkbenchInv, WorkbenchTypes, TabInv, SectionInv, SectionsAsSaved
<1>2. CASE WorkbenchNext
  BY <1>2, RowsCreated, OpenStep, GiveUpTabStep, UpdateSectionStep, GenerateDeckStep, UpdateSlideStep, DeleteSlideStep,
     ReorderSlidesStep, GenerateLogoStep, SelectVariationStep, UpdateSpecStep DEF WorkbenchNext
<1> QED BY <1>1, <1>2

\* However the tabs overlap and whatever the LLM answers, the deck is one deck and the lot covers
\* the angles (generate_deck, delete_slide, reorder_slides; parse_variations, coerce_spec).
THEOREM DeckAndLotAreWhole == WorkbenchSpec => [](OneDeck /\ LotCoversAngles)
BY RowsAreSound, WorkbenchStarts, WorkbenchStep, PTL DEF WorkbenchSpec

\* When sections are saved one at a time, each also holds what was last saved in it, although decks
\* are generated meanwhile from an earlier state of the row (update_section, generate_deck).
THEOREM TheWorkbenchIsSound ==
  ASSUME "section" \in Serial
  PROVE  WorkbenchSpec => []WorkbenchIsSound
<1>1. WorkbenchInv => WorkbenchIsSound
  BY RowsAreSound DEF WorkbenchInv, SectionInv, WorkbenchIsSound
<1> QED BY <1>1, WorkbenchStarts, WorkbenchStep, PTL DEF WorkbenchSpec

\* The calls and the decks stay within their bounds, and an open call is of one of the two services.
CountsInv ==
    /\ decks \in 0..MaxDecks /\ calls \in 0..MaxTabCalls
    /\ \A r \in Tabs : tab[r] # NoTab => tab[r].op \in PitchOperations \cup LogoOperations

LEMMA CountsStep == WorkbenchInv /\ CountsInv /\ [WorkbenchNext]_workbenchVars => CountsInv'
<1> SUFFICES ASSUME WorkbenchInv, CountsInv, [WorkbenchNext]_workbenchVars PROVE CountsInv'
  OBVIOUS
<1>1. DOMAIN tab = Tabs /\ tab = [r \in Tabs |-> tab[r]]
  BY DEF WorkbenchInv, WorkbenchTypes
<1>2. ASSUME NEW r \in Tabs, CloseTab(r), calls' = calls, decks' \in 0..MaxDecks PROVE CountsInv'
  BY <1>1, <1>2 DEF CloseTab, CountsInv
<1>3. ASSUME NEW r \in Tabs, NEW op \in PitchOperations \cup LogoOperations, NEW row, NEW at, OpenTab(r, op, row, at), decks' = decks
      PROVE  CountsInv'
  BY <1>1, <1>3, WorkbenchAssumption DEF OpenTab, CountsInv
<1>4. CASE \E r \in Tabs : (\E op \in PitchOperations : OpenPitch(r, op)) \/ \E op \in LogoOperations : OpenLogo(r, op)
  BY <1>3, <1>4 DEF OpenPitch, OpenLogo
<1>5. CASE \E r \in Tabs : GenerateDeck(r)
  <2>1. PICK r \in Tabs : CloseTab(r) /\ calls' = calls /\ decks < MaxDecks /\ decks' = decks + 1
    BY <1>5 DEF GenerateDeck
  <2>2. decks' \in 0..MaxDecks
    BY <2>1, WorkbenchAssumption DEF CountsInv
  <2> QED BY <1>2, <2>1, <2>2
<1>6. CASE \E r \in Tabs :
             \/ GiveUpTab(r) \/ UpdateSection(r) \/ UpdateSlide(r) \/ DeleteSlide(r) \/ ReorderSlides(r)
             \/ GenerateLogo(r) \/ SelectVariation(r) \/ UpdateSpec(r)
  <2>1. PICK r \in Tabs : CloseTab(r) /\ calls' = calls /\ decks' = decks
    BY <1>6 DEF GiveUpTab, UpdateSection, UpdateSlide, DeleteSlide, ReorderSlides, GenerateLogo, SelectVariation, UpdateSpec
  <2> QED BY <1>2, <2>1 DEF CountsInv
<1>7. CASE CreatePitch \/ CreateLogo \/ UNCHANGED workbenchVars
  BY <1>7 DEF CreatePitch, CreateLogo, workbenchVars, CountsInv
<1> QED BY <1>4, <1>5, <1>6, <1>7 DEF WorkbenchNext

\* However the tabs overlap: the pages keep their types (no condition on Serial), and a concept that
\* is chosen is one that the studio can draw, whatever the LLM answered (coerce_spec).
THEOREM TheWorkbenchIsTyped == WorkbenchSpec => []WorkbenchTypeOK
<1>1. WorkbenchInv /\ CountsInv => WorkbenchTypeOK
  <2> SUFFICES ASSUME WorkbenchInv, CountsInv PROVE WorkbenchTypeOK
    OBVIOUS
  <2>1. pitch # None => pitch.sections \in [Sections -> Texts \cup {None}] /\ pitch.slides \in Seq(Slide)
    BY DEF WorkbenchInv, WorkbenchTypes, PitchRow, Slideshow
  <2>2. logo # None => logo.spec \in LogoSpec \cup {None}
    BY DEF WorkbenchInv, WorkbenchTypes, LogoRow
  <2> QED BY <2>1, <2>2 DEF CountsInv, WorkbenchTypeOK
<1>2. WorkbenchInit => CountsInv
  BY WorkbenchAssumption DEF WorkbenchInit, CountsInv
<1> QED BY <1>1, <1>2, WorkbenchStarts, WorkbenchStep, CountsStep, PTL DEF WorkbenchSpec

-----------------------------------------------------------------------------
(* Files and links.                                                        *)

ShareRow == [is_active : BOOLEAN, expired : BOOLEAN, view_count : Nat]
VaultRequest ==
    [op : VaultOperations \cup {"none"}, on : Docs \cup Shares \cup {None}, keys : SUBSET Docs, views : Nat]

\* A link that was never opened has no view; a link that is gone does not come back after an erasure.
ShareInv ==
    /\ owner \in BOOLEAN
    /\ share \in [Shares -> ShareRow \cup {None}] /\ served \in [Shares -> Nat]
    /\ EveryViewCounts
    /\ owner => \A l \in Shares : share[l] = None => served[l] = 0

\* What is in the bucket, or can still be sent to it.
Sent == Stored \cup url

\* What a request remembers: a row that was there, and for an erasure every object it could know.
Fits(k) ==
    /\ k.op \in {"confirm", "confirm_checked", "delete", "delete_removed"} => k.on \in Docs /\ doc[k.on] # "none"
    /\ k.op \in {"share", "fiche"} => k.on \in Shares
    /\ owner /\ k.op = "delete_removed" /\ k.on \in Sent => k.on \in excused
    /\ owner /\ k.op = "erase" => \A x \in Docs \cap Sent : x \in k.keys \cup excused

FileInv ==
    /\ owner \in BOOLEAN /\ url \subseteq Docs
    /\ doc \in [Docs -> DocumentStatus \cup {"none", "deleted"}]
    /\ request \in [Requests -> VaultRequest]
    /\ \A r \in Requests : Fits(request[r])
    \* As long as the account is there, an object has its row; afterwards, somebody removes it.
    /\ owner => \A x \in Docs \cap Sent : x \in DocumentRows \cup excused
    /\ ~ owner => \A x \in Docs \cap Stored :
           x \in excused \/ \E r \in Requests : request[r].op = "clean" /\ x \in request[r].keys

-----------------------------------------------------------------------------
LEMMA Dropped ==
    ASSUME NEW k, bucket' \in Removed(k)
    PROVE  Stored' \subseteq Stored
BY DEF Removed, Without, Stored

\* A request moves on: the files do not grow, and a cleaning lets no object go unnoticed.
LEMMA VaultMoved ==
    ASSUME FileInv, NEW r \in Requests, NEW k \in VaultRequest, request' = [request EXCEPT ![r] = k],
           UNCHANGED <<owner, doc, url>>, Stored' \subseteq Stored, excused \subseteq excused',
           Fits(k)',
           request[r].op = "clean" =>
               \A x \in request[r].keys : x \in Stored' => x \in excused' \/ (k.op = "clean" /\ x \in k.keys)
    PROVE  FileInv'
<1>1. \A q \in Requests : request'[q] = IF q = r THEN k ELSE request[q]
  BY DEF FileInv
<1>2. request' \in [Requests -> VaultRequest]
  BY DEF FileInv
<1>3. ASSUME NEW q \in Requests PROVE Fits(request[q])'
  <2>1. CASE q = r
    BY <1>1, <2>1 DEF Fits
  <2>2. CASE q # r
    <3>1. Fits(request[q]) /\ request'[q] = request[q]
      BY <1>1, <2>2 DEF FileInv
    <3> QED BY <3>1 DEF Fits, Sent
  <2> QED BY <2>1, <2>2
<1>4. owner' => \A x \in Docs \cap Sent' : x \in (DocumentRows \cup excused)'
  BY DEF FileInv, Sent, DocumentRows
<1>5. ASSUME ~ owner', NEW x \in Docs \cap Stored'
      PROVE  x \in excused' \/ \E q \in Requests : request'[q].op = "clean" /\ x \in request'[q].keys
  <2>1. x \in excused \/ \E q \in Requests : request[q].op = "clean" /\ x \in request[q].keys
    BY <1>5 DEF FileInv
  <2>2. CASE x \in excused
    BY <2>2
  <2>3. ASSUME NEW q \in Requests, request[q].op = "clean", x \in request[q].keys
        PROVE x \in excused' \/ \E p \in Requests : request'[p].op = "clean" /\ x \in request'[p].keys
    BY <1>1, <2>3
  <2> QED BY <2>1, <2>2, <2>3
<1> QED BY <1>2, <1>3, <1>4, <1>5 DEF FileInv

\* Nothing is left of a request that is answered, unless it was cleaning.
LEMMA AnsweredFiles ==
    ASSUME FileInv, NEW r \in Requests, Answered(r), UNCHANGED <<owner, doc, url>>,
           Stored' \subseteq Stored, excused \subseteq excused',
           request[r].op = "clean" => request[r].keys \subseteq excused'
    PROVE  FileInv'
<1>1. NoRequest \in VaultRequest /\ Fits(NoRequest)' /\ NoRequest.op = "none"
  BY DEF NoRequest, Asked, VaultRequest, VaultOperations, Fits
<1>2. request' = [request EXCEPT ![r] = NoRequest]
  BY DEF Answered
<1> QED BY <1>1, <1>2, VaultMoved

\* What a request becomes, as a constant that the lemmas above can take.
LEMMA GoesTo ==
    ASSUME FileInv, NEW r \in Requests, NEW op \in VaultOperations, Goes(r, op)
    PROVE  \E k \in VaultRequest : /\ k.op = op /\ k.on = request[r].on /\ k.keys = request[r].keys
                                   /\ request' = [request EXCEPT ![r] = k]
<1>1. request[r] \in VaultRequest
  BY DEF FileInv
<1> DEFINE k == [request[r] EXCEPT !.op = op]
<1>2. k \in VaultRequest /\ k.op = op /\ k.on = request[r].on /\ k.keys = request[r].keys
  BY <1>1 DEF VaultRequest
<1>3. request' = [request EXCEPT ![r] = k]
  BY <1>1 DEF Goes
<1> HIDE DEF k
<1> QED BY <1>2, <1>3

LEMMA AsksFor ==
    ASSUME NEW r \in Requests, NEW op \in VaultOperations, NEW on \in Docs \cup Shares, Asks(r, op, on)
    PROVE  /\ request[r] = NoRequest /\ owner
           /\ \E k \in VaultRequest : k.op = op /\ k.on = on /\ request' = [request EXCEPT ![r] = k]
<1>1. Asked(op, on, {}, 0) \in VaultRequest /\ Asked(op, on, {}, 0).op = op /\ Asked(op, on, {}, 0).on = on
  BY DEF VaultRequest, Asked
<1> QED BY <1>1 DEF Asks

\* A new request, which is no cleaning.
LEMMA AsksFiles ==
    ASSUME FileInv, NEW r \in Requests, NEW k \in VaultRequest, request[r] = NoRequest,
           request' = [request EXCEPT ![r] = k], UNCHANGED <<owner, doc, url, bucket, excused>>, Fits(k)
    PROVE  FileInv'
<1>1. Fits(k)'
  BY DEF Fits, Sent, Stored
<1>2. request[r].op # "clean" /\ Stored' \subseteq Stored /\ excused \subseteq excused'
  BY DEF NoRequest, Asked, Stored
<1> QED BY <1>1, <1>2, VaultMoved

-----------------------------------------------------------------------------
(* Documents.                                                              *)

LEMMA UploadStep ==
    ASSUME FileInv, NEW d \in Docs,
           RequestUploadUrl(d) \/ UrlExpires(d) \/ \E fits \in BOOLEAN : Put(d, fits)
    PROVE  FileInv'
<1>1. CASE RequestUploadUrl(d)
  <2>1. /\ owner /\ owner' = owner /\ doc[d] = "none" /\ doc' = [doc EXCEPT ![d] = "pending"]
        /\ url' = url \cup {d} /\ Stored' = Stored /\ request' = request
        /\ excused \subseteq excused' /\ ((\E r \in Requests : request[r].op = "erase") => d \in excused')
    BY <1>1 DEF RequestUploadUrl, Stored
  <2>2. DocumentRows' = DocumentRows \cup {d}
    BY <2>1 DEF FileInv, DocumentRows, DocumentStatus
  <2>3. ASSUME NEW r \in Requests PROVE Fits(request[r])'
    <3>1. Fits(request[r])
      BY DEF FileInv
    <3>2. request[r].op = "delete_removed" => request[r].on # d
      BY <2>1, <3>1 DEF Fits
    <3>3. \A x \in Docs : doc[x] # "none" => doc'[x] # "none"
      BY <2>1 DEF FileInv
    <3> QED BY <2>1, <3>1, <3>2, <3>3 DEF Fits, Sent
  <2>4. doc' \in [Docs -> DocumentStatus \cup {"none", "deleted"}]
    BY <2>1 DEF FileInv, DocumentStatus
  <2> QED BY <2>1, <2>2, <2>3, <2>4 DEF FileInv, Sent
<1>2. CASE UrlExpires(d)
  BY <1>2 DEF UrlExpires, vaultRows, FileInv, Fits, Sent, Stored, DocumentRows
<1>3. ASSUME NEW fits \in BOOLEAN, Put(d, fits) PROVE FileInv'
  <2>1. /\ UNCHANGED <<owner, doc, url, request>> /\ d \in url /\ Stored' = Stored \cup {d}
        /\ excused \subseteq excused' /\ (~ owner => d \in excused')
    BY <1>3 DEF Put, With, Stored, vaultRows
  <2>2. Sent' = Sent
    BY <2>1 DEF Sent
  <2> QED BY <2>1, <2>2 DEF FileInv, Fits, DocumentRows
<1> QED BY <1>1, <1>2, <1>3

LEMMA OpenDocumentStep ==
    ASSUME FileInv, NEW r \in Requests, NEW d \in Docs, NEW op \in VaultOperations, OpenDocument(r, d, op)
    PROVE  FileInv'
<1>1. op \in {"confirm", "delete"} /\ doc[d] # "none" /\ Asks(r, op, d) /\ UNCHANGED <<owner, doc, url, bucket, excused>>
  BY DEF OpenDocument, DocumentRows, DocumentStatus, vaultRows
<1>2. PICK k \in VaultRequest : k.op = op /\ k.on = d /\ request' = [request EXCEPT ![r] = k]
  BY <1>1, AsksFor
<1>3. request[r] = NoRequest
  BY <1>1, AsksFor
<1>4. Fits(k)
  BY <1>1, <1>2 DEF Fits
<1> QED BY <1>1, <1>2, <1>3, <1>4, AsksFiles

LEMMA CheckStep ==
    ASSUME FileInv, NEW r \in Requests, CheckObject(r)
    PROVE  FileInv'
<1>1. UNCHANGED <<owner, doc, url, excused>> /\ request[r].op = "confirm" /\ Fits(request[r])
  BY DEF CheckObject, vaultRows, FileInv
<1>2. CASE Goes(r, "confirm_checked") /\ UNCHANGED bucket
  <2>1. PICK k \in VaultRequest : k.op = "confirm_checked" /\ k.on = request[r].on /\ request' = [request EXCEPT ![r] = k]
    BY <1>2, GoesTo DEF VaultOperations
  <2>2. Fits(k)'
    BY <1>1, <2>1 DEF Fits
  <2>3. Stored' \subseteq Stored /\ excused \subseteq excused'
    BY <1>1, <1>2 DEF Stored
  <2> QED BY <1>1, <2>1, <2>2, <2>3, VaultMoved
<1>3. CASE Answered(r) /\ Stored' \subseteq Stored
  BY <1>1, <1>3, AnsweredFiles
<1> QED BY <1>2, <1>3, Dropped DEF CheckObject, Stored

LEMMA ConfirmStep ==
    ASSUME FileInv, NEW r \in Requests, ConfirmUpload(r)
    PROVE  FileInv'
<1> DEFINE d == request[r].on
<1>1. /\ doc' = [doc EXCEPT ![d] = IF d \in DocumentRows THEN "confirmed" ELSE @]
      /\ UNCHANGED <<owner, url, excused>> /\ Stored' = Stored /\ request' = [request EXCEPT ![r] = NoRequest]
      /\ request[r].op = "confirm_checked"
  BY DEF ConfirmUpload, Answered, Stored
<1>2. d \in Docs
  BY <1>1 DEF FileInv, Fits
<1> HIDE DEF d
<1>3. /\ doc' \in [Docs -> DocumentStatus \cup {"none", "deleted"}] /\ DocumentRows' = DocumentRows
      /\ \A x \in Docs : doc[x] # "none" => doc'[x] # "none"
  BY <1>1, <1>2 DEF FileInv, DocumentStatus, DocumentRows
<1>4. NoRequest \in VaultRequest /\ Fits(NoRequest)' /\ NoRequest.op = "none"
  BY DEF NoRequest, Asked, VaultRequest, VaultOperations, Fits
<1> QED BY <1>1, <1>3, <1>4 DEF FileInv, Fits, Sent

LEMMA RemoveStep ==
    ASSUME FileInv, NEW r \in Requests, RemoveObject(r)
    PROVE  FileInv'
<1>1. /\ UNCHANGED <<owner, doc, url>> /\ request[r].op = "delete" /\ Goes(r, "delete_removed")
      /\ excused \subseteq excused' /\ (request[r].on \in Stored' \cup url => request[r].on \in excused')
  BY DEF RemoveObject, vaultRows, Stored
<1>2. Stored' \subseteq Stored
  BY Dropped DEF RemoveObject
<1>3. PICK k \in VaultRequest : k.op = "delete_removed" /\ k.on = request[r].on /\ request' = [request EXCEPT ![r] = k]
  BY <1>1, GoesTo DEF VaultOperations
<1>4. Fits(request[r])
  BY DEF FileInv
<1>5. Fits(k)'
  BY <1>1, <1>3, <1>4 DEF Fits, Sent
<1> QED BY <1>1, <1>2, <1>3, <1>5, VaultMoved

LEMMA DeleteStep ==
    ASSUME FileInv, NEW r \in Requests, DeleteDocument(r)
    PROVE  FileInv'
<1> DEFINE d == request[r].on
<1>1. /\ doc' = [doc EXCEPT ![d] = IF d \in DocumentRows THEN "deleted" ELSE @]
      /\ UNCHANGED <<owner, url, excused>> /\ Stored' = Stored /\ request' = [request EXCEPT ![r] = NoRequest]
      /\ request[r].op = "delete_removed"
  BY DEF DeleteDocument, Answered, Stored
<1>2. d \in Docs /\ (owner /\ d \in Sent => d \in excused)
  BY <1>1 DEF FileInv, Fits
<1> HIDE DEF d
<1>3. /\ doc' \in [Docs -> DocumentStatus \cup {"none", "deleted"}] /\ DocumentRows' = DocumentRows \ {d}
      /\ \A x \in Docs : doc[x] # "none" => doc'[x] # "none"
  BY <1>1, <1>2 DEF FileInv, DocumentStatus, DocumentRows
<1>4. NoRequest \in VaultRequest /\ Fits(NoRequest)' /\ NoRequest.op = "none"
  BY DEF NoRequest, Asked, VaultRequest, VaultOperations, Fits
<1>5. Sent' = Sent
  BY <1>1 DEF Sent
<1>6. ASSUME NEW q \in Requests PROVE Fits(request[q])'
  <2>1. request'[q] = IF q = r THEN NoRequest ELSE request[q]
    BY <1>1 DEF FileInv
  <2>2. Fits(request[q])
    BY DEF FileInv
  <2>3. CASE q = r
    BY <2>1, <2>3 DEF Fits, NoRequest, Asked
  <2>4. CASE q # r
    BY <1>1, <1>3, <1>5, <2>1, <2>2, <2>4 DEF Fits
  <2> QED BY <2>3, <2>4
<1> QED BY <1>1, <1>2, <1>3, <1>4, <1>5, <1>6 DEF FileInv

-----------------------------------------------------------------------------
(* Links and erasures.                                                     *)

\* The steps on the rows of the project leave the files alone.
LEMMA ProjectStep ==
    ASSUME FileInv,
           PutPdf \/ MarkReady \/ Revoke \/ (\E public \in BOOLEAN : SetVisibility(public)) \/ \E l \in Shares : ShareExpires(l)
    PROVE  FileInv'
<1>1. /\ UNCHANGED <<owner, doc, url, request, excused>>
      /\ Docs \cap Stored' = Docs \cap Stored
  BY VaultAssumption DEF PutPdf, MarkReady, Revoke, SetVisibility, ShareExpires, With, Stored, VaultAssumption
<1>2. Docs \cap Sent' = Docs \cap Sent
  BY <1>1 DEF Sent
<1> QED BY <1>1, <1>2 DEF FileInv, Fits, DocumentRows

LEMMA LinkStep ==
    ASSUME FileInv, ShareInv, NEW r \in Requests,
           CreateShare(r) \/ GetFiche(r) \/ \E l \in Shares : OpenShare(r, l) \/ OpenFiche(r, l)
    PROVE  FileInv'
<1>1. CASE CreateShare(r) \/ GetFiche(r)
  BY <1>1, AnsweredFiles DEF CreateShare, GetFiche, Stored
<1>2. ASSUME NEW l \in Shares, OpenShare(r, l) PROVE FileInv'
  <2>1. Asks(r, "share", l) /\ UNCHANGED <<owner, doc, url, bucket, excused>>
    BY <1>2 DEF OpenShare, vaultRows
  <2>2. PICK k \in VaultRequest : k.op = "share" /\ k.on = l /\ request' = [request EXCEPT ![r] = k]
    BY <2>1, AsksFor DEF VaultOperations
  <2>3. request[r] = NoRequest
    BY <2>1, AsksFor DEF VaultOperations
  <2>4. Fits(k)
    BY <2>2 DEF Fits
  <2> QED BY <2>1, <2>2, <2>3, <2>4, AsksFiles
<1>3. ASSUME NEW l \in Shares, OpenFiche(r, l) PROVE FileInv'
  <2>1. share[l].view_count \in Nat
    BY <1>3, VaultAssumption DEF OpenFiche, Shown, ShareInv, ShareRow
  <2>2. Asked("fiche", l, {}, share[l].view_count) \in VaultRequest
    BY <2>1 DEF VaultRequest, VaultOperations, Asked
  <2>3. PICK k \in VaultRequest : k = Asked("fiche", l, {}, share[l].view_count)
    BY <2>2
  <2>4. request[r] = NoRequest /\ request' = [request EXCEPT ![r] = k] /\ UNCHANGED <<owner, doc, url, bucket, excused>>
    BY <1>3, <2>3 DEF OpenFiche, vaultRows
  <2>5. Fits(k)
    BY <2>3 DEF Fits, Asked
  <2> QED BY <2>4, <2>5, AsksFiles
<1> QED BY <1>1, <1>2, <1>3

LEMMA DeleteMeStep ==
    ASSUME FileInv, NEW r \in Requests, DeleteMe(r)
    PROVE  FileInv'
<1> DEFINE asked == Asked("erase", None, ObjectKeys, 0)
<1>1. asked \in VaultRequest /\ asked.op = "erase" /\ asked.keys = DocumentRows
  BY DEF VaultRequest, VaultOperations, DocumentRows, Asked, ObjectKeys
<1>2. /\ request[r] = NoRequest /\ owner /\ request' = [request EXCEPT ![r] = asked]
      /\ UNCHANGED <<owner, doc, url, bucket, excused>>
  BY DEF DeleteMe, vaultRows
<1> HIDE DEF asked
<1>3. PICK k \in VaultRequest : k = asked
  BY <1>1
<1>4. Fits(k)
  BY <1>1, <1>2, <1>3 DEF FileInv, Fits
<1> QED BY <1>2, <1>3, <1>4, AsksFiles

LEMMA EraseStep ==
    ASSUME FileInv, NEW r \in Requests, EraseAccount(r)
    PROVE  FileInv'
<1>1. CASE owner
  <2>1. request[r].op = "erase" /\ Fits(request[r]) /\ Goes(r, "clean")
    BY <1>1 DEF FileInv, EraseAccount
  <2>2. PICK k \in VaultRequest : /\ k.op = "clean" /\ k.keys = request[r].keys
                                 /\ request' = [request EXCEPT ![r] = k]
    BY <2>1, GoesTo DEF VaultOperations
  <2>3. /\ owner' = FALSE /\ doc' = [d \in Docs |-> IF d \in DocumentRows THEN "deleted" ELSE doc[d]]
        /\ UNCHANGED <<url, excused>> /\ Stored' = Stored
    BY <1>1 DEF EraseAccount, Stored
  <2>4. \A q \in Requests : request'[q] = IF q = r THEN k ELSE request[q]
    BY <2>2 DEF FileInv
  <2>5. request' \in [Requests -> VaultRequest]
    BY <2>2 DEF FileInv
  <2>6. doc' \in [Docs -> DocumentStatus \cup {"none", "deleted"}] /\ \A x \in Docs : doc[x] # "none" => doc'[x] # "none"
    BY <2>3 DEF FileInv, DocumentStatus
  <2>7. ASSUME NEW q \in Requests PROVE Fits(request[q])'
    <3>1. Fits(request[q])
      BY DEF FileInv
    <3>2. CASE q = r
      BY <2>2, <2>3, <2>4, <3>2 DEF Fits
    <3>3. CASE q # r
      BY <2>3, <2>4, <2>6, <3>1, <3>3 DEF Fits
    <3> QED BY <3>2, <3>3
  <2>8. \A x \in Docs \cap Stored : x \in excused \/ x \in k.keys
    BY <1>1, <2>1, <2>2 DEF Fits, Sent
  <2> QED BY <2>2, <2>3, <2>4, <2>5, <2>6, <2>7, <2>8 DEF FileInv
<1>2. CASE ~ owner
  BY <1>2, AnsweredFiles DEF EraseAccount, Stored
<1> QED BY <1>1, <1>2

LEMMA CleanStep ==
    ASSUME FileInv, NEW r \in Requests,
           FinishCleaning(r) \/ CrashRequest(r) \/ \E d \in Docs : CleanObject(r, d)
    PROVE  FileInv'
<1>1. ASSUME NEW d \in Docs, CleanObject(r, d) PROVE FileInv'
  <2> DEFINE left == [request[r] EXCEPT !.keys = request[r].keys \ {d}]
  <2>1. request[r] \in VaultRequest /\ request[r].op = "clean"
    BY <1>1 DEF FileInv, CleanObject
  <2>2. left \in VaultRequest /\ left.op = "clean" /\ left.keys = request[r].keys \ {d}
    BY <2>1 DEF VaultRequest
  <2>3. /\ UNCHANGED <<owner, doc, url>> /\ request' = [request EXCEPT ![r] = left]
        /\ excused \subseteq excused' /\ (d \in Stored' => d \in excused')
    BY <1>1 DEF CleanObject, vaultRows, Stored
  <2>4. Stored' \subseteq Stored
    BY <1>1, Dropped DEF CleanObject
  <2> HIDE DEF left
  <2>5. PICK k \in VaultRequest : k = left
    BY <2>2
  <2>6. Fits(k)'
    BY <2>2, <2>5 DEF Fits
  <2> QED BY <2>2, <2>3, <2>4, <2>5, <2>6, VaultMoved
<1>2. CASE FinishCleaning(r) \/ CrashRequest(r)
  <2>1. /\ UNCHANGED <<owner, doc, url, bucket>> /\ Answered(r) /\ excused \subseteq excused'
        /\ request[r].op = "clean" => request[r].keys \subseteq excused'
    BY <1>2 DEF FinishCleaning, CrashRequest, vaultRows
  <2> QED BY <2>1, AnsweredFiles DEF Stored
<1> QED BY <1>1, <1>2

-----------------------------------------------------------------------------
(* The links.                                                              *)

LEMMA ShareStep ==
    ASSUME ShareInv, FileInv, VaultNext
    PROVE  ShareInv'
<1> USE VaultAssumption DEF VaultAssumption
<1>1. ASSUME NEW r \in Requests, CreateShare(r) PROVE ShareInv'
  <2> DEFINE l == request[r].on
             new == NewShare
  <2>1. l \in Shares /\ UNCHANGED <<owner, served>> /\ new \in ShareRow
    BY <1>1 DEF CreateShare, FileInv, Fits, ShareRow, NewShare
  <2>2. new.view_count = 0
    BY DEF NewShare
  <2> HIDE DEF new
  <2>3. share' = [share EXCEPT ![l] = IF owner /\ share[l] = None THEN new ELSE share[l]]
    BY <1>1 DEF CreateShare, new
  <2> HIDE DEF l
  <2>4. share' \in [Shares -> ShareRow \cup {None}]
    BY <2>1, <2>3 DEF ShareInv
  <2>5. \A x \in Shares : share'[x] = share[x] \/ (x = l /\ owner /\ share[l] = None /\ share'[x] = new)
    BY <2>1, <2>3 DEF ShareInv
  <2>6. \A x \in Shares : share'[x] # None => share'[x].view_count = served[x]
    BY <2>1, <2>2, <2>5 DEF ShareInv, EveryViewCounts
  <2>7. owner => \A x \in Shares : share'[x] = None => served[x] = 0
    BY <2>5, <2>1 DEF ShareInv
  <2> QED BY <2>1, <2>4, <2>6, <2>7 DEF ShareInv, EveryViewCounts
<1>2. CASE Revoke \/ \E l \in Shares : ShareExpires(l)
  <2>1. UNCHANGED <<owner, served>>
    BY <1>2 DEF Revoke, ShareExpires
  <2>2. ASSUME NEW l \in Shares
        PROVE  \/ share'[l] = share[l]
               \/ share[l] # None /\ share'[l] \in ShareRow /\ share'[l].view_count = share[l].view_count
    <3>1. share[l] # None =>
          /\ [share[l] EXCEPT !.is_active = FALSE] \in ShareRow /\ [share[l] EXCEPT !.expired = TRUE] \in ShareRow
          /\ [share[l] EXCEPT !.is_active = FALSE].view_count = share[l].view_count
          /\ [share[l] EXCEPT !.expired = TRUE].view_count = share[l].view_count
      BY DEF ShareInv, ShareRow
    <3>2. \/ share'[l] = share[l]
          \/ /\ share[l] # None
             /\ share'[l] \in {[share[l] EXCEPT !.is_active = FALSE], [share[l] EXCEPT !.expired = TRUE]}
      BY <1>2 DEF Revoke, ShareExpires, ShareInv
    <3> QED BY <3>1, <3>2
  <2>3. share' \in [Shares -> ShareRow \cup {None}]
    BY <1>2, <2>2 DEF Revoke, ShareExpires, ShareInv
  <2> QED BY <2>1, <2>2, <2>3 DEF ShareInv, EveryViewCounts, ShareRow
<1>3. ASSUME NEW r \in Requests, GetFiche(r) PROVE ShareInv'
  <2> DEFINE l == request[r].on
  <2>1. l \in Shares /\ owner' = owner
    BY <1>3 DEF GetFiche, FileInv, Fits
  <2>2. CASE UNCHANGED <<share, served>>
    BY <2>1, <2>2 DEF ShareInv, EveryViewCounts
  <2>3. CASE /\ share[l] # None /\ share' = [share EXCEPT ![l].view_count = Viewed(l, request[r].views)]
             /\ served' = [served EXCEPT ![l] = @ + 1]
    <3> HIDE DEF l
    <3>1. share[l] \in ShareRow
      BY <2>1, <2>3 DEF ShareInv
    <3> DEFINE new == [share[l] EXCEPT !.view_count = share[l].view_count + 1]
    <3>2. new \in ShareRow /\ new.view_count = share[l].view_count + 1
      BY <3>1 DEF ShareRow
    <3>3. share' = [share EXCEPT ![l] = new]
      BY <2>3 DEF Viewed
    <3> HIDE DEF new
    <3>4. share' \in [Shares -> ShareRow \cup {None}] /\ served' \in [Shares -> Nat]
      BY <2>1, <2>3, <3>2, <3>3 DEF ShareInv
    <3>5. \A x \in Shares : x # l => share'[x] = share[x] /\ served'[x] = served[x]
      BY <2>3, <3>3 DEF ShareInv
    <3>6. share'[l] = new /\ new # None /\ served'[l] = served[l] + 1
      BY <2>1, <2>3, <3>2, <3>3 DEF ShareInv, ShareRow
    <3> QED BY <2>1, <2>3, <3>2, <3>4, <3>5, <3>6 DEF ShareInv, EveryViewCounts
  <2> QED BY <1>3, <2>2, <2>3 DEF GetFiche
<1>4. ASSUME NEW r \in Requests, EraseAccount(r) PROVE ShareInv'
  BY <1>4 DEF EraseAccount, ShareInv, EveryViewCounts
<1>5. UNCHANGED <<owner, share, served>> => ShareInv'
  BY DEF ShareInv, EveryViewCounts
<1>6. ASSUME NEW r \in Requests,
             \/ \E d \in Docs : CleanObject(r, d) \/ \E op \in VaultOperations : OpenDocument(r, d, op)
             \/ \E l \in Shares : OpenShare(r, l) \/ OpenFiche(r, l)
             \/ CheckObject(r) \/ ConfirmUpload(r) \/ RemoveObject(r) \/ DeleteDocument(r)
             \/ DeleteMe(r) \/ FinishCleaning(r) \/ CrashRequest(r)
      PROVE  ShareInv'
  BY <1>5, <1>6 DEF CleanObject, OpenDocument, OpenShare, OpenFiche, CheckObject, ConfirmUpload, RemoveObject,
                    DeleteDocument, DeleteMe, FinishCleaning, CrashRequest, vaultRows
<1>7. CASE \/ \E d \in Docs : RequestUploadUrl(d) \/ UrlExpires(d) \/ \E fits \in BOOLEAN : Put(d, fits)
           \/ PutPdf \/ MarkReady \/ \E public \in BOOLEAN : SetVisibility(public)
  BY <1>5, <1>7 DEF RequestUploadUrl, UrlExpires, Put, PutPdf, MarkReady, SetVisibility, vaultRows
<1> QED BY <1>1, <1>2, <1>3, <1>4, <1>6, <1>7 DEF VaultNext

-----------------------------------------------------------------------------
LEMMA VaultStarts == VaultInit => ShareInv /\ FileInv
<1> SUFFICES ASSUME VaultInit PROVE ShareInv /\ FileInv
  OBVIOUS
<1>1. Stored = {}
  BY DEF VaultInit, Stored
<1>2. ShareInv
  BY DEF VaultInit, ShareInv, EveryViewCounts
<1>3. NoRequest \in VaultRequest /\ Fits(NoRequest)
  BY DEF NoRequest, Asked, VaultRequest, VaultOperations, Fits
<1>4. FileInv
  BY <1>1, <1>3 DEF VaultInit, FileInv, Sent, DocumentStatus
<1> QED BY <1>2, <1>4

LEMMA VaultStep ==
    ASSUME ShareInv, FileInv, [VaultNext]_vaultVars
    PROVE  ShareInv' /\ FileInv'
<1>1. CASE VaultNext
  BY <1>1, ShareStep, UploadStep, OpenDocumentStep, CheckStep, ConfirmStep, RemoveStep, DeleteStep, ProjectStep, LinkStep,
     DeleteMeStep, EraseStep, CleanStep DEF VaultNext
<1>2. CASE UNCHANGED vaultVars
  BY <1>2 DEF vaultVars, vaultRows, ShareInv, EveryViewCounts, FileInv, Fits, Sent, Stored, DocumentRows
<1> QED BY <1>1, <1>2

\* Whatever uploads, deletions, visits and erasures overlap, crash or meet a storage that fails, for
\* any number of each: no view of a link is lost (increment_view), and no document that an erasure
\* could know stays in the bucket unless the storage kept it (delete_me).
THEOREM VaultHolds == VaultSpec => []VaultIsSound
<1>1. ShareInv /\ FileInv => VaultIsSound
  BY DEF ShareInv, FileInv, VaultIsSound, ErasureReachesDocuments, Erasing
<1>2. ShareInv /\ FileInv /\ [VaultNext]_vaultVars => (ShareInv /\ FileInv)'
  BY VaultStep
<1> QED BY <1>1, <1>2, VaultStarts, PTL DEF VaultSpec

\* The visits of a link that are not answered yet leave room for their views; a link that is not there
\* is not visited, as long as it can still be created.
Visitors(l) == {q \in Requests : request[q].op = "fiche" /\ request[q].on = l}
HasRoom(l) == share[l] # None => share[l].view_count + Cardinality(Visitors(l)) <= MaxViews
RoomInv == \A l \in Shares : HasRoom(l) /\ (owner /\ share[l] = None => Visitors(l) = {})

VisitorsOf(on, req) == {q \in Requests : req[q].op = "fiche" /\ req[q].on = on}

LEMMA VisitorsFinite == ASSUME NEW l PROVE IsFiniteSet(Visitors(l)) /\ Cardinality(Visitors(l)) \in Nat
<1>1. Visitors(l) \in SUBSET Requests
  BY DEF Visitors
<1> QED BY <1>1, VaultAssumption, FS_Subset, FS_CardinalityType

\* Nobody comes: the links are as before, or are gone.
LEMMA NobodyComes ==
    ASSUME ShareInv, RoomInv, NEW now, request' = now, \A q \in Requests : now[q].op = "fiche" => now[q] = request[q],
           owner' => owner,
           \A l \in Shares : \/ share'[l] = None /\ (owner' => share[l] = None)
                             \/ share[l] # None /\ share'[l] # None /\ share'[l].view_count = share[l].view_count
    PROVE  RoomInv'
<1> SUFFICES ASSUME NEW l \in Shares PROVE HasRoom(l)' /\ (owner' /\ share'[l] = None => Visitors(l)' = {})
  BY DEF RoomInv
<1> DEFINE before == Visitors(l)
           after == VisitorsOf(l, now)
<1>1. after \subseteq before /\ Visitors(l)' = after
  BY DEF Visitors, VisitorsOf
<1>2. IsFiniteSet(before)
  BY VisitorsFinite
<1>3. HasRoom(l) /\ (owner /\ share[l] = None => before = {})
  BY DEF RoomInv
<1> HIDE DEF before, after
<1>4. Cardinality(after) <= Cardinality(before) /\ Cardinality(before) \in Nat /\ Cardinality(after) \in Nat
  BY <1>1, <1>2, FS_Subset, FS_CardinalityType
<1>5. share[l] # None => share[l].view_count \in Nat
  BY DEF ShareInv, ShareRow
<1>6. MaxViews \in Nat
  BY VaultAssumption
<1>7. owner' /\ share'[l] = None => after = {}
  BY <1>1, <1>3
<1>8. ASSUME share'[l] # None PROVE share'[l].view_count + Cardinality(after) <= MaxViews
  <2>1. share[l] # None /\ share'[l].view_count = share[l].view_count
    BY <1>8
  <2>2. share[l].view_count + Cardinality(before) <= MaxViews
    BY <1>3, <2>1 DEF HasRoom, before
  <2> QED BY <1>4, <1>5, <1>6, <2>1, <2>2
<1> QED BY <1>1, <1>7, <1>8 DEF HasRoom

\* A visit comes for a link that has room left for all the visits of the moment.
LEMMA SomebodyComes ==
    ASSUME ShareInv, FileInv, RoomInv, NEW r \in Requests, NEW l \in Shares, OpenFiche(r, l)
    PROVE  RoomInv'
<1> DEFINE k == Asked("fiche", l, {}, share[l].view_count)
           fiches == {q \in Requests : request[q].op = "fiche"}
           count == share[l].view_count
<1>1. /\ share[l] # None /\ count + Cardinality(fiches) < MaxViews /\ request[r].op # "fiche"
      /\ request' = [request EXCEPT ![r] = k] /\ k.op = "fiche" /\ k.on = l /\ UNCHANGED <<share, owner>>
  BY DEF OpenFiche, Shown, Asked, NoRequest, vaultRows
<1>2. \A q \in Requests : request'[q] = IF q = r THEN k ELSE request[q]
  BY <1>1 DEF FileInv
<1> HIDE DEF k
<1> SUFFICES ASSUME NEW x \in Shares PROVE HasRoom(x)' /\ (owner' /\ share'[x] = None => Visitors(x)' = {})
  BY DEF RoomInv
<1>3. CASE x # l
  <2>1. Visitors(x)' = Visitors(x)
    BY <1>1, <1>2, <1>3 DEF Visitors
  <2>2. HasRoom(x) /\ (owner /\ share[x] = None => Visitors(x) = {})
    BY DEF RoomInv
  <2> QED BY <1>1, <2>1, <2>2 DEF HasRoom
<1>4. CASE x = l
  <2> DEFINE before == Visitors(l)
  <2>1. Visitors(l)' = before \cup {r} /\ r \notin before
    BY <1>1, <1>2 DEF Visitors
  <2>2. IsFiniteSet(before) /\ Cardinality(before) \in Nat
    BY VisitorsFinite
  <2>3. before \subseteq fiches /\ fiches \subseteq Requests
    BY DEF Visitors
  <2>4. IsFiniteSet(fiches)
    BY <2>3, VaultAssumption, FS_Subset
  <2> HIDE DEF before, fiches
  <2>5. Cardinality(before) <= Cardinality(fiches) /\ Cardinality(fiches) \in Nat
    BY <2>3, <2>4, FS_Subset, FS_CardinalityType
  <2>6. Cardinality(before \cup {r}) = Cardinality(before) + 1
    BY <2>1, <2>2, FS_AddElement
  <2>7. count \in Nat /\ MaxViews \in Nat
    BY <1>1, VaultAssumption DEF ShareInv, ShareRow
  <2>8. share'[l].view_count = count
    BY <1>1
  <2> HIDE DEF count
  <2>9. count + Cardinality(before \cup {r}) <= MaxViews
    BY <1>1, <2>2, <2>5, <2>6, <2>7
  <2> QED BY <1>1, <1>4, <2>1, <2>8, <2>9 DEF HasRoom
<1> QED BY <1>3, <1>4

\* A visit is answered: its view is counted, or lost with the link or by the storage of the counter.
LEMMA ViewIsCounted ==
    ASSUME ShareInv, FileInv, RoomInv, NEW r \in Requests, GetFiche(r)
    PROVE  RoomInv'
<1> DEFINE l == request[r].on
           now == [request EXCEPT ![r] = NoRequest]
<1>1. /\ l \in Shares /\ owner' = owner /\ request[r].op = "fiche" /\ request' = now
      /\ \A q \in Requests : now[q] = IF q = r THEN NoRequest ELSE request[q]
  BY DEF GetFiche, Answered, FileInv, Fits
<1>2. NoRequest.op # "fiche"
  BY DEF NoRequest, Asked
<1>3. CASE UNCHANGED share
  <2>1. \A q \in Requests : now[q].op = "fiche" => now[q] = request[q]
    BY <1>1, <1>2
  <2> HIDE DEF now, l
  <2>2. \A x \in Shares : \/ share'[x] = None /\ (owner' => share[x] = None)
                          \/ share[x] # None /\ share'[x] # None /\ share'[x].view_count = share[x].view_count
    BY <1>1, <1>3
  <2> QED BY <1>1, <2>1, <2>2, NobodyComes
<1>4. CASE share[l] # None /\ share' = [share EXCEPT ![l].view_count = Viewed(l, request[r].views)]
  <2> DEFINE count == share[l].view_count
  <2>1. /\ \A x \in Shares : x # l => share'[x] = share[x]
        /\ share'[l].view_count = count + 1 /\ count \in Nat
    BY <1>1, <1>4, VaultAssumption DEF ShareInv, ShareRow, Viewed
  <2> HIDE DEF l
  <2> SUFFICES ASSUME NEW x \in Shares PROVE HasRoom(x)' /\ (owner' /\ share'[x] = None => Visitors(x)' = {})
    BY DEF RoomInv
  <2>2. CASE x # l
    <3>1. Visitors(x)' = Visitors(x)
      BY <1>1, <1>2, <2>2 DEF Visitors, l
    <3>2. HasRoom(x) /\ (owner /\ share[x] = None => Visitors(x) = {})
      BY DEF RoomInv
    <3> QED BY <1>1, <2>1, <2>2, <3>1, <3>2 DEF HasRoom
  <2>3. CASE x = l
    <3> DEFINE before == Visitors(x)
    <3>1. Visitors(x)' = before \ {r} /\ r \in before
      BY <1>1, <1>2, <2>3 DEF Visitors, l
    <3>2. IsFiniteSet(before) /\ Cardinality(before) \in Nat
      BY VisitorsFinite
    <3>3. count + Cardinality(before) <= MaxViews
      BY <1>1, <1>4, <2>3 DEF RoomInv, HasRoom
    <3> HIDE DEF before
    <3>4. Cardinality(before \ {r}) = Cardinality(before) - 1
      BY <3>1, <3>2, FS_RemoveElement
    <3>5. MaxViews \in Nat
      BY VaultAssumption
    <3> HIDE DEF count
    <3>6. (count + 1) + Cardinality(before \ {r}) <= MaxViews
      BY <2>1, <3>2, <3>3, <3>4, <3>5
    <3>7. share'[x] # None
      <4>1. share'[l] \in ShareRow
        <5> DEFINE new == [share[l] EXCEPT !.view_count = share[l].view_count + 1]
        <5>1. share[l] \in ShareRow
          BY <1>1, <1>4 DEF ShareInv
        <5>2. new \in ShareRow
          BY <5>1 DEF ShareRow
        <5>3. share' = [share EXCEPT ![l] = new]
          BY <1>4 DEF Viewed
        <5> HIDE DEF new
        <5> QED BY <1>1, <5>2, <5>3 DEF ShareInv
      <4> QED BY <2>3, <4>1, VaultAssumption DEF ShareRow
    <3> QED BY <2>1, <2>3, <3>1, <3>6, <3>7 DEF HasRoom
  <2> QED BY <2>2, <2>3
<1> QED BY <1>3, <1>4 DEF GetFiche

\* A link is created, which nobody visits.
LEMMA LinkIsCreated ==
    ASSUME ShareInv, FileInv, RoomInv, NEW r \in Requests, CreateShare(r)
    PROVE  RoomInv'
<1> DEFINE now == [request EXCEPT ![r] = NoRequest]
           l == request[r].on
<1>1. /\ request' = now /\ owner' = owner /\ l \in Shares
      /\ \A q \in Requests : now[q] = IF q = r THEN NoRequest ELSE request[q]
      /\ \A x \in Shares : share'[x] = share[x] \/ (x = l /\ owner /\ share[x] = None /\ share'[x] = NewShare)
  BY DEF CreateShare, Answered, FileInv, ShareInv, Fits
<1>2. NoRequest.op # "fiche" /\ NewShare.view_count = 0 /\ NewShare # None
  <2>1. NewShare \in [is_active : BOOLEAN, expired : BOOLEAN, view_count : Nat]
    BY DEF NewShare
  <2> QED BY <2>1, VaultAssumption DEF NoRequest, Asked, NewShare
<1>3. CASE \A x \in Shares : share'[x] = share[x]
  <2>1. \A q \in Requests : now[q].op = "fiche" => now[q] = request[q]
    BY <1>1, <1>2
  <2> HIDE DEF now, l
  <2>2. \A x \in Shares : \/ share'[x] = None /\ (owner' => share[x] = None)
                          \/ share[x] # None /\ share'[x] # None /\ share'[x].view_count = share[x].view_count
    BY <1>1, <1>3
  <2> QED BY <1>1, <2>1, <2>2, NobodyComes
<1>4. CASE owner /\ share[l] = None /\ share'[l] = NewShare
  <2>1. Visitors(l) = {}
    BY <1>1, <1>4 DEF RoomInv
  <2>2. \A x \in Shares : Visitors(x)' \subseteq Visitors(x)
    BY <1>1, <1>2 DEF Visitors
  <2> HIDE DEF now, l
  <2>3. ASSUME NEW x \in Shares, x = l PROVE HasRoom(x)' /\ share'[x] # None
    <3>1. Visitors(x)' = {}
      BY <2>1, <2>2, <2>3
    <3>2. share'[x].view_count = 0 /\ share'[x] # None /\ MaxViews \in Nat
      BY <1>2, <1>4, <2>3, VaultAssumption
    <3>3. Cardinality(Visitors(x)') = 0
      BY <3>1, FS_EmptySet
    <3> QED BY <3>2, <3>3 DEF HasRoom
  <2>4. ASSUME NEW x \in Shares, x # l PROVE HasRoom(x)' /\ (owner' /\ share'[x] = None => Visitors(x)' = {})
    <3> DEFINE before == Visitors(x)
               after == VisitorsOf(x, request')
               count == share[x].view_count
    <3>1. after \subseteq before /\ Visitors(x)' = after /\ share'[x] = share[x]
      BY <1>1, <2>2, <2>4 DEF Visitors, VisitorsOf
    <3>2. IsFiniteSet(before) /\ Cardinality(before) \in Nat
      BY VisitorsFinite
    <3>3. share[x] # None => count \in Nat /\ count + Cardinality(before) <= MaxViews
      BY DEF RoomInv, HasRoom, ShareInv, ShareRow
    <3>4. owner /\ share[x] = None => before = {}
      BY DEF RoomInv
    <3>5. share'[x] # None => share'[x].view_count = count
      BY <3>1
    <3> HIDE DEF before, after, count
    <3>6. Cardinality(after) <= Cardinality(before) /\ Cardinality(after) \in Nat
      BY <3>1, <3>2, FS_Subset, FS_CardinalityType
    <3>7. MaxViews \in Nat
      BY VaultAssumption
    <3>8. share'[x] # None => count + Cardinality(after) <= MaxViews
      BY <3>1, <3>2, <3>3, <3>6, <3>7
    <3>9. owner' /\ share'[x] = None => Visitors(x)' = {}
      BY <1>1, <3>1, <3>4
    <3>10. HasRoom(x)'
      BY <3>1, <3>5, <3>8 DEF HasRoom
    <3> QED BY <3>9, <3>10
  <2> QED BY <2>3, <2>4 DEF RoomInv
<1> QED BY <1>1, <1>3, <1>4

LEMMA RoomStep ==
    ASSUME ShareInv, FileInv, RoomInv, [VaultNext]_vaultVars
    PROVE  RoomInv'
<1>1. CASE UNCHANGED vaultVars
  BY <1>1 DEF vaultVars, vaultRows, RoomInv, HasRoom, Visitors
<1>2. ASSUME NEW r \in Requests, CreateShare(r) \/ GetFiche(r) \/ \E l \in Shares : OpenFiche(r, l) PROVE RoomInv'
  BY <1>2, LinkIsCreated, ViewIsCounted, SomebodyComes
<1>3. CASE /\ request' = request /\ owner' = owner
           /\ \A l \in Shares : \/ share'[l] = None /\ (owner' => share[l] = None)
                                \/ share[l] # None /\ share'[l] # None /\ share'[l].view_count = share[l].view_count
  <2>1. PICK now : now = request
    OBVIOUS
  <2> QED BY <1>3, <2>1, NobodyComes
<1>4. CASE Revoke \/ \E l \in Shares : ShareExpires(l)
  <2>1. request' = request /\ owner' = owner
    BY <1>4 DEF Revoke, ShareExpires
  <2>2. ASSUME NEW x \in Shares
        PROVE  \/ share'[x] = None /\ (owner' => share[x] = None)
               \/ share[x] # None /\ share'[x] # None /\ share'[x].view_count = share[x].view_count
    <3> DEFINE now == share[x]
    <3>1. /\ now \in ShareRow \cup {None}
          /\ now # None => /\ [now EXCEPT !.is_active = FALSE] \in ShareRow /\ [now EXCEPT !.expired = TRUE] \in ShareRow
                           /\ [now EXCEPT !.is_active = FALSE].view_count = now.view_count
                           /\ [now EXCEPT !.expired = TRUE].view_count = now.view_count
      BY DEF ShareInv, ShareRow
    <3>2. \/ share'[x] = now
          \/ now # None /\ share'[x] \in {[now EXCEPT !.is_active = FALSE], [now EXCEPT !.expired = TRUE]}
      BY <1>4 DEF Revoke, ShareExpires, ShareInv
    <3> HIDE DEF now
    <3>3. None \notin ShareRow
      BY VaultAssumption DEF ShareRow
    <3>4. \/ share'[x] = None /\ now = None
          \/ now # None /\ share'[x] # None /\ share'[x].view_count = now.view_count
      BY <3>1, <3>2, <3>3
    <3> QED BY <3>4 DEF now
  <2> QED BY <1>3, <2>1, <2>2
<1>5. ASSUME NEW r \in Requests,
             \/ \E d \in Docs : CleanObject(r, d) \/ \E op \in VaultOperations : OpenDocument(r, d, op)
             \/ \E l \in Shares : OpenShare(r, l)
             \/ CheckObject(r) \/ ConfirmUpload(r) \/ RemoveObject(r) \/ DeleteDocument(r)
             \/ DeleteMe(r) \/ FinishCleaning(r) \/ CrashRequest(r) \/ EraseAccount(r)
      PROVE  RoomInv'
  <2>1. PICK now : now = request'
    OBVIOUS
  <2> DEFINE SameVisits == \A q \in Requests : now[q].op = "fiche" => now[q] = request[q]
  <2>2. SameVisits
    <3>1. CASE request' = request
      BY <2>1, <3>1
    <3>2. ASSUME NEW k, request' = [request EXCEPT ![r] = k], k.op # "fiche" PROVE SameVisits
      BY <2>1, <3>2 DEF FileInv
    <3> HIDE DEF SameVisits
    <3>3. CASE Answered(r)
      <4>1. NoRequest.op # "fiche"
        BY DEF NoRequest, Asked
      <4> QED BY <3>2, <3>3, <4>1 DEF Answered
    <3>4. ASSUME NEW op \in VaultOperations \ {"fiche"}, Goes(r, op) PROVE SameVisits
      <4>1. PICK k \in VaultRequest : k.op = op /\ request' = [request EXCEPT ![r] = k]
        BY <3>4, GoesTo
      <4> QED BY <3>2, <3>4, <4>1
    <3>5. ASSUME NEW op \in VaultOperations \ {"fiche"}, NEW on, Asks(r, op, on) PROVE SameVisits
      <4>1. Asked(op, on, {}, 0).op # "fiche"
        BY DEF Asked
      <4> QED BY <3>2, <3>5, <4>1 DEF Asks
    <3>6. CASE DeleteMe(r)
      <4>1. Asked("erase", None, ObjectKeys, 0).op # "fiche"
        BY DEF Asked
      <4> QED BY <3>2, <3>6, <4>1 DEF DeleteMe
    <3>7. ASSUME NEW d \in Docs, CleanObject(r, d) PROVE SameVisits
      <4> DEFINE k == [request[r] EXCEPT !.keys = request[r].keys \ {d}]
      <4>1. request[r] \in VaultRequest /\ request[r].op = "clean" /\ request' = [request EXCEPT ![r] = k]
        BY <3>7 DEF CleanObject, FileInv
      <4>2. k.op = "clean"
        BY <4>1 DEF VaultRequest
      <4> HIDE DEF k
      <4> QED BY <3>2, <4>1, <4>2
    <3> QED BY <1>5, <3>1, <3>3, <3>4, <3>5, <3>6, <3>7
        DEF OpenDocument, OpenShare, CheckObject, ConfirmUpload, RemoveObject, DeleteDocument, FinishCleaning, CrashRequest,
            EraseAccount, VaultOperations
  <2>3. (owner' => owner) /\ \A x \in Shares : \/ share'[x] = share[x]
                                               \/ share'[x] = None /\ owner' = FALSE
    BY <1>5 DEF CleanObject, OpenDocument, OpenShare, CheckObject, ConfirmUpload, RemoveObject, DeleteDocument, DeleteMe,
               FinishCleaning, CrashRequest, EraseAccount, vaultRows
  <2>4. \A x \in Shares : \/ share'[x] = None /\ (owner' => share[x] = None)
                          \/ share[x] # None /\ share'[x] # None /\ share'[x].view_count = share[x].view_count
    BY <2>3
  <2> QED BY <2>1, <2>2, <2>3, <2>4, NobodyComes DEF SameVisits
<1>6. CASE \/ \E d \in Docs : RequestUploadUrl(d) \/ UrlExpires(d) \/ \E fits \in BOOLEAN : Put(d, fits)
           \/ PutPdf \/ MarkReady \/ \E public \in BOOLEAN : SetVisibility(public)
  BY <1>3, <1>6 DEF RequestUploadUrl, UrlExpires, Put, PutPdf, MarkReady, SetVisibility, vaultRows
<1> QED BY <1>1, <1>2, <1>4, <1>5, <1>6 DEF VaultNext

\* What is left of the types: an account that is gone has no row.
ProjectTypes ==
    /\ is_public \in BOOLEAN /\ report \in {"none", "written", "ready"} /\ Stored \subseteq Docs \cup {Pdf}
    /\ ~ owner => DocumentRows = {} /\ \A l \in Shares : share[l] = None

LEMMA ProjectTypesStep ==
    ASSUME ShareInv, FileInv, ProjectTypes, [VaultNext]_vaultVars
    PROVE  ProjectTypes'
<1>1. CASE UNCHANGED vaultVars
  BY <1>1 DEF vaultVars, vaultRows, ProjectTypes, Stored, DocumentRows
<1>2. ASSUME UNCHANGED <<is_public, report>>, Stored' \subseteq Docs \cup {Pdf}, owner' = owner,
             ~ owner => UNCHANGED <<doc, share>>
      PROVE  ProjectTypes'
  BY <1>2 DEF ProjectTypes, DocumentRows
<1>3. CASE \E d \in Docs : RequestUploadUrl(d) \/ UrlExpires(d) \/ \E fits \in BOOLEAN : Put(d, fits)
  BY <1>2, <1>3 DEF RequestUploadUrl, UrlExpires, Put, With, Stored, vaultRows, ProjectTypes, FileInv
<1>4. CASE PutPdf \/ MarkReady \/ \E public \in BOOLEAN : SetVisibility(public)
  BY <1>4 DEF PutPdf, MarkReady, SetVisibility, With, Stored, ProjectTypes, DocumentRows
<1>5. CASE Revoke \/ \E l \in Shares : ShareExpires(l)
  BY <1>5 DEF Revoke, ShareExpires, Stored, ProjectTypes, DocumentRows
<1>6. ASSUME NEW r \in Requests, EraseAccount(r) PROVE ProjectTypes'
  BY <1>6 DEF EraseAccount, Stored, ProjectTypes, DocumentRows, DocumentStatus, FileInv
<1>7. ASSUME NEW r \in Requests, CreateShare(r) \/ GetFiche(r) PROVE ProjectTypes'
  <2>1. UNCHANGED <<is_public, report, owner, doc, bucket>>
    BY <1>7 DEF CreateShare, GetFiche
  <2>2. request[r].on \in Shares
    BY <1>7 DEF CreateShare, GetFiche, FileInv, Fits
  <2>3. ~ owner => \A l \in Shares : share'[l] = None
    BY <1>7, <2>2 DEF CreateShare, GetFiche, ProjectTypes, ShareInv
  <2> QED BY <2>1, <2>3 DEF ProjectTypes, Stored, DocumentRows
<1>8. ASSUME NEW r \in Requests, ConfirmUpload(r) \/ DeleteDocument(r) PROVE ProjectTypes'
  <2>1. UNCHANGED <<is_public, report, owner, bucket, share>>
    BY <1>8 DEF ConfirmUpload, DeleteDocument
  <2>2. ~ owner => DocumentRows' = {}
    BY <1>8 DEF ConfirmUpload, DeleteDocument, ProjectTypes, DocumentRows, FileInv
  <2> QED BY <2>1, <2>2 DEF ProjectTypes, Stored
<1>9. ASSUME NEW r \in Requests,
             \/ \E d \in Docs : CleanObject(r, d) \/ \E op \in VaultOperations : OpenDocument(r, d, op)
             \/ \E l \in Shares : OpenShare(r, l) \/ OpenFiche(r, l)
             \/ CheckObject(r) \/ RemoveObject(r) \/ DeleteMe(r) \/ FinishCleaning(r) \/ CrashRequest(r)
      PROVE  ProjectTypes'
  <2>1. UNCHANGED vaultRows
    BY <1>9 DEF CleanObject, OpenDocument, OpenShare, OpenFiche, CheckObject, RemoveObject, DeleteMe, FinishCleaning, CrashRequest
  <2>2. bucket' = bucket \/ \E k : bucket' \in Removed(k)
    BY <1>9 DEF CleanObject, OpenDocument, OpenShare, OpenFiche, CheckObject, RemoveObject, DeleteMe, FinishCleaning, CrashRequest
  <2>3. Stored' \subseteq Stored
    BY <2>2, Dropped DEF Stored
  <2> QED BY <2>1, <2>3 DEF ProjectTypes, DocumentRows, vaultRows
<1> QED BY <1>1, <1>3, <1>4, <1>5, <1>6, <1>7, <1>8, <1>9 DEF VaultNext

\* For any documents, links, visits and erasures that overlap, crash or not: the rows keep their types,
\* a link is not viewed more often than it was visited, and an account that is gone has no row left
\* (ON DELETE CASCADE).
THEOREM TheVaultIsTyped == VaultSpec => []VaultTypeOK
<1> DEFINE I == ShareInv /\ FileInv /\ RoomInv /\ ProjectTypes
<1>1. I => VaultTypeOK
  <2> SUFFICES ASSUME I PROVE VaultTypeOK
    OBVIOUS
  <2>1. share \in [Shares -> ProjectShare \cup {None}]
    <3> SUFFICES ASSUME NEW l \in Shares, share[l] # None PROVE share[l] \in ProjectShare
      BY DEF ShareInv
    <3>1. share[l] \in ShareRow /\ share[l].view_count + Cardinality(Visitors(l)) <= MaxViews
      BY DEF ShareInv, RoomInv, HasRoom
    <3>2. share[l].view_count \in 0..MaxViews
      BY <3>1, VisitorsFinite, VaultAssumption DEF ShareRow
    <3> QED BY <3>1, <3>2 DEF ShareRow, ProjectShare
  <2> QED BY <2>1 DEF FileInv, ShareInv, ProjectTypes, VaultTypeOK, VaultRequest
<1>2. VaultInit => I
  <2> SUFFICES ASSUME VaultInit PROVE RoomInv /\ ProjectTypes
    BY VaultStarts
  <2>1. Stored = {} /\ DocumentRows = {}
    BY DEF VaultInit, Stored, DocumentRows, DocumentStatus
  <2>2. \A l : Visitors(l) = {}
    BY DEF VaultInit, Visitors, NoRequest, Asked
  <2> QED BY <2>1, <2>2 DEF VaultInit, RoomInv, HasRoom, ProjectTypes
<1>3. I /\ [VaultNext]_vaultVars => I'
  BY VaultStep, RoomStep, ProjectTypesStep
<1> HIDE DEF I
<1> QED BY <1>1, <1>2, <1>3, PTL DEF VaultSpec

=============================================================================
