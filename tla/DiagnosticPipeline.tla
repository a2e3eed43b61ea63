------------------------- MODULE DiagnosticPipeline -------------------------
(***************************************************************************)
(* The run_diagnostic job: from the founder's request to the published     *)
(* report (app/diagnostics), run by the workers of JobQueue, next to the   *)
(* analysts who curate the project and refine the report (app/projects,    *)
(* app/reports).                                                           *)
(*                                                                         *)
(* Each diagnostic has one project, one report and one job, so all three   *)
(* are indexed by the job.  A handler works on the rows it loaded at its   *)
(* beginning, for minutes: `run` is that memory.  When it commits, the ORM *)
(* writes the attributes that differ from what it loaded, and no others    *)
(* (expire_on_commit=False, no row lock, READ COMMITTED).                  *)
(***************************************************************************)
EXTENDS JobQueue

CONSTANTS
    Scores,          \* the results a scoring may have
    NoScore,         \* no result yet
    Human,           \* a result or a text set by an analyst
    Curators,        \* analysts and administrators who move review_status
    MaxEdits,        \* how many times analysts adjust scores or edit reports
    MaxCurations,    \* how many times curators read a project to move it
    CleanupMayFail   \* whether the database may refuse the terminal clean-up

ASSUME ScoresAssumption ==
    /\ Scores # {} /\ NoScore \notin Scores /\ Human \notin Scores \cup {NoScore}
    /\ MaxEdits \in Nat /\ MaxCurations \in Nat /\ CleanupMayFail \in BOOLEAN
ASSUME AllHandled == Handled = Jobs

VARIABLES
    diagnostic,   \* [Jobs -> DiagnosticStatus], project.diagnostic_status
    review,       \* [Jobs -> ReviewStatus], project.review_status
    report,       \* [Jobs -> Report], the row of `reports`
    bucket,       \* [Jobs -> Result], the score printed in the stored bilans/<id>.pdf
    run,          \* [Workers -> Run], the memory of the handler or of the clean-up
    curation,     \* [Curators -> what the curator read]
    edits, curations   \* what is spent of MaxEdits and MaxCurations

business == <<diagnostic, review, report, bucket>>
analysts == <<curation, edits, curations>>
pvars == <<vars, business, run, analysts>>

DiagnosticStatus == {"NONE", "DRAFT", "IN_PROGRESS", "COMPLETED", "BILAN_READY", "ARCHIVED"}
ReviewStatus == {"NEW_DIAGNOSTIC", "IN_REVIEW", "NEEDS_WORK", "QUALIFIED", "EXCELLENCE",
                 "REJECTED"}
ReportStatus == {"NONE", "PENDING", "READY", "FAILED"}
Result == Scores \cup {NoScore, Human}
Report == [status : ReportStatus, radar : Result, insights : Result, pdf : BOOLEAN]
Run == [at : {"idle", "project", "llm", "report", "pdf", "cleanup"}, job : Jobs \cup {NoJob},
        diagnostic : DiagnosticStatus, review : ReviewStatus, report : Report, score : Result]

Blank(s) == [status |-> s, radar |-> NoScore, insights |-> NoScore, pdf |-> FALSE]
Idle == [at |-> "idle", job |-> NoJob, diagnostic |-> "NONE", review |-> "NEW_DIAGNOSTIC",
         report |-> Blank("NONE"), score |-> NoScore]
NotReading == [job |-> NoJob, review |-> "NEW_DIAGNOSTIC"]

DiagnosticEdges == {<<"DRAFT", "IN_PROGRESS">>, <<"DRAFT", "ARCHIVED">>,
                    <<"IN_PROGRESS", "COMPLETED">>, <<"IN_PROGRESS", "ARCHIVED">>,
                    <<"COMPLETED", "BILAN_READY">>, <<"BILAN_READY", "ARCHIVED">>}

ReviewEdges == {<<"NEW_DIAGNOSTIC", "IN_REVIEW">>, <<"IN_REVIEW", "QUALIFIED">>,
                <<"IN_REVIEW", "NEEDS_WORK">>, <<"IN_REVIEW", "REJECTED">>,
                <<"NEEDS_WORK", "IN_REVIEW">>, <<"QUALIFIED", "EXCELLENCE">>,
                <<"QUALIFIED", "NEEDS_WORK">>, <<"EXCELLENCE", "QUALIFIED">>,
                <<"REJECTED", "IN_REVIEW">>}

\* transition_diagnostic does not raise: it is already there, or the edge is legal.
MayBecome(current, target) == current = target \/ <<current, target>> \in DiagnosticEdges

\* The flush of the unit of work: an attribute set to the value it was loaded with is not
\* in the UPDATE, whatever the row holds by now.
Flushed(loaded, new, row) == IF new = loaded THEN row ELSE new

PTypeOK ==
    /\ TypeOK
    /\ diagnostic \in [Jobs -> DiagnosticStatus]
    /\ review \in [Jobs -> ReviewStatus]
    /\ report \in [Jobs -> Report]
    /\ bucket \in [Jobs -> Result]
    /\ run \in [Workers -> Run]
    /\ curation \in [Curators -> [job : Jobs \cup {NoJob}, review : ReviewStatus]]
    /\ edits \in 0..MaxEdits /\ curations \in 0..MaxCurations

PInit ==
    /\ Init
    /\ diagnostic = [j \in Jobs |-> "NONE"]
    /\ review = [j \in Jobs |-> "NEW_DIAGNOSTIC"]
    /\ report = [j \in Jobs |-> Blank("NONE")]
    /\ bucket = [j \in Jobs |-> NoScore]
    /\ run = [w \in Workers |-> Idle]
    /\ curation = [c \in Curators |-> NotReading]
    /\ edits = 0 /\ curations = 0

-----------------------------------------------------------------------------
(* The founder.                                                            *)

\* DiagnosticService._start: the project, its report and its job in one commit.
StartDiagnostic(j) ==
    /\ Enqueue(j)
    /\ diagnostic' = [diagnostic EXCEPT ![j] = "IN_PROGRESS"]
    /\ report' = [report EXCEPT ![j] = Blank("PENDING")]
    /\ UNCHANGED <<review, bucket, run, analysts>>

-----------------------------------------------------------------------------
(* The handler, handle_run_diagnostic.                                     *)

\* Two SELECTs, one after the other: the project ...
LoadProject(w) ==
    /\ pc[w] = "run" /\ run[w].at = "idle"
    /\ run' = [run EXCEPT ![w].at = "project", ![w].job = held[w],
                          ![w].diagnostic = diagnostic[held[w]],
                          ![w].review = review[held[w]]]
    /\ UNCHANGED <<vars, business, analysts>>

\* ... then the report.  A diagnostic that is already published is left alone.
LoadReport(w) ==
    /\ pc[w] = "run" /\ run[w].at = "project"
    /\ IF report[held[w]].status = "READY" /\ run[w].diagnostic = "BILAN_READY"
       THEN /\ Finish(w, "succeeded")
            /\ run' = [run EXCEPT ![w] = Idle]
       ELSE /\ run' = [run EXCEPT ![w].at = "llm", ![w].report = report[held[w]]]
            /\ UNCHANGED vars
    /\ UNCHANGED <<business, analysts>>

\* Mutant: the radar is committed, the project's status is not moved.
ScoreWithoutTransition(w, s, needsReview) ==
    /\ pc[w] = "run" /\ run[w].at = "llm"
    /\ report' = [report EXCEPT ![held[w]].radar = Flushed(run[w].report.radar, s, @)]
    /\ run' = [run EXCEPT ![w].at = "report", ![w].report.radar = s, ![w].score = s]
    /\ UNCHANGED <<vars, diagnostic, review, bucket, analysts>>

\* Mutant: a retry keeps the radar of the attempt before it.
ScoreFirstWins(w, s, needsReview) ==
    /\ pc[w] = "run" /\ run[w].at = "llm" /\ MayBecome(run[w].diagnostic, "COMPLETED")
    /\ report' = [report EXCEPT ![held[w]].radar = IF @ = NoScore THEN s ELSE @]
    /\ diagnostic' = [diagnostic EXCEPT ![held[w]] = "COMPLETED"]
    /\ run' = [run EXCEPT ![w].at = "report", ![w].diagnostic = "COMPLETED", ![w].score = s]
    /\ UNCHANGED <<vars, review, bucket, analysts>>

\* Phase 1: the passes gave a consensus, and the radar is committed before the report is
\* written.  An uncertain score sends a project nobody reviews yet to a human.  From a
\* project that may not become COMPLETED the handler raises and nothing is written.
Score(w, s, needsReview) ==
    /\ pc[w] = "run" /\ run[w].at = "llm"
    /\ LET j == held[w]
           routed == IF needsReview /\ run[w].review = "NEW_DIAGNOSTIC"
                     THEN "IN_REVIEW" ELSE run[w].review
       IN  IF MayBecome(run[w].diagnostic, "COMPLETED")
           THEN /\ report' = [report EXCEPT ![j].radar =
                                  Flushed(run[w].report.radar, s, @)]
                /\ diagnostic' = [diagnostic EXCEPT ![j] =
                                  Flushed(run[w].diagnostic, "COMPLETED", @)]
                /\ review' = [review EXCEPT ![j] = Flushed(run[w].review, routed, @)]
                /\ run' = [run EXCEPT ![w].at = "report", ![w].diagnostic = "COMPLETED",
                                      ![w].review = routed, ![w].score = s,
                                      ![w].report = [run[w].report EXCEPT !.radar = s]]
                /\ UNCHANGED <<vars, bucket>>
           ELSE /\ Finish(w, "raised")
                /\ run' = [run EXCEPT ![w] = Idle]
                /\ UNCHANGED business
    /\ UNCHANGED analysts

\* Phase 2, best effort: the PDF is stored before the transaction that refers to it.
StorePdf(w) ==
    /\ pc[w] = "run" /\ run[w].at = "report"
    /\ bucket' = [bucket EXCEPT ![held[w]] = run[w].score]
    /\ run' = [run EXCEPT ![w].at = "pdf"]
    /\ UNCHANGED <<vars, diagnostic, review, report, analysts>>

\* Mutant: the report is published, the project's status is not moved.
PublishWithoutTransition(w, insights) ==
    /\ pc[w] = "run" /\ run[w].at \in {"report", "pdf"}
    /\ insights \in {NoScore, run[w].score}
    /\ report' = [report EXCEPT ![held[w]].status = "READY", ![held[w]].insights = insights,
                                ![held[w]].pdf = run[w].at = "pdf"]
    /\ Finish(w, "succeeded")
    /\ run' = [run EXCEPT ![w] = Idle]
    /\ UNCHANGED <<diagnostic, review, bucket, analysts>>

\* mark_ready, with the text of the report if the model gave one (no two texts are equal)
\* and the PDF if it was stored.
Publish(w, insights) ==
    /\ pc[w] = "run" /\ run[w].at \in {"report", "pdf"}
    /\ insights \in {NoScore, run[w].score}
    /\ LET j == held[w]
           old == run[w].report
           row == report[j]
       IN  /\ report' = [report EXCEPT ![j] =
                 [status |-> Flushed(old.status, "READY", row.status),
                  radar |-> row.radar,
                  insights |-> IF insights # NoScore THEN insights
                               ELSE Flushed(old.insights, NoScore, row.insights),
                  pdf |-> Flushed(old.pdf, run[w].at = "pdf", row.pdf)]]
           /\ diagnostic' = [diagnostic EXCEPT ![j] = "BILAN_READY"]
    /\ Finish(w, "succeeded")
    /\ run' = [run EXCEPT ![w] = Idle]
    /\ UNCHANGED <<review, bucket, analysts>>

\* Mutant: the handler swallows its exceptions.
RaiseSwallowed(w) ==
    /\ Finish(w, "succeeded")
    /\ run' = [run EXCEPT ![w] = Idle]
    /\ UNCHANGED <<business, analysts>>

\* Anything else that raises: no provider, no active grid, every pass failed, a database
\* error.  What is not committed is rolled back.
Raise(w) ==
    /\ Finish(w, "raised")
    /\ run' = [run EXCEPT ![w] = Idle]
    /\ UNCHANGED <<business, analysts>>

-----------------------------------------------------------------------------
(* The terminal hook, handle_run_diagnostic_failed.                        *)

\* The report is read; one that is no longer pending is left alone.
LoadForCleanup(w, j) ==
    /\ j \in cleaning[w] /\ run[w].at = "idle"
    /\ IF report[j].status = "PENDING"
       THEN /\ run' = [run EXCEPT ![w].at = "cleanup", ![w].job = j,
                                  ![w].report = report[j], ![w].diagnostic = diagnostic[j]]
            /\ UNCHANGED vars
       ELSE /\ TerminalHook(w, j)
            /\ UNCHANGED run
    /\ UNCHANGED <<business, analysts>>

\* Mutant: every clean-up ends in READY.
CommitCleanupAlwaysReady(w, j) ==
    /\ run[w].at = "cleanup" /\ run[w].job = j
    /\ report' = [report EXCEPT ![j].status = "READY"]
    /\ TerminalHook(w, j)
    /\ run' = [run EXCEPT ![w] = Idle]
    /\ UNCHANGED <<diagnostic, review, bucket, analysts>>

\* Mutant: every clean-up ends in FAILED, with or without a radar.
CommitCleanupAlwaysFailed(w, j) ==
    /\ run[w].at = "cleanup" /\ run[w].job = j
    /\ report' = [report EXCEPT ![j].status = "FAILED"]
    /\ TerminalHook(w, j)
    /\ run' = [run EXCEPT ![w] = Idle]
    /\ UNCHANGED <<diagnostic, review, bucket, analysts>>

\* Mutant: the clean-up publishes the radar but leaves the project's status.
CommitCleanupReportOnly(w, j) ==
    /\ run[w].at = "cleanup" /\ run[w].job = j
    /\ report' = [report EXCEPT ![j].status =
                      IF run[w].report.radar = NoScore THEN "FAILED" ELSE "READY"]
    /\ TerminalHook(w, j)
    /\ run' = [run EXCEPT ![w] = Idle]
    /\ UNCHANGED <<diagnostic, review, bucket, analysts>>

\* Mutant: the clean-up only knows reports that have a radar.
CommitCleanupRadarOnly(w, j) ==
    /\ run[w].at = "cleanup" /\ run[w].job = j
    /\ IF run[w].report.radar # NoScore
       THEN /\ report' = [report EXCEPT ![j].status = "READY"]
            /\ diagnostic' = [diagnostic EXCEPT ![j] = "BILAN_READY"]
       ELSE UNCHANGED <<report, diagnostic>>
    /\ TerminalHook(w, j)
    /\ run' = [run EXCEPT ![w] = Idle]
    /\ UNCHANGED <<review, bucket, analysts>>

\* A radar makes the report READY, without text or PDF; no radar makes it FAILED.  A project
\* that may not become BILAN_READY raises, and the worker swallows it.
CommitCleanup(w, j) ==
    /\ run[w].at = "cleanup" /\ run[w].job = j
    /\ IF run[w].report.radar = NoScore
       THEN /\ report' = [report EXCEPT ![j].status = "FAILED"]
            /\ UNCHANGED diagnostic
       ELSE IF MayBecome(run[w].diagnostic, "BILAN_READY")
       THEN /\ report' = [report EXCEPT ![j].status = "READY"]
            /\ diagnostic' = [diagnostic EXCEPT ![j] =
                                  Flushed(run[w].diagnostic, "BILAN_READY", @)]
       ELSE UNCHANGED <<report, diagnostic>>
    /\ TerminalHook(w, j)
    /\ run' = [run EXCEPT ![w] = Idle]
    /\ UNCHANGED <<review, bucket, analysts>>

\* The database refuses the clean-up: _cleanup_terminal logs it and goes on.
CleanupFails(w, j) ==
    /\ CleanupMayFail /\ run[w].job \in {NoJob, j}
    /\ TerminalHook(w, j)
    /\ run' = [run EXCEPT ![w] = Idle]
    /\ UNCHANGED <<business, analysts>>

\* The memory of a handler does not survive its process.
WorkerDies(w) ==
    /\ Crash(w)
    /\ run' = [run EXCEPT ![w] = Idle]
    /\ UNCHANGED <<business, analysts>>

-----------------------------------------------------------------------------
(* Analysts and administrators.  adjust_scores and edit_report look at no  *)
(* status.                                                                 *)

AdjustScores(j) ==
    /\ report[j].status # "NONE" /\ edits < MaxEdits
    /\ edits' = edits + 1
    /\ report' = [report EXCEPT ![j].radar = Human]
    /\ UNCHANGED <<vars, diagnostic, review, bucket, run, curation, curations>>

EditReport(j) ==
    /\ report[j].status # "NONE" /\ edits < MaxEdits
    /\ edits' = edits + 1
    /\ report' = [report EXCEPT ![j].insights = Human]
    /\ UNCHANGED <<vars, diagnostic, review, bucket, run, curation, curations>>

\* ProjectAdminService.transition_review: the project is read ...
ReadProject(c, j) ==
    /\ curation[c].job = NoJob /\ diagnostic[j] # "NONE" /\ curations < MaxCurations
    /\ curations' = curations + 1
    /\ curation' = [curation EXCEPT ![c] = [job |-> j, review |-> review[j]]]
    /\ UNCHANGED <<vars, business, run, edits>>

\* ... the edge is checked on what was read, and the target written.  The same target is no change,
\* an illegal one is a 422.
MoveReview(c, target) ==
    /\ curation[c].job # NoJob
    /\ target = curation[c].review \/ <<curation[c].review, target>> \in ReviewEdges
    /\ review' = [review EXCEPT ![curation[c].job] =
                      Flushed(curation[c].review, target, @)]
    /\ curation' = [curation EXCEPT ![c] = NotReading]
    /\ UNCHANGED <<vars, diagnostic, report, bucket, run, edits, curations>>

-----------------------------------------------------------------------------

\* The steps of the queue that touch neither the project nor the report.
QueueStep ==
    /\ \/ Tick
       \/ \E j \in Jobs : Requeue(j)
       \/ \E w \in Workers :
             \/ RecoverStale(w) \/ NothingToClaim(w) \/ Heartbeat(w) \/ HeartbeatDies(w)
             \/ Ack(w)
             \/ \E j \in Jobs : Claim(w, j)
    /\ UNCHANGED <<business, run, analysts>>

Handle(w) ==
    \/ LoadProject(w)
    \/ LoadReport(w)
    \/ \E s \in Scores, needsReview \in BOOLEAN : Score(w, s, needsReview)
    \/ StorePdf(w)
    \/ \E insights \in Result : Publish(w, insights)
    \/ Raise(w)

CleanUp(w, j) == LoadForCleanup(w, j) \/ CommitCleanup(w, j) \/ CleanupFails(w, j)

Analyst ==
    \/ \E j \in Jobs : AdjustScores(j) \/ EditReport(j)
    \/ \E c \in Curators :
        \/ \E j \in Jobs : ReadProject(c, j)
        \/ \E target \in ReviewStatus : MoveReview(c, target)

PNext ==
    \/ QueueStep
    \/ Analyst
    \/ \E j \in Jobs : StartDiagnostic(j)
    \/ \E w \in Workers :
        \/ Handle(w) \/ WorkerDies(w)
        \/ \E j \in Jobs : CleanUp(w, j)

PSpec == PInit /\ [][PNext]_pvars

\* As in JobQueue, with the handler and the clean-up in the place of Finish and TerminalHook.
PFairness ==
    /\ WF_pvars(QueueStep /\ Tick)
    /\ \A w \in Workers :
        /\ WF_pvars(QueueStep /\ RecoverStale(w))
        /\ WF_pvars(QueueStep /\ NothingToClaim(w))
        /\ WF_pvars(QueueStep /\ \E j \in Jobs : Claim(w, j))
        /\ WF_pvars(QueueStep /\ Heartbeat(w))
        /\ WF_pvars(QueueStep /\ Ack(w))
        /\ WF_pvars(Handle(w))
        /\ WF_pvars(\E j \in Jobs : CleanUp(w, j))

PFairSpec == PSpec /\ PFairness

-----------------------------------------------------------------------------
(* Properties.                                                             *)

\* The two state machines of app/projects/models.py: a project moves along their edges only.
DiagnosticMachine ==
    [][\A j \in Jobs : diagnostic[j] \notin {"NONE", diagnostic'[j]}
                           => <<diagnostic[j], diagnostic'[j]>> \in DiagnosticEdges]_pvars
ReviewMachine ==
    [][\A j \in Jobs : review'[j] # review[j]
                           => <<review[j], review'[j]>> \in ReviewEdges]_pvars

\* The founder's report and the project's status tell the same story: READY and BILAN_READY
\* are committed together, by the handler or by the clean-up, and stay together.
ReadyTogether ==
    \A j \in Jobs : report[j].status = "READY" <=> diagnostic[j] = "BILAN_READY"

\* A job is acknowledged as completed only when its report is published.
CompletedMeansReady ==
    \A j \in Jobs : status[j] = "COMPLETED" => report[j].status = "READY"

\* What a published report shows of the machine's work comes from one scoring: the radar, the
\* text and the PDF are not those of different attempts, whatever an analyst has changed.
OneScoringShown ==
    \A j \in Jobs : report[j].status = "READY" =>
        LET shown == {report[j].radar, report[j].insights} \cup (IF report[j].pdf THEN {bucket[j]} ELSE {}) IN
        /\ report[j].radar # NoScore
        /\ Cardinality(shown \ {NoScore, Human}) <= 1

\* A report that failed hides no radar of the machine: once one was computed, the clean-up
\* publishes it (app/diagnostics/handlers.py, the comment of the radar-only branch).
FailedHidesNoRadar ==
    \A j \in Jobs : status[j] = "FAILED" /\ report[j].status = "FAILED"
                        => report[j].radar \in {NoScore, Human}

\* When its job has failed and nobody is left to clean up after it, a report is not PENDING:
\* the founder does not watch a spinner for ever.
FailureIsShown ==
    \A j \in Jobs : status[j] = "FAILED" /\ (\A w \in Workers : j \notin cleaning[w])
                        => report[j].status # "PENDING"

\* Once published, a report stays published.
PublishedForGood ==
    [][\A j \in Jobs : report[j].status = "READY" => report'[j].status = "READY"]_pvars

\* A report never links to a PDF that is not stored, nor claims to be ready without a radar: the
\* object is stored before the row that refers to it, and the radar committed before the
\* report, whatever is run twice, crashes or is edited in between.
NothingDangles ==
    \A j \in Jobs :
        /\ report[j].pdf => bucket[j] # NoScore
        /\ report[j].status = "READY" \/ diagnostic[j] \in {"COMPLETED", "BILAN_READY"}
               => report[j].radar # NoScore

\* Once a report is published, the machine leaves alone what an analyst then decides: a job
\* that is run again finds the diagnostic published and returns.  In a calm environment.
RefinementsSurvive ==
    [][\A j \in Jobs : report[j].status = "READY" =>
           /\ report[j].radar = Human => report'[j].radar = Human
           /\ report[j].insights = Human => report'[j].insights = Human]_pvars

\* The four tables that tell of one diagnostic agree in every state, whatever crashes, is run
\* twice, is edited or is rolled back: its job, its report, the project's status and the PDF.
PublicationAgrees == ReadyTogether /\ CompletedMeansReady /\ NothingDangles

\* The founder sees the radar of one scoring, and one that was computed is shown to him.
RadarIsShown == OneScoringShown /\ FailedHidesNoRadar

\* What was published is not taken back, neither the report nor an analyst's refinements.
PublicationLasts == PublishedForGood /\ RefinementsSurvive

-----------------------------------------------------------------------------
(* Why the publication holds, when leases are lost with their workers only *)
(* and a failed job is retried only after its clean-up.                    *)

\* Nobody retries a failed job while its terminal hook is under way.
RetriesWait ==
    \A j \in Jobs : status[j] = "FAILED" /\ status'[j] # "FAILED"
                        => \A w \in Workers : j \notin cleaning[w]

\* Where a handler has rows in its memory.
Handling == {"project", "llm", "report", "pdf"}

\* The published report shows the scoring s and what analysts made of it.
Shows(j, s) ==
    /\ report[j].radar \in {s, Human}
    /\ report[j].insights \in {s, NoScore, Human}
    /\ report[j].pdf => bucket[j] = s

\* The project, the report and the job are at the same point of one life; before its publication
\* a report has no text and no PDF of the machine.
RowAgrees(j) ==
    /\ diagnostic[j] \in {"NONE", "IN_PROGRESS", "COMPLETED", "BILAN_READY"}
    /\ status[j] = "ABSENT" <=> diagnostic[j] = "NONE"
    /\ status[j] = "COMPLETED" => report[j].status = "READY"
    /\ report[j].status = "READY" <=> diagnostic[j] = "BILAN_READY"
    /\ diagnostic[j] \in {"COMPLETED", "BILAN_READY"} => report[j].radar # NoScore
    /\ report[j].status = "READY" => \E s \in Scores : Shows(j, s)
    /\ report[j].status # "READY"
           => report[j].insights \in {NoScore, Human} /\ ~ report[j].pdf

\* The memory of the handler w is still what the rows say, but for an analyst's hand on the
\* radar: only the holder of a job writes its diagnostic.
HandlerIsCurrent(w) ==
    LET row == report[held[w]] IN
    /\ run[w].at \in Handling
           => pc[w] = "run" /\ run[w].diagnostic = diagnostic[held[w]]
    /\ run[w].at \in {"llm", "report", "pdf"}
           => row.status = run[w].report.status /\ row.status # "READY" /\ ~ run[w].report.pdf
    /\ run[w].at = "llm" => row.radar \in {run[w].report.radar, Human}
    /\ run[w].at \in {"report", "pdf"} => /\ run[w].diagnostic = "COMPLETED"
                                          /\ run[w].score \in Scores
                                          /\ row.radar \in {run[w].score, Human}
    /\ run[w].at = "pdf" => bucket[held[w]] = run[w].score
    /\ pc[w] = "succeeded" => row.status = "READY"

\* A failed job has one cleaner, which holds no job, and whose memory is as current.
CleanupIsCurrent(w) ==
    /\ cleaning[w] # {} => held[w] = NoJob
    /\ \A j \in cleaning[w] :
           status[j] = "FAILED" /\ \A v \in Workers : j \in cleaning[v] => v = w
    /\ run[w].at = "cleanup" =>
           /\ run[w].job \in cleaning[w]
           /\ report[run[w].job].status = "PENDING"
           /\ run[w].diagnostic = diagnostic[run[w].job]
           /\ report[run[w].job].radar \in {run[w].report.radar, Human}

AllAgree ==
    /\ \A j \in Jobs : RowAgrees(j)
    /\ \A w \in Workers : HandlerIsCurrent(w) /\ CleanupIsCurrent(w)

PublicationInv == CalmInv /\ AllAgree

\* When no failed job is retried at all, a failed report has had no scoring.
FailuresAgree ==
    \A j \in Jobs : report[j].status = "FAILED"
                        => status[j] = "FAILED" /\ report[j].radar \in {NoScore, Human}

\* What brings every failure to the founder, with lost leases and zombies but without a crash or
\* an edit: a radar was committed with its status, so that no clean-up meets a project that may
\* not become BILAN_READY.
Scored == {"COMPLETED", "BILAN_READY"}

RowScored(j) ==
    /\ status[j] = "ABSENT" => diagnostic[j] = "NONE"
    /\ report[j].radar # NoScore => diagnostic[j] \in Scored

MemoryScored(w) ==
    /\ run[w].at \in Handling =>
           /\ pc[w] = "run"
           /\ run[w].diagnostic \in Scored => diagnostic[held[w]] \in Scored
    /\ run[w].at = "cleanup" =>
           /\ run[w].job \in cleaning[w]
           /\ run[w].report.radar # NoScore => run[w].diagnostic \in Scored

WorkExists(w) ==
    /\ pc[w] \in {"run", "succeeded", "raised"}
           => cleaning[w] = {} /\ held[w] \in Jobs /\ status[held[w]] # "ABSENT"
    /\ \A j \in cleaning[w] : status[j] # "ABSENT"

FailureInv ==
    /\ \A j \in Jobs : RowScored(j)
    /\ \A w \in Workers : WorkExists(w) /\ MemoryScored(w)
    /\ FailureIsShown

\* Every diagnostic ends: its report becomes READY or FAILED.
EveryDiagnosticEnds ==
    \A j \in Jobs : report[j].status = "PENDING" ~> report[j].status \in {"READY", "FAILED"}
=============================================================================
