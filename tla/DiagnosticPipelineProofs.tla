---------------------- MODULE DiagnosticPipelineProofs ----------------------
(***************************************************************************)
(* The pipeline runs on the queue, so what is proved of the queue holds in *)
(* it; then its own types, that a report and its project are published     *)
(* together, that a report that failed has no radar, and that each failure *)
(* is shown.                                                               *)
(***************************************************************************)
EXTENDS DiagnosticPipeline, JobQueueProofs, FiniteSetTheorems

\* Each step of the pipeline is a step of the queue, or leaves the queue alone.
LEMMA PipelineStepIsQueueStep == [PNext]_pvars => [Next]_vars
<1> SUFFICES ASSUME [PNext]_pvars PROVE Next \/ UNCHANGED vars
  OBVIOUS
<1>1. CASE QueueStep
  BY <1>1 DEF QueueStep, Next, WorkerStep
<1>2. CASE Analyst
  BY <1>2 DEF Analyst, AdjustScores, EditReport, ReadProject, MoveReview
<1>3. ASSUME NEW j \in Jobs, StartDiagnostic(j) PROVE Next
  BY <1>3 DEF StartDiagnostic, Next
<1>4. ASSUME NEW w \in Workers, NEW o \in {"succeeded", "raised"}, Finish(w, o) PROVE Next
  BY <1>4 DEF Next, WorkerStep
<1>5. ASSUME NEW w \in Workers, Handle(w) PROVE Next \/ UNCHANGED vars
  <2>1. CASE LoadProject(w)
    BY <2>1 DEF LoadProject
  <2>2. CASE LoadReport(w)
    BY <2>2, <1>4 DEF LoadReport
  <2>3. ASSUME NEW s \in Scores, NEW n \in BOOLEAN, Score(w, s, n)
        PROVE  Next \/ UNCHANGED vars
    BY <2>3, <1>4 DEF Score
  <2>4. CASE StorePdf(w)
    BY <2>4 DEF StorePdf
  <2>5. ASSUME NEW i \in Result, Publish(w, i) PROVE Next
    BY <2>5, <1>4 DEF Publish
  <2>6. CASE Raise(w)
    BY <2>6, <1>4 DEF Raise
  <2>7. QED BY <1>5, <2>1, <2>2, <2>3, <2>4, <2>5, <2>6 DEF Handle
<1>6. ASSUME NEW w \in Workers, WorkerDies(w) PROVE Next
  BY <1>6 DEF WorkerDies, Next, WorkerStep
<1>7. ASSUME NEW w \in Workers, NEW j \in Jobs, CleanUp(w, j) PROVE Next \/ UNCHANGED vars
  <2>1. TerminalHook(w, j) => Next
    BY DEF Next, WorkerStep
  <2>2. QED BY <1>7, <2>1 DEF CleanUp, LoadForCleanup, CommitCleanup, CleanupFails
<1>8. CASE UNCHANGED pvars
  BY <1>8 DEF pvars
<1>9. QED BY <1>1, <1>2, <1>3, <1>5, <1>6, <1>7, <1>8 DEF PNext

\* The pipeline implements the queue: what a handler or a clean-up does never adds a behaviour
\* to the life cycle of its job.
THEOREM PipelineRunsTheQueue == PSpec => Spec
<1>1. PInit => Init
  BY DEF PInit
<1>2. QED BY <1>1, PipelineStepIsQueueStep, PTL DEF PSpec, Spec

\* In a calm environment a diagnostic is never run by two workers at once.
THEOREM DiagnosticRunsOnce ==
    ASSUME Calm PROVE PSpec => []OneHolder
  BY PipelineRunsTheQueue, MutualExclusion, PTL

-----------------------------------------------------------------------------
(* Types.                                                                  *)

\* A worker in the body of _process holds a job, whatever the environment does.
HoldsInProcess == \A w \in Workers : pc[w] \in {"run", "succeeded", "raised"} => held[w] \in Jobs

LEMMA HoldsStep == TypeOK /\ HoldsInProcess /\ [Next]_vars => HoldsInProcess'
<1> SUFFICES ASSUME TypeOK, HoldsInProcess, [Next]_vars PROVE HoldsInProcess'
  OBVIOUS
<1> USE DEF TypeOK, HoldsInProcess, WorkerPC, workers
<1>1. CASE Tick
  BY <1>1 DEF Tick
<1>2. ASSUME NEW j \in Jobs, Enqueue(j) \/ Requeue(j) PROVE HoldsInProcess'
  BY <1>2 DEF Enqueue, Requeue
<1>3. ASSUME NEW w \in Workers, WorkerStep(w) PROVE HoldsInProcess'
  <2>1. CASE RecoverStale(w)
    BY <2>1 DEF RecoverStale
  <2>2. CASE NothingToClaim(w) \/ Heartbeat(w) \/ HeartbeatDies(w)
    BY <2>2 DEF NothingToClaim, Heartbeat, HeartbeatDies
  <2>3. CASE Ack(w)
    BY <2>3 DEF Ack, Complete, FailRetry, FailFinal, Release
  <2>4. CASE Crash(w)
    BY <2>4 DEF Crash, Release
  <2>5. ASSUME NEW j \in Jobs, TerminalHook(w, j) PROVE HoldsInProcess'
    BY <2>5 DEF TerminalHook
  <2>6. ASSUME NEW j \in Jobs, Claim(w, j) PROVE HoldsInProcess'
    BY <2>6 DEF Claim
  <2>7. ASSUME NEW o \in {"succeeded", "raised"}, Finish(w, o) PROVE HoldsInProcess'
    BY <2>7 DEF Finish
  <2>8. QED BY <1>3, <2>1, <2>2, <2>3, <2>4, <2>5, <2>6, <2>7 DEF WorkerStep
<1>4. CASE UNCHANGED vars
  BY <1>4 DEF vars
<1>5. QED BY <1>1, <1>2, <1>3, <1>4 DEF Next

\* Writing one attribute of a report gives a report.
LEMMA ReportWrites ==
    ASSUME NEW j \in Jobs, NEW f \in [Jobs -> Report]
    PROVE  /\ \A s \in ReportStatus : [f EXCEPT ![j].status = s] \in [Jobs -> Report]
           /\ \A x \in Result : [f EXCEPT ![j].radar = x] \in [Jobs -> Report]
           /\ \A x \in Result : [f EXCEPT ![j].insights = x] \in [Jobs -> Report]
<1>1. f[j] \in Report
  OBVIOUS
<1>2. \A s \in ReportStatus : [f[j] EXCEPT !.status = s] \in Report
  BY <1>1 DEF Report
<1>3. \A x \in Result : [f[j] EXCEPT !.radar = x] \in Report
  BY <1>1 DEF Report
<1>4. \A x \in Result : [f[j] EXCEPT !.insights = x] \in Report
  BY <1>1 DEF Report
<1>5. QED BY <1>2, <1>3, <1>4

\* What a clean-up writes of the report is its status.
LEMMA CleanupWrites ==
    ASSUME NEW w \in Workers, NEW j \in Jobs, CommitCleanup(w, j)
    PROVE  \/ report' = [report EXCEPT ![j].status = "READY"]
           \/ report' = [report EXCEPT ![j].status = "FAILED"]
           \/ report' = report
  BY DEF CommitCleanup

LEMMA PTypeInit == PInit => PTypeOK /\ HoldsInProcess
  BY TypeInit, ScoresAssumption
  DEF PInit, Init, PTypeOK, HoldsInProcess, DiagnosticStatus, ReviewStatus, Report, ReportStatus,
      Result, Blank, Run, Idle, NotReading

LEMMA PTypeStep == PTypeOK /\ HoldsInProcess /\ [PNext]_pvars => PTypeOK'
<1> SUFFICES ASSUME PTypeOK, HoldsInProcess, [PNext]_pvars PROVE PTypeOK'
  OBVIOUS
<1>t. TypeOK'
  BY PipelineStepIsQueueStep, TypeStep DEF PTypeOK
<1> USE <1>t, ScoresAssumption DEF PTypeOK, business, analysts
<1>i. Idle \in Run /\ NotReading \in [job : Jobs \cup {NoJob}, review : ReviewStatus]
  BY DEF Idle, Run, NotReading, Report, Blank, DiagnosticStatus, ReviewStatus, ReportStatus, Result
<1>1. CASE QueueStep
  BY <1>1 DEF QueueStep
<1>2. ASSUME NEW j \in Jobs, StartDiagnostic(j) PROVE PTypeOK'
  <2>1. Blank("PENDING") \in Report /\ "IN_PROGRESS" \in DiagnosticStatus
    BY DEF Blank, Report, ReportStatus, Result, DiagnosticStatus
  <2>2. QED BY <1>2, <2>1 DEF StartDiagnostic
<1>3. ASSUME NEW w \in Workers, Handle(w) PROVE PTypeOK'
  <2> DEFINE j == held[w]
  <2>j. pc[w] = "run" /\ j \in Jobs
    BY <1>3 DEF Handle, LoadProject, LoadReport, Score, StorePdf, Publish, Raise, Finish,
                HoldsInProcess
  <2>r. run[w] \in Run /\ report[j] \in Report /\ diagnostic[j] \in DiagnosticStatus
        /\ review[j] \in ReviewStatus
    BY <2>j
  <2>1. CASE LoadProject(w)
    <3>1. run' \in [Workers -> Run]
      BY <2>1, <2>j, <2>r DEF LoadProject, Run
    <3>2. QED BY <2>1, <3>1 DEF LoadProject
  <2>2. CASE LoadReport(w)
    <3>1. run' \in [Workers -> Run]
      BY <2>2, <2>j, <2>r, <1>i DEF LoadReport, Run
    <3>2. QED BY <2>2, <3>1 DEF LoadReport
  <2>3. ASSUME NEW s \in Scores, NEW n \in BOOLEAN, Score(w, s, n) PROVE PTypeOK'
    <3>1. s \in Result /\ "COMPLETED" \in DiagnosticStatus /\ "IN_REVIEW" \in ReviewStatus
      BY DEF Result, DiagnosticStatus, ReviewStatus
    <3>2. run' \in [Workers -> Run]
      <4>1. CASE run' = [run EXCEPT ![w] = Idle]
        BY <4>1, <1>i
      <4>2. CASE MayBecome(run[w].diagnostic, "COMPLETED")
        <5>1. PICK routed \in ReviewStatus :
                 run' = [run EXCEPT ![w].at = "report", ![w].diagnostic = "COMPLETED",
                                    ![w].review = routed, ![w].score = s,
                                    ![w].report = [run[w].report EXCEPT !.radar = s]]
          BY <2>3, <4>2, <2>r, <3>1 DEF Score, Run
        <5>2. [run[w].report EXCEPT !.radar = s] \in Report
          BY <2>r, <3>1 DEF Run, Report
        <5>3. run' = [run EXCEPT ![w] = [run[w] EXCEPT !.at = "report",
                 !.diagnostic = "COMPLETED", !.review = routed, !.score = s,
                 !.report = [run[w].report EXCEPT !.radar = s]]]
          BY <5>1, Zenon
        <5>4. QED BY <5>2, <5>3, <2>r, <3>1 DEF Run
      <4>3. QED BY <2>3, <4>1, <4>2 DEF Score
    <3>3. report' \in [Jobs -> Report]
      BY <2>3, <2>j, <2>r, <3>1 DEF Score, Report, Flushed
    <3>4. diagnostic' \in [Jobs -> DiagnosticStatus]
      BY <2>3, <2>j, <2>r, <3>1 DEF Score, Flushed
    <3>5. review' \in [Jobs -> ReviewStatus]
      BY <2>3, <2>j, <2>r, <3>1 DEF Score, Flushed, Run
    <3>6. QED BY <2>3, <3>2, <3>3, <3>4, <3>5 DEF Score
  <2>4. CASE StorePdf(w)
    <3>1. run' \in [Workers -> Run] /\ bucket' \in [Jobs -> Result]
      BY <2>4, <2>j, <2>r DEF StorePdf, Run
    <3>2. QED BY <2>4, <3>1 DEF StorePdf
  <2>5. ASSUME NEW i \in Result, Publish(w, i) PROVE PTypeOK'
    <3>1. "READY" \in ReportStatus /\ "BILAN_READY" \in DiagnosticStatus /\ NoScore \in Result
      BY DEF ReportStatus, DiagnosticStatus, Result
    <3> DEFINE new == [status |-> Flushed(run[w].report.status, "READY", report[j].status),
                       radar |-> report[j].radar,
                       insights |-> IF i # NoScore THEN i
                                    ELSE Flushed(run[w].report.insights, NoScore, report[j].insights),
                       pdf |-> Flushed(run[w].report.pdf, run[w].at = "pdf", report[j].pdf)]
    <3>2. new \in Report
      <4>1. Flushed(run[w].report.pdf, run[w].at = "pdf", report[j].pdf) \in BOOLEAN
        BY <2>r DEF Flushed, Report, Run
      <4>2. QED BY <3>1, <2>r, <4>1 DEF Flushed, Report, Run
    <3>3. report' = [report EXCEPT ![j] = new]
      BY <2>5 DEF Publish
    <3>4. QED
      <4> HIDE DEF new, j
      <4>1. report' \in [Jobs -> Report]
        BY <2>j, <3>2, <3>3
      <4>2. run' \in [Workers -> Run] /\ diagnostic' \in [Jobs -> DiagnosticStatus]
        BY <2>5, <3>1, <1>i, <2>j DEF Publish
      <4>3. QED BY <2>5, <4>1, <4>2 DEF Publish
  <2>6. CASE Raise(w)
    BY <2>6, <1>i DEF Raise
  <2>7. QED BY <1>3, <2>1, <2>2, <2>3, <2>4, <2>5, <2>6 DEF Handle
<1>4. ASSUME NEW w \in Workers, WorkerDies(w) PROVE PTypeOK'
  BY <1>4, <1>i DEF WorkerDies
<1>5. ASSUME NEW w \in Workers, NEW j \in Jobs, CleanUp(w, j) PROVE PTypeOK'
  <2>r. run[w] \in Run /\ report[j] \in Report /\ diagnostic[j] \in DiagnosticStatus
    OBVIOUS
  <2>1. CASE LoadForCleanup(w, j)
    <3>1. run' \in [Workers -> Run]
      BY <2>1, <2>r DEF LoadForCleanup, Run
    <3>2. QED BY <2>1, <3>1 DEF LoadForCleanup
  <2>2. CASE CommitCleanup(w, j)
    <3>1. "READY" \in ReportStatus /\ "FAILED" \in ReportStatus
          /\ "BILAN_READY" \in DiagnosticStatus
      BY DEF ReportStatus, DiagnosticStatus
    <3>2. report' \in [Jobs -> Report]
      BY <2>2, <3>1, CleanupWrites, ReportWrites
    <3>3. diagnostic' \in [Jobs -> DiagnosticStatus]
      BY <2>2, <2>r, <3>1 DEF CommitCleanup, Flushed
    <3>4. QED BY <2>2, <3>2, <3>3, <1>i DEF CommitCleanup
  <2>3. CASE CleanupFails(w, j)
    BY <2>3, <1>i DEF CleanupFails
  <2>4. QED BY <1>5, <2>1, <2>2, <2>3 DEF CleanUp
<1>6. CASE Analyst
  <2>1. ASSUME NEW j \in Jobs, AdjustScores(j) \/ EditReport(j) PROVE PTypeOK'
    <3>1. report[j] \in Report /\ Human \in Result
      BY DEF Result
    <3>2. report' \in [Jobs -> Report]
      BY <2>1, <3>1, ReportWrites DEF AdjustScores, EditReport
    <3>3. edits' \in 0..MaxEdits
      BY <2>1 DEF AdjustScores, EditReport
    <3>4. QED BY <2>1, <3>2, <3>3 DEF AdjustScores, EditReport
  <2>2. ASSUME NEW c \in Curators, NEW j \in Jobs, ReadProject(c, j) PROVE PTypeOK'
    BY <2>2 DEF ReadProject
  <2>3. ASSUME NEW c \in Curators, NEW t \in ReviewStatus, MoveReview(c, t) PROVE PTypeOK'
    <3>1. review' \in [Jobs -> ReviewStatus]
      BY <2>3 DEF MoveReview, Flushed
    <3>2. QED BY <2>3, <3>1, <1>i DEF MoveReview
  <2>4. QED BY <1>6, <2>1, <2>2, <2>3 DEF Analyst
<1>7. CASE UNCHANGED pvars
  BY <1>7 DEF pvars
<1>8. QED BY <1>1, <1>2, <1>3, <1>4, <1>5, <1>6, <1>7 DEF PNext

\* The rows, the bucket and the memories of handlers, clean-ups and curators keep their types,
\* in every environment: no handler works for no job.
THEOREM PipelineTypeCorrect == PSpec => [](PTypeOK /\ HoldsInProcess)
<1>1. PTypeOK /\ HoldsInProcess /\ [PNext]_pvars => HoldsInProcess'
  BY HoldsStep, PipelineStepIsQueueStep DEF PTypeOK
<1>2. QED BY <1>1, PTypeInit, PTypeStep, PTL DEF PSpec

-----------------------------------------------------------------------------
(* The publication.                                                        *)

LEMMA PublicationInit == PInit => PublicationInv
<1> SUFFICES ASSUME PInit PROVE PublicationInv
  OBVIOUS
<1>1. CalmInv
  BY CalmInit DEF PInit
<1>2. \A j \in Jobs : RowAgrees(j)
  BY ScoresAssumption DEF PInit, Init, RowAgrees, Blank
<1>3. ASSUME NEW w \in Workers PROVE HandlerIsCurrent(w) /\ CleanupIsCurrent(w)
  BY <1>3 DEF PInit, Init, HandlerIsCurrent, CleanupIsCurrent, Idle, Handling
<1>4. QED BY <1>1, <1>2, <1>3 DEF PublicationInv, AllAgree

\* What the invariant says of one worker, and of the jobs another one holds.
LEMMA WorkerFacts ==
    ASSUME PTypeOK, PublicationInv, NEW w \in Workers
    PROVE  /\ HandlerIsCurrent(w) /\ CleanupIsCurrent(w)
           /\ run[w].at \in Handling => pc[w] = "run"
           /\ pc[w] \in {"run", "succeeded", "raised"}
                  => /\ held[w] \in Jobs /\ status[held[w]] = "PROCESSING"
                     /\ cleaning[w] = {} /\ run[w].at # "cleanup"
           /\ pc[w] \notin {"run", "succeeded", "raised"} => held[w] = NoJob
           /\ pc[w] = "succeeded" => report[held[w]].status = "READY"
           /\ cleaning[w] # {} => held[w] = NoJob
           /\ \A j \in cleaning[w] : /\ j \in Jobs /\ status[j] = "FAILED"
                                     /\ \A v \in Workers : j \in cleaning[v] => v = w
           /\ run[w].at = "cleanup" => run[w].job \in cleaning[w]
           /\ \A v \in Workers \ {w} : held[w] \in Jobs => held[v] # held[w]
<1>1. HandlerIsCurrent(w) /\ CleanupIsCurrent(w)
  BY DEF PublicationInv, AllAgree
<1>2. /\ held[w] # NoJob <=> pc[w] \in {"run", "succeeded", "raised"}
      /\ held[w] # NoJob => held[w] \in Jobs /\ status[held[w]] = "PROCESSING"
  BY DEF PublicationInv, CalmInv, LoopConsistent, ClaimIsCurrent, PTypeOK, TypeOK
<1>3. \A v \in Workers \ {w} : held[w] \in Jobs => held[v] # held[w]
  BY JobsAssumption DEF PublicationInv, CalmInv, OneHolder, Holds
<1>4. cleaning[w] \subseteq Jobs
  BY DEF PTypeOK, TypeOK
<1>5. QED BY <1>1, <1>2, <1>3, <1>4 DEF HandlerIsCurrent, CleanupIsCurrent

\* A step that writes no project, no report and no PDF keeps the rows and the memories in
\* agreement, if it forgets whole memories only and completes published diagnostics only.
LEMMA QuietStep ==
    ASSUME PTypeOK, PublicationInv, UNCHANGED <<diagnostic, report, bucket>>,
           \A j \in Jobs : /\ status'[j] = "ABSENT" <=> status[j] = "ABSENT"
                           /\ status'[j] = "COMPLETED" => report[j].status = "READY",
           \A w \in Workers :
              /\ run'[w] = Idle \/ run'[w] = run[w]
              /\ run'[w].at \in Handling => pc'[w] = pc[w] /\ held'[w] = held[w]
              /\ run'[w].at = "cleanup" => run[w].job \in cleaning'[w]
              /\ pc'[w] = "succeeded" => report[held'[w]].status = "READY"
              /\ cleaning'[w] # {} => held'[w] = NoJob
              /\ \A j \in cleaning'[w] :
                     status'[j] = "FAILED" /\ \A v \in Workers : j \in cleaning'[v] => v = w
    PROVE  AllAgree'
<1>1. \A j \in Jobs : RowAgrees(j)'
  BY DEF PublicationInv, AllAgree, RowAgrees, Shows
<1>2. ASSUME NEW w \in Workers PROVE HandlerIsCurrent(w)'
  <2>1. CASE run'[w] = Idle
    BY <2>1 DEF HandlerIsCurrent, Idle, Handling
  <2>2. CASE run'[w] = run[w]
    BY <2>2, WorkerFacts DEF HandlerIsCurrent, Handling
  <2>3. QED BY <2>1, <2>2
<1>3. ASSUME NEW w \in Workers PROVE CleanupIsCurrent(w)'
  <2>1. CASE run'[w] = Idle
    BY <2>1 DEF CleanupIsCurrent, Idle
  <2>2. CASE run'[w] = run[w]
    BY <2>2, WorkerFacts DEF CleanupIsCurrent
  <2>3. QED BY <2>1, <2>2
<1>4. QED BY <1>1, <1>2, <1>3 DEF AllAgree

\* Who writes the rows of a job disturbs neither the other jobs nor the other workers: none of them
\* holds it or cleans up after it.
LEMMA OthersUndisturbed ==
    ASSUME PTypeOK, PublicationInv, NEW j \in Jobs, NEW W \in SUBSET Workers,
           \A k \in Jobs \ {j} :
              /\ diagnostic'[k] = diagnostic[k] /\ report'[k] = report[k]
              /\ bucket'[k] = bucket[k] /\ status'[k] = status[k],
           \A v \in Workers \ W :
              /\ held[v] # j /\ j \notin cleaning[v]
              /\ run'[v] = run[v] /\ pc'[v] = pc[v] /\ held'[v] = held[v],
           \A v \in Workers : cleaning'[v] \subseteq cleaning[v],
           \A v \in Workers \ W : cleaning'[v] = cleaning[v],
           RowAgrees(j)', \A w \in W : HandlerIsCurrent(w)' /\ CleanupIsCurrent(w)'
    PROVE  AllAgree'
<1>1. ASSUME NEW k \in Jobs \ {j} PROVE RowAgrees(k)'
  BY <1>1 DEF PublicationInv, AllAgree, RowAgrees, Shows
<1>2. ASSUME NEW v \in Workers \ W PROVE HandlerIsCurrent(v)'
  <2>1. pc[v] \in {"run", "succeeded"} => held[v] \in Jobs \ {j}
    BY <1>2, WorkerFacts
  <2>2. HandlerIsCurrent(v)
    BY <1>2, WorkerFacts
  <2>3. QED BY <1>2, <2>1, <2>2 DEF HandlerIsCurrent, Handling
<1>3. ASSUME NEW v \in Workers \ W PROVE CleanupIsCurrent(v)'
  <2>1. CleanupIsCurrent(v) /\ cleaning[v] \subseteq Jobs \ {j}
    BY <1>3, WorkerFacts
  <2>2. QED BY <1>3, <2>1 DEF CleanupIsCurrent
<1>4. QED BY <1>1, <1>2, <1>3 DEF AllAgree

LEMMA QueueKeepsPublication ==
    ASSUME PTypeOK, PublicationInv, QueueStep, RetriesWait
    PROVE  AllAgree'
<1> USE DEF QueueStep, business, analysts
<1>j. ASSUME NEW j \in Jobs
      PROVE  status[j] = "COMPLETED" => report[j].status = "READY"
  BY <1>j DEF PublicationInv, AllAgree, RowAgrees
<1>t. /\ status \in [Jobs -> RowStatus] /\ pc \in [Workers -> WorkerPC]
      /\ held \in [Workers -> Jobs \cup {NoJob}] /\ cleaning \in [Workers -> SUBSET Jobs]
      /\ NoJob \notin Jobs
  BY JobsAssumption DEF PTypeOK, TypeOK
<1>1. CASE Tick
  BY <1>1, <1>j, WorkerFacts, QuietStep DEF Tick, workers
<1>2. ASSUME NEW j \in Jobs, Requeue(j) PROVE AllAgree'
  <2>1. \A w \in Workers : j \notin cleaning[w]
    BY <1>2, WorkerFacts, <1>t DEF Requeue, RetriesWait
  <2>2. status[j] # "ABSENT"
    BY <1>2, RequeueAssumption DEF Requeue, JobStatus, Waiting, Terminal
  <2>3. QED BY <1>2, <2>1, <2>2, <1>j, <1>t, WorkerFacts, QuietStep DEF Requeue, workers
<1>3. ASSUME NEW w \in Workers, RecoverStale(w) PROVE AllAgree'
  BY <1>3, <1>j, <1>t, WorkerFacts, QuietStep DEF RecoverStale, Stale, Exhausted
<1>4. ASSUME NEW w \in Workers, NothingToClaim(w) \/ Heartbeat(w) \/ HeartbeatDies(w)
      PROVE AllAgree'
  BY <1>4, <1>j, <1>t, WorkerFacts, QuietStep
  DEF NothingToClaim, Heartbeat, HeartbeatDies, rows, workers
<1>5. ASSUME NEW w \in Workers, Ack(w) PROVE AllAgree'
  <2>1. CASE Complete(w)
    BY <2>1, <1>j, <1>t, WorkerFacts, QuietStep DEF Complete, Release
  <2>2. CASE FailRetry(w)
    BY <2>2, <1>j, <1>t, WorkerFacts, QuietStep DEF FailRetry, Release
  <2>3. CASE FailFinal(w)
    BY <2>3, <1>j, <1>t, WorkerFacts, QuietStep DEF FailFinal, Release
  <2>4. QED BY <1>5, <2>1, <2>2, <2>3 DEF Ack
<1>6. ASSUME NEW w \in Workers, NEW j \in Jobs, Claim(w, j) PROVE AllAgree'
  BY <1>6, <1>j, <1>t, WorkerFacts, QuietStep DEF Claim, Eligible, Waiting
<1>7. QED BY <1>1, <1>2, <1>3, <1>4, <1>5, <1>6

LEMMA StartKeepsPublication ==
    ASSUME PTypeOK, PublicationInv, NEW j \in Jobs, StartDiagnostic(j)
    PROVE  AllAgree'
<1>1. /\ status[j] = "ABSENT" /\ status' = [status EXCEPT ![j] = "PENDING"]
      /\ diagnostic' = [diagnostic EXCEPT ![j] = "IN_PROGRESS"]
      /\ report' = [report EXCEPT ![j] = Blank("PENDING")]
      /\ UNCHANGED <<bucket, run, pc, held, cleaning>>
  BY DEF StartDiagnostic, Enqueue, workers
<1>2. RowAgrees(j)'
  <2>1. report'[j] = Blank("PENDING") /\ diagnostic'[j] = "IN_PROGRESS" /\ status'[j] = "PENDING"
    BY <1>1 DEF PTypeOK, TypeOK
  <2>2. QED BY <2>1 DEF RowAgrees, Blank
<1>3. \A v \in Workers : held[v] # j /\ j \notin cleaning[v]
  BY <1>1, WorkerFacts, JobsAssumption
<1>4. QED
  <2>1. \A k \in Jobs \ {j} :
          /\ diagnostic'[k] = diagnostic[k] /\ report'[k] = report[k]
          /\ bucket'[k] = bucket[k] /\ status'[k] = status[k]
    BY <1>1
  <2>2. /\ {} \in SUBSET Workers
        /\ \A v \in {} : HandlerIsCurrent(v)' /\ CleanupIsCurrent(v)'
        /\ \A v \in Workers \ {} :
              /\ held[v] # j /\ j \notin cleaning[v]
              /\ run'[v] = run[v] /\ pc'[v] = pc[v] /\ held'[v] = held[v]
        /\ \A v \in Workers : cleaning'[v] \subseteq cleaning[v]
        /\ \A v \in Workers \ {} : cleaning'[v] = cleaning[v]
    BY <1>1, <1>3
  <2>3. QED BY <1>2, <2>1, <2>2, OthersUndisturbed, Zenon

\* The steps of a handler, j being the job its worker holds.
LEMMA HandlerKeepsPublication ==
    ASSUME PTypeOK, PTypeOK', PublicationInv, NEW w \in Workers, Handle(w)
    PROVE  AllAgree'
<1>0. PICK j \in Jobs : j = held[w] /\ pc[w] = "run" /\ status[j] = "PROCESSING"
  BY WorkerFacts DEF Handle, LoadProject, LoadReport, Score, StorePdf, Publish, Raise, Finish
<1>1. /\ run[w] \in Run /\ report[j] \in Report /\ RowAgrees(j) /\ HandlerIsCurrent(w)
      /\ cleaning[w] = {} /\ run[w].at # "cleanup"
  BY <1>0, WorkerFacts DEF PTypeOK, PublicationInv, AllAgree
<1>o. \A v \in Workers \ {w} : held[v] # j /\ j \notin cleaning[v]
  BY <1>0, WorkerFacts
<1>q. ASSUME UNCHANGED <<diagnostic, report, bucket>>, run' = [run EXCEPT ![w] = Idle],
             \/ Finish(w, "raised")
             \/ Finish(w, "succeeded") /\ report[j].status = "READY"
      PROVE  AllAgree'
  <2>1. /\ UNCHANGED <<status, held, cleaning>>
        /\ \/ pc' = [pc EXCEPT ![w] = "raised"]
           \/ pc' = [pc EXCEPT ![w] = "succeeded"] /\ report[j].status = "READY"
    BY <1>q DEF Finish, rows
  <2>2. pc' \in [Workers -> WorkerPC] /\ run' \in [Workers -> Run]
    BY DEF PTypeOK, TypeOK
  <2>3. \A k \in Jobs : status[k] = "COMPLETED" => report[k].status = "READY"
    BY DEF PublicationInv, AllAgree, RowAgrees
  <2>4. \A v \in Workers : pc'[v] = "succeeded" => report[held'[v]].status = "READY"
    BY <1>0, <2>1, <2>2, WorkerFacts DEF PTypeOK, TypeOK
  <2>5. \A v \in Workers : /\ run'[v] = Idle \/ run'[v] = run[v]
                           /\ run'[v].at \in Handling => pc'[v] = pc[v] /\ held'[v] = held[v]
                           /\ run'[v].at = "cleanup" => run[v].job \in cleaning'[v]
    BY <1>q, <2>1, WorkerFacts DEF PTypeOK, TypeOK, Idle, Handling
  <2>6. QED BY <1>q, <2>1, <2>3, <2>4, <2>5, WorkerFacts, QuietStep
<1>a. ASSUME \A k \in Jobs \ {j} : /\ diagnostic'[k] = diagnostic[k] /\ report'[k] = report[k]
                                    /\ bucket'[k] = bucket[k],
             \A v \in Workers \ {w} : run'[v] = run[v] /\ pc'[v] = pc[v],
             UNCHANGED <<status, held, cleaning>>,
             RowAgrees(j)', HandlerIsCurrent(w)', run'[w].at # "cleanup"
      PROVE  AllAgree'
  <2>1. CleanupIsCurrent(w)'
    BY <1>1, <1>a DEF CleanupIsCurrent
  <2>2. /\ {w} \in SUBSET Workers
        /\ \A v \in {w} : HandlerIsCurrent(v)' /\ CleanupIsCurrent(v)'
    BY <1>a, <2>1
  <2>3. /\ \A k \in Jobs \ {j} :
              /\ diagnostic'[k] = diagnostic[k] /\ report'[k] = report[k]
              /\ bucket'[k] = bucket[k] /\ status'[k] = status[k]
        /\ \A v \in Workers \ {w} :
              /\ held[v] # j /\ j \notin cleaning[v]
              /\ run'[v] = run[v] /\ pc'[v] = pc[v] /\ held'[v] = held[v]
        /\ \A v \in Workers : cleaning'[v] \subseteq cleaning[v]
        /\ \A v \in Workers \ {w} : cleaning'[v] = cleaning[v]
    BY <1>o, <1>a
  <2>4. QED BY <1>a, <2>2, <2>3, OthersUndisturbed, Zenon
<1>2. CASE LoadProject(w)
  <2>1. /\ run'[w].at = "project" /\ run'[w].diagnostic = diagnostic[j]
        /\ \A v \in Workers \ {w} : run'[v] = run[v]
    BY <1>0, <1>2 DEF LoadProject, PTypeOK, Run
  <2>2. UNCHANGED <<business, vars>>
    BY <1>2 DEF LoadProject
  <2>3. HandlerIsCurrent(w)' /\ RowAgrees(j)'
    BY <1>0, <1>1, <2>1, <2>2 DEF HandlerIsCurrent, RowAgrees, Shows, Handling, business, vars, rows, workers
  <2>4. QED BY <1>a, <2>1, <2>2, <2>3 DEF business, vars, rows, workers
<1>3. CASE LoadReport(w)
  <2>1. CASE report[j].status = "READY" /\ run[w].diagnostic = "BILAN_READY"
    BY <1>0, <1>3, <1>q, <2>1 DEF LoadReport, business
  <2>2. CASE ~ (report[j].status = "READY" /\ run[w].diagnostic = "BILAN_READY")
    <3>1. /\ run'[w].at = "llm" /\ run'[w].diagnostic = run[w].diagnostic
          /\ run'[w].report = report[j]
          /\ \A v \in Workers \ {w} : run'[v] = run[v]
      BY <1>0, <1>1, <1>3, <2>2 DEF LoadReport, PTypeOK, Run
    <3>2. UNCHANGED <<business, vars>>
      BY <1>0, <1>3, <2>2 DEF LoadReport
    <3>3. run[w].diagnostic = diagnostic[j] /\ report[j].status # "READY" /\ ~ report[j].pdf
      BY <1>0, <1>1, <1>3, <2>2 DEF LoadReport, HandlerIsCurrent, RowAgrees, Handling
    <3>4. HandlerIsCurrent(w)' /\ RowAgrees(j)'
      BY <1>0, <1>1, <3>1, <3>2, <3>3
      DEF HandlerIsCurrent, RowAgrees, Shows, Handling, business, vars, rows, workers
    <3>5. QED BY <1>a, <3>1, <3>2, <3>4 DEF business, vars, rows, workers
  <2>3. QED BY <2>1, <2>2
<1>4. ASSUME NEW s \in Scores, NEW n \in BOOLEAN, Score(w, s, n) PROVE AllAgree'
  <2>1. CASE MayBecome(run[w].diagnostic, "COMPLETED")
    <3>1. /\ run'[w].at = "report" /\ run'[w].diagnostic = "COMPLETED" /\ run'[w].score = s
          /\ run'[w].report.status = run[w].report.status
          /\ run'[w].report.pdf = run[w].report.pdf
          /\ \A v \in Workers \ {w} : run'[v] = run[v]
      BY <1>1, <1>4, <2>1 DEF Score, PTypeOK, Run, Report
    <3>2. report' = [report EXCEPT ![j].radar = Flushed(run[w].report.radar, s, report[j].radar)]
      BY <1>0, <1>4, <2>1 DEF Score
    <3>3. diagnostic' = [diagnostic EXCEPT ![j] = Flushed(run[w].diagnostic, "COMPLETED", diagnostic[j])]
      BY <1>0, <1>4, <2>1 DEF Score
    <3>4. UNCHANGED <<vars, bucket>>
      BY <1>4, <2>1 DEF Score
    <3>5. /\ report'[j].radar \in {s, Human} /\ report'[j].status = report[j].status
          /\ report'[j].insights = report[j].insights /\ report'[j].pdf = report[j].pdf
          /\ \A k \in Jobs \ {j} : report'[k] = report[k]
      BY <1>0, <1>1, <1>4, <3>2 DEF Score, Flushed, HandlerIsCurrent, PTypeOK, Report
    <3>6. /\ diagnostic'[j] = "COMPLETED" /\ \A k \in Jobs \ {j} : diagnostic'[k] = diagnostic[k]
          /\ diagnostic[j] # "NONE"
      BY <1>0, <1>1, <1>4, <3>3, <2>1
      DEF Score, Flushed, HandlerIsCurrent, Handling, RowAgrees, PTypeOK, MayBecome
    <3>7. /\ report[j].status = run[w].report.status /\ report[j].status # "READY"
          /\ ~ run[w].report.pdf
      BY <1>0, <1>1, <1>4 DEF Score, HandlerIsCurrent
    <3>8. HandlerIsCurrent(w)'
      BY <1>0, <3>1, <3>4, <3>5, <3>6, <3>7
      DEF HandlerIsCurrent, Handling, vars, workers
    <3>9. RowAgrees(j)'
      BY <1>0, <1>1, <3>4, <3>5, <3>6, <3>7, ScoresAssumption DEF RowAgrees, vars, rows
    <3>10. QED BY <1>a, <3>1, <3>4, <3>5, <3>6, <3>8, <3>9 DEF vars, rows, workers
  <2>2. CASE ~ MayBecome(run[w].diagnostic, "COMPLETED")
    BY <1>0, <1>4, <1>q, <2>2 DEF Score, business
  <2>3. QED BY <2>1, <2>2
<1>5. CASE StorePdf(w)
  <2>1. /\ run'[w].at = "pdf" /\ run'[w].diagnostic = run[w].diagnostic
        /\ run'[w].report = run[w].report /\ run'[w].score = run[w].score
        /\ \A v \in Workers \ {w} : run'[v] = run[v]
    BY <1>1, <1>5 DEF StorePdf, PTypeOK, Run
  <2>2. /\ UNCHANGED <<vars, diagnostic, report>>
        /\ bucket'[j] = run[w].score /\ \A k \in Jobs \ {j} : bucket'[k] = bucket[k]
    BY <1>0, <1>5 DEF StorePdf, PTypeOK
  <2>3. HandlerIsCurrent(w)' /\ RowAgrees(j)'
    BY <1>0, <1>1, <1>5, <2>1, <2>2
    DEF StorePdf, HandlerIsCurrent, RowAgrees, Handling, vars, rows, workers
  <2>4. QED BY <1>a, <2>1, <2>2, <2>3 DEF vars, rows, workers
<1>6. ASSUME NEW i \in Result, Publish(w, i) PROVE AllAgree'
  <2>1. /\ report'[j].status = "READY" /\ report'[j].radar = report[j].radar
        /\ report'[j].insights \in {run[w].score, NoScore, report[j].insights}
        /\ report'[j].pdf => run[w].at = "pdf"
        /\ \A k \in Jobs \ {j} : report'[k] = report[k]
    <3> DEFINE new == [status |-> Flushed(run[w].report.status, "READY", report[j].status),
                       radar |-> report[j].radar,
                       insights |-> IF i # NoScore THEN i
                                    ELSE Flushed(run[w].report.insights, NoScore, report[j].insights),
                       pdf |-> Flushed(run[w].report.pdf, run[w].at = "pdf", report[j].pdf)]
    <3>1. report' = [report EXCEPT ![j] = new]
      BY <1>0, <1>6 DEF Publish
    <3>2. run[w].report.status # "READY" /\ ~ report[j].pdf
      BY <1>0, <1>1, <1>6 DEF Publish, HandlerIsCurrent, RowAgrees
    <3>3. new.status = "READY" /\ new.radar = report[j].radar
      BY <3>2 DEF Flushed
    <3>4. new.insights \in {run[w].score, NoScore, report[j].insights}
      BY <1>6 DEF Flushed, Publish
    <3>5. new.pdf => run[w].at = "pdf"
      BY <3>2 DEF Flushed
    <3> HIDE DEF new
    <3>6. report'[j] = new /\ \A k \in Jobs \ {j} : report'[k] = report[k]
      BY <3>1 DEF PTypeOK
    <3>7. QED BY <3>3, <3>4, <3>5, <3>6
  <2>2. /\ diagnostic'[j] = "BILAN_READY" /\ \A k \in Jobs \ {j} : diagnostic'[k] = diagnostic[k]
        /\ run' = [run EXCEPT ![w] = Idle]
        /\ pc' = [pc EXCEPT ![w] = "succeeded"]
        /\ UNCHANGED <<bucket, held, cleaning, status>>
    BY <1>0, <1>6 DEF Publish, Finish, PTypeOK, rows
  <2>3. HandlerIsCurrent(w)' /\ run'[w].at # "cleanup"
    BY <1>0, <2>1, <2>2 DEF HandlerIsCurrent, Handling, Idle, PTypeOK, TypeOK
  <2>4. RowAgrees(j)'
    <3>1. /\ run[w].score \in Scores /\ report[j].radar \in {run[w].score, Human}
          /\ run[w].at = "pdf" => bucket[j] = run[w].score
      BY <1>0, <1>1, <1>6 DEF Publish, HandlerIsCurrent
    <3>2. report[j].insights \in {NoScore, Human}
      BY <1>0, <1>1, <1>6 DEF Publish, HandlerIsCurrent, RowAgrees
    <3>3. PICK s \in Scores : s = run[w].score
      BY <3>1
    <3>4. Shows(j, s)'
      BY <2>1, <2>2, <3>1, <3>2, <3>3 DEF Shows
    <3>5. report'[j].radar # NoScore
      BY <2>1, <3>1, ScoresAssumption
    <3>6. QED BY <1>0, <2>1, <2>2, <3>4, <3>5 DEF RowAgrees
  <2>5. \A v \in Workers \ {w} : run'[v] = run[v] /\ pc'[v] = pc[v]
    BY <2>2 DEF PTypeOK, TypeOK
  <2>6. QED BY <1>a, <2>1, <2>2, <2>3, <2>4, <2>5
<1>7. CASE Raise(w)
  BY <1>7, <1>q DEF Raise, business
<1>8. QED BY <1>2, <1>3, <1>4, <1>5, <1>6, <1>7 DEF Handle

\* The end of one clean-up, whatever it did: the worker forgets what it read.
LEMMA HookForgets ==
    ASSUME PTypeOK, PublicationInv, NEW w \in Workers, NEW j \in Jobs, TerminalHook(w, j),
           run'[w] = Idle
    PROVE  /\ j \in cleaning[w] /\ status[j] = "FAILED"
           /\ UNCHANGED <<status, pc, held>> /\ cleaning' = [cleaning EXCEPT ![w] = @ \ {j}]
           /\ HandlerIsCurrent(w)' /\ CleanupIsCurrent(w)'
           /\ \A v \in Workers \ {w} : held[v] # j /\ j \notin cleaning[v]
<1>1. /\ j \in cleaning[w] /\ status[j] = "FAILED"
      /\ UNCHANGED <<status, pc, held>> /\ cleaning' = [cleaning EXCEPT ![w] = @ \ {j}]
  BY WorkerFacts DEF TerminalHook, rows
<1>2. held[w] = NoJob /\ pc[w] # "succeeded"
  BY <1>1, WorkerFacts
<1>3. HandlerIsCurrent(w)'
  BY <1>1, <1>2 DEF HandlerIsCurrent, Handling, Idle
<1>4. \A v \in Workers : cleaning'[v] \subseteq cleaning[v]
  BY <1>1 DEF PTypeOK, TypeOK
<1>5. CleanupIsCurrent(w)'
  BY <1>1, <1>2, <1>4, WorkerFacts DEF CleanupIsCurrent, Idle
<1>6. \A v \in Workers \ {w} : held[v] # j /\ j \notin cleaning[v]
  <2>1. ASSUME NEW v \in Workers \ {w}, held[v] = j PROVE FALSE
    <3>1. pc[v] \in {"run", "succeeded", "raised"} /\ j # NoJob
      BY <2>1, WorkerFacts, JobsAssumption
    <3>2. status[held[v]] = "PROCESSING"
      BY <3>1, WorkerFacts
    <3>3. QED BY <1>1, <2>1, <3>2
  <2>2. ASSUME NEW v \in Workers \ {w}, j \in cleaning[v] PROVE FALSE
    BY <1>1, <2>2, WorkerFacts
  <2>3. QED BY <2>1, <2>2
<1>7. QED BY <1>1, <1>3, <1>5, <1>6

LEMMA CleanUpKeepsPublication ==
    ASSUME PTypeOK, PTypeOK', PublicationInv, NEW w \in Workers, NEW j \in Jobs, CleanUp(w, j)
    PROVE  AllAgree'
<1>r. /\ run[w] \in Run /\ report[j] \in Report /\ RowAgrees(j) /\ CleanupIsCurrent(w)
      /\ HandlerIsCurrent(w)
  BY WorkerFacts DEF PTypeOK, PublicationInv, AllAgree
\* The clean-up wrote the rows of j and went: the others are not concerned.
<1>a. ASSUME TerminalHook(w, j), run' = [run EXCEPT ![w] = Idle], RowAgrees(j)',
             \A k \in Jobs \ {j} : /\ diagnostic'[k] = diagnostic[k] /\ report'[k] = report[k]
                                    /\ bucket'[k] = bucket[k]
      PROVE  AllAgree'
  <2>0. run'[w] = Idle
    BY <1>a DEF PTypeOK
  <2>1. /\ UNCHANGED <<status, pc, held>> /\ cleaning' = [cleaning EXCEPT ![w] = @ \ {j}]
        /\ HandlerIsCurrent(w)' /\ CleanupIsCurrent(w)'
        /\ \A v \in Workers \ {w} : held[v] # j /\ j \notin cleaning[v]
    BY <1>a, <2>0, HookForgets
  <2>2. /\ {w} \in SUBSET Workers
        /\ \A v \in {w} : HandlerIsCurrent(v)' /\ CleanupIsCurrent(v)'
    BY <2>1
  <2>3. /\ \A k \in Jobs \ {j} :
              /\ diagnostic'[k] = diagnostic[k] /\ report'[k] = report[k]
              /\ bucket'[k] = bucket[k] /\ status'[k] = status[k]
        /\ \A v \in Workers \ {w} :
              /\ held[v] # j /\ j \notin cleaning[v]
              /\ run'[v] = run[v] /\ pc'[v] = pc[v] /\ held'[v] = held[v]
        /\ \A v \in Workers : cleaning'[v] \subseteq cleaning[v]
        /\ \A v \in Workers \ {w} : cleaning'[v] = cleaning[v]
    BY <1>a, <2>1 DEF PTypeOK, TypeOK
  <2>4. QED BY <1>a, <2>2, <2>3, OthersUndisturbed, Zenon
\* The clean-up wrote nothing.
<1>q. ASSUME TerminalHook(w, j), run' = [run EXCEPT ![w] = Idle], UNCHANGED business
      PROVE  AllAgree'
  <2>1. RowAgrees(j)'
    BY <1>r, <1>q DEF RowAgrees, Shows, business, TerminalHook, rows
  <2>2. QED BY <1>a, <1>q, <2>1 DEF business
<1>1. CASE LoadForCleanup(w, j)
  <2>1. CASE report[j].status = "PENDING"
    <3>1. /\ run'[w].at = "cleanup" /\ run'[w].job = j /\ run'[w].report = report[j]
          /\ run'[w].diagnostic = diagnostic[j] /\ \A v \in Workers \ {w} : run'[v] = run[v]
          /\ UNCHANGED <<vars, business>> /\ j \in cleaning[w]
      BY <1>r, <1>1, <2>1 DEF LoadForCleanup, PTypeOK, Run
    <3>2. HandlerIsCurrent(w)'
      BY <1>r, <3>1 DEF HandlerIsCurrent, Handling, vars, rows, workers, business
    <3>3. CleanupIsCurrent(w)'
      BY <1>r, <3>1, <2>1 DEF CleanupIsCurrent, vars, rows, workers, business
    <3>4. RowAgrees(j)'
      BY <1>r, <3>1 DEF RowAgrees, Shows, vars, rows, business
    <3>5. \A v \in Workers \ {w} : HandlerIsCurrent(v)' /\ CleanupIsCurrent(v)'
      BY <3>1, WorkerFacts
      DEF HandlerIsCurrent, CleanupIsCurrent, Handling, vars, rows, workers, business
    <3>6. \A k \in Jobs : RowAgrees(k)'
      BY <3>1 DEF PublicationInv, AllAgree, RowAgrees, Shows, vars, rows, business
    <3>7. QED BY <3>2, <3>3, <3>5, <3>6 DEF AllAgree
  <2>2. CASE report[j].status # "PENDING"
    <3>1. TerminalHook(w, j) /\ UNCHANGED <<run, business>> /\ run[w].at = "idle"
      BY <1>1, <2>2 DEF LoadForCleanup
    <3>2. UNCHANGED <<status, pc, held>> /\ cleaning' = [cleaning EXCEPT ![w] = @ \ {j}]
      BY <3>1 DEF TerminalHook, rows
    <3>3. \A v \in Workers : cleaning'[v] \subseteq cleaning[v] /\ (v # w => cleaning'[v] = cleaning[v])
      BY <3>2 DEF PTypeOK, TypeOK
    <3>4. \A k \in Jobs : status[k] = "COMPLETED" => report[k].status = "READY"
      BY DEF PublicationInv, AllAgree, RowAgrees
    <3>5. QED BY <3>1, <3>2, <3>3, <3>4, WorkerFacts, QuietStep DEF business
  <2>3. QED BY <2>1, <2>2
<1>2. CASE CommitCleanup(w, j)
  <2>1. /\ TerminalHook(w, j) /\ run' = [run EXCEPT ![w] = Idle] /\ bucket' = bucket
        /\ run[w].at = "cleanup" /\ run[w].job = j
    BY <1>2 DEF CommitCleanup
  <2>2. /\ report[j].status = "PENDING" /\ run[w].diagnostic = diagnostic[j]
        /\ report[j].radar \in {run[w].report.radar, Human}
        /\ status[j] = "FAILED" /\ status' = status
    BY <1>r, <2>1, WorkerFacts DEF CleanupIsCurrent, TerminalHook, rows
  <2>3. ASSUME NEW t \in {"READY", "FAILED"}, report' = [report EXCEPT ![j].status = t]
        PROVE  /\ report'[j].status = t /\ report'[j].radar = report[j].radar
               /\ report'[j].insights = report[j].insights /\ report'[j].pdf = report[j].pdf
               /\ \A k \in Jobs \ {j} : report'[k] = report[k]
    BY <1>r, <2>3 DEF PTypeOK, Report
  <2>4. CASE run[w].report.radar = NoScore
    <3>1. report' = [report EXCEPT ![j].status = "FAILED"] /\ UNCHANGED diagnostic
      BY <1>2, <2>4 DEF CommitCleanup
    <3>2. RowAgrees(j)'
      BY <1>r, <2>1, <2>2, <2>3, <3>1 DEF RowAgrees
    <3>3. QED BY <1>a, <2>1, <2>3, <3>1, <3>2
  <2>5. CASE run[w].report.radar # NoScore /\ MayBecome(run[w].diagnostic, "BILAN_READY")
    <3>1. /\ report' = [report EXCEPT ![j].status = "READY"]
          /\ diagnostic' = [diagnostic EXCEPT ![j] =
                                Flushed(run[w].diagnostic, "BILAN_READY", diagnostic[j])]
      BY <1>2, <2>5 DEF CommitCleanup
    <3>2. diagnostic'[j] = "BILAN_READY" /\ \A k \in Jobs \ {j} : diagnostic'[k] = diagnostic[k]
      BY <2>2, <3>1 DEF Flushed, PTypeOK
    <3>3. report[j].radar \in Scores \cup {Human} /\ report[j].radar # NoScore
      BY <1>r, <2>2, <2>5, ScoresAssumption DEF Report, Result
    <3>4. PICK s \in Scores : report[j].radar \in {s, Human}
      BY <3>3, ScoresAssumption
    <3>5. report[j].insights \in {NoScore, Human} /\ ~ report[j].pdf
      BY <1>r, <2>2 DEF RowAgrees
    <3>6. Shows(j, s)'
      BY <2>3, <3>1, <3>4, <3>5 DEF Shows
    <3>7. RowAgrees(j)'
      BY <2>2, <2>3, <3>1, <3>2, <3>3, <3>6 DEF RowAgrees
    <3>8. QED BY <1>a, <2>1, <2>3, <3>1, <3>2, <3>7
  <2>6. CASE run[w].report.radar # NoScore /\ ~ MayBecome(run[w].diagnostic, "BILAN_READY")
    BY <1>2, <1>q, <2>6 DEF CommitCleanup, business
  <2>7. QED BY <2>4, <2>5, <2>6
<1>3. CASE CleanupFails(w, j)
  BY <1>3, <1>q DEF CleanupFails
<1>4. QED BY <1>1, <1>2, <1>3 DEF CleanUp

\* A hand on the radar or on the text of a report is a hand: every memory allows for it.
LEMMA AnalystKeepsPublication ==
    ASSUME PTypeOK, PublicationInv, Analyst
    PROVE  AllAgree'
<1>1. ASSUME NEW j \in Jobs, AdjustScores(j) \/ EditReport(j) PROVE AllAgree'
  <2>1. /\ UNCHANGED <<status, pc, held, cleaning, diagnostic, bucket, run>>
        /\ \/ report' = [report EXCEPT ![j].radar = Human]
           \/ report' = [report EXCEPT ![j].insights = Human]
    BY <1>1 DEF AdjustScores, EditReport, vars, rows, workers
  <2>2. \A k \in Jobs : /\ report'[k].status = report[k].status
                         /\ report'[k].pdf = report[k].pdf
                         /\ report'[k].radar \in {report[k].radar, Human}
                         /\ report'[k].insights \in {report[k].insights, Human}
    BY <2>1 DEF PTypeOK, Report
  <2>3. ASSUME NEW k \in Jobs PROVE RowAgrees(k)'
    <3>1. RowAgrees(k)
      BY DEF PublicationInv, AllAgree
    <3>2. ASSUME NEW s \in Scores, Shows(k, s) PROVE Shows(k, s)'
      BY <2>1, <2>2, <3>2 DEF Shows
    <3>3. QED BY <2>1, <2>2, <3>1, <3>2, ScoresAssumption DEF RowAgrees
  <2>4. ASSUME NEW w \in Workers PROVE HandlerIsCurrent(w)'
    <3>1. /\ run[w].at \in Handling => held[w] \in Jobs
          /\ pc[w] = "succeeded" => held[w] \in Jobs
      BY WorkerFacts
    <3>2. HandlerIsCurrent(w)
      BY WorkerFacts
    <3>3. QED BY <2>1, <2>2, <3>1, <3>2 DEF HandlerIsCurrent, Handling
  <2>5. ASSUME NEW w \in Workers PROVE CleanupIsCurrent(w)'
    <3>1. CleanupIsCurrent(w) /\ cleaning[w] \subseteq Jobs
      BY WorkerFacts
    <3>2. QED BY <2>1, <2>2, <3>1 DEF CleanupIsCurrent
  <2>6. QED BY <2>3, <2>4, <2>5 DEF AllAgree
<1>2. CASE UNCHANGED <<vars, diagnostic, report, bucket, run>>
  BY <1>2 DEF PublicationInv, AllAgree, RowAgrees, Shows, HandlerIsCurrent, CleanupIsCurrent,
              vars, rows, workers
<1>3. ASSUME NEW c \in Curators, NEW j \in Jobs, ReadProject(c, j) PROVE AllAgree'
  BY <1>2, <1>3 DEF ReadProject, business
<1>4. ASSUME NEW c \in Curators, NEW t \in ReviewStatus, MoveReview(c, t) PROVE AllAgree'
  BY <1>2, <1>4 DEF MoveReview
<1>5. QED BY <1>1, <1>3, <1>4 DEF Analyst

LEMMA DeathKeepsPublication ==
    ASSUME PTypeOK, PTypeOK', PublicationInv, NEW w \in Workers, WorkerDies(w)
    PROVE  AllAgree'
<1>1. /\ UNCHANGED <<status, diagnostic, report, bucket>> /\ run' = [run EXCEPT ![w] = Idle]
      /\ pc' = [pc EXCEPT ![w] = "loop"] /\ held' = [held EXCEPT ![w] = NoJob]
      /\ cleaning' = [cleaning EXCEPT ![w] = {}]
  BY DEF WorkerDies, Crash, Release, rows, business
<1>2. \A k \in Jobs : status[k] = "COMPLETED" => report[k].status = "READY"
  BY DEF PublicationInv, AllAgree, RowAgrees
<1>3. /\ run'[w] = Idle /\ pc'[w] = "loop" /\ cleaning'[w] = {}
      /\ \A v \in Workers \ {w} : /\ run'[v] = run[v] /\ pc'[v] = pc[v] /\ held'[v] = held[v]
                                   /\ cleaning'[v] = cleaning[v]
  BY <1>1 DEF PTypeOK, TypeOK
<1>4. QED BY <1>1, <1>2, <1>3, WorkerFacts, QuietStep DEF Idle, Handling

LEMMA PublicationStep ==
    Calm /\ PTypeOK /\ PTypeOK' /\ PublicationInv /\ [PNext]_pvars /\ RetriesWait
        => PublicationInv'
<1> SUFFICES ASSUME Calm, PTypeOK, PTypeOK', PublicationInv, [PNext]_pvars, RetriesWait
             PROVE  PublicationInv'
  OBVIOUS
<1>1. CalmInv'
  BY CalmStep, PipelineStepIsQueueStep DEF PTypeOK, PublicationInv
<1>2. CASE UNCHANGED pvars
  BY <1>2 DEF PublicationInv, AllAgree, RowAgrees, Shows, HandlerIsCurrent, CleanupIsCurrent,
              CalmInv, LoopConsistent, ClaimIsCurrent, OneHolder, Holds, ClaimsCounted,
              pvars, business, vars, rows, workers
<1>3. CASE PNext
  BY <1>1, <1>3, QueueKeepsPublication, AnalystKeepsPublication, StartKeepsPublication,
     HandlerKeepsPublication, DeathKeepsPublication, CleanUpKeepsPublication
  DEF PNext, PublicationInv
<1>4. QED BY <1>2, <1>3

\* In a calm environment where a failed job is retried only after its clean-up, the job, the
\* report, the project and the memories of all who work on them agree in every state.
THEOREM RowsAndMemoriesAgree ==
    ASSUME Calm PROVE PSpec /\ [][RetriesWait]_pvars => []PublicationInv
<1>1. PTypeOK /\ PTypeOK' /\ PublicationInv /\ [PNext]_pvars /\ [RetriesWait]_pvars
          => PublicationInv'
  <2>1. UNCHANGED pvars => RetriesWait
    BY DEF pvars, vars, rows, RetriesWait
  <2>2. QED BY <2>1, PublicationStep
<1>2. QED BY <1>1, PublicationInit, PipelineTypeCorrect, PTL DEF PSpec

\* What the founder and the analysts rely on: a READY report and a project at BILAN_READY are
\* one thing, a job is completed for a published report only, no link dangles.
THEOREM PublicationIsConsistent ==
    ASSUME Calm PROVE PSpec /\ [][RetriesWait]_pvars => []PublicationAgrees
<1>1. PTypeOK /\ PublicationInv => PublicationAgrees
  <2> SUFFICES ASSUME PTypeOK, PublicationInv PROVE PublicationAgrees
    OBVIOUS
  <2>1. \A j \in Jobs : RowAgrees(j)
    BY DEF PublicationInv, AllAgree
  <2>2. ReadyTogether /\ CompletedMeansReady
    BY <2>1 DEF ReadyTogether, CompletedMeansReady, RowAgrees
  <2>3. ASSUME NEW j \in Jobs, report[j].pdf PROVE bucket[j] # NoScore
    BY <2>1, <2>3, ScoresAssumption DEF RowAgrees, Shows
  <2>4. QED BY <2>1, <2>2, <2>3 DEF PublicationAgrees, NothingDangles, RowAgrees
<1>2. QED BY <1>1, RowsAndMemoriesAgree, PipelineTypeCorrect, PTL

\* A published report shows the radar, the text and the PDF of one scoring.
LEMMA OneScoring == PTypeOK /\ PublicationInv => OneScoringShown
<1> SUFFICES ASSUME PTypeOK, PublicationInv, NEW j \in Jobs, report[j].status = "READY"
             PROVE  LET shown == {report[j].radar, report[j].insights}
                                     \cup (IF report[j].pdf THEN {bucket[j]} ELSE {})
                    IN  /\ report[j].radar # NoScore
                        /\ Cardinality(shown \ {NoScore, Human}) <= 1
  BY DEF OneScoringShown
<1> DEFINE work == ({report[j].radar, report[j].insights}
                       \cup (IF report[j].pdf THEN {bucket[j]} ELSE {})) \ {NoScore, Human}
<1>1. PICK s \in Scores : Shows(j, s)
  BY DEF PublicationInv, AllAgree, RowAgrees
<1>2. report[j].radar # NoScore
  BY <1>1, ScoresAssumption DEF Shows
<1>3. work = {} \/ work = {s}
  <2>1. work \subseteq {s}
    BY <1>1 DEF Shows
  <2>2. QED BY <2>1
<1>4. Cardinality(work) <= 1
  <2>1. CASE work = {}
    <3>1. Cardinality({}) = 0
      BY FS_EmptySet
    <3>2. QED BY <2>1, <3>1
  <2>2. CASE work = {s}
    <3>1. Cardinality({s}) = 1
      BY FS_Singleton
    <3>2. QED BY <2>2, <3>1
  <2>3. QED BY <1>3, <2>1, <2>2
<1>5. QED BY <1>2, <1>4

\* Also after retries of failed jobs, what is published comes from one scoring.
THEOREM OneScoringIsShown ==
    ASSUME Calm PROVE PSpec /\ [][RetriesWait]_pvars => []OneScoringShown
  BY OneScoring, RowsAndMemoriesAgree, PipelineTypeCorrect, PTL

-----------------------------------------------------------------------------
(* What a step does to the rows of one diagnostic.                         *)

Untouched(j) == report'[j] = report[j] /\ diagnostic'[j] = diagnostic[j]
Created(j) == status[j] = "ABSENT" /\ diagnostic[j] = "NONE" /\ report'[j] = Blank("PENDING")
Rescored(j) ==
    /\ status[j] = "PROCESSING" /\ report[j].status # "READY"
    /\ report'[j].status = report[j].status
    /\ diagnostic[j] \in {"IN_PROGRESS", "COMPLETED"} /\ diagnostic'[j] = "COMPLETED"
Published(j) ==
    /\ status[j] \in {"PROCESSING", "FAILED"} /\ report[j].status # "READY"
    /\ report'[j].status = "READY"
    /\ diagnostic[j] = "COMPLETED" /\ diagnostic'[j] = "BILAN_READY"
GivenUp(j) ==
    /\ status[j] = "FAILED" /\ report[j].status = "PENDING"
    /\ report'[j].status = "FAILED" /\ report'[j].radar \in {NoScore, Human}
    /\ diagnostic'[j] = diagnostic[j]
Edited(j) ==
    /\ report'[j].status = report[j].status
    /\ report'[j].radar \in {report[j].radar, Human}
    /\ report'[j].insights \in {report[j].insights, Human}
    /\ diagnostic'[j] = diagnostic[j]

RowStep(j) ==
    \/ Untouched(j) \/ Created(j) \/ Rescored(j) \/ Published(j) \/ GivenUp(j) \/ Edited(j)

LEMMA HandlerRowStep ==
    ASSUME PTypeOK, PublicationInv, NEW w \in Workers, Handle(w), NEW j \in Jobs
    PROVE  RowStep(j)
<1>0. PICK i \in Jobs : i = held[w] /\ pc[w] = "run" /\ status[i] = "PROCESSING"
  BY WorkerFacts DEF Handle, LoadProject, LoadReport, Score, StorePdf, Publish, Raise, Finish
<1>1. report[i] \in Report /\ RowAgrees(i) /\ HandlerIsCurrent(w)
  BY WorkerFacts DEF PTypeOK, PublicationInv, AllAgree
<1>u. ASSUME UNCHANGED <<report, diagnostic>> PROVE RowStep(j)
  BY <1>u DEF RowStep, Untouched
<1>2. CASE LoadProject(w) \/ LoadReport(w) \/ StorePdf(w) \/ Raise(w)
  BY <1>2, <1>u DEF LoadProject, LoadReport, StorePdf, Raise, business
<1>3. ASSUME NEW s \in Scores, NEW n \in BOOLEAN, Score(w, s, n) PROVE RowStep(j)
  <2>1. CASE MayBecome(run[w].diagnostic, "COMPLETED")
    <3>1. /\ report' = [report EXCEPT ![i].radar = Flushed(run[w].report.radar, s, report[i].radar)]
          /\ diagnostic' = [diagnostic EXCEPT ![i] =
                                Flushed(run[w].diagnostic, "COMPLETED", diagnostic[i])]
      BY <1>0, <1>3, <2>1 DEF Score
    <3>2. report'[i].status = report[i].status
      BY <1>1, <3>1 DEF PTypeOK, Report
    <3>3. diagnostic'[i] = "COMPLETED" /\ diagnostic[i] \in {"IN_PROGRESS", "COMPLETED"}
      BY <1>0, <1>1, <1>3, <3>1, <2>1
      DEF Score, Flushed, HandlerIsCurrent, Handling, RowAgrees, PTypeOK, MayBecome, DiagnosticEdges
    <3>4. report[i].status # "READY"
      BY <1>0, <1>1, <1>3 DEF Score, HandlerIsCurrent
    <3>5. CASE i = j
      BY <1>0, <3>2, <3>3, <3>4, <3>5 DEF RowStep, Rescored
    <3>6. CASE i # j
      BY <3>1, <3>6 DEF RowStep, Untouched
    <3>7. QED BY <3>5, <3>6
  <2>2. CASE ~ MayBecome(run[w].diagnostic, "COMPLETED")
    BY <1>3, <1>u, <2>2 DEF Score, business
  <2>3. QED BY <2>1, <2>2
<1>4. ASSUME NEW x \in Result, Publish(w, x) PROVE RowStep(j)
  <2>1. PICK y, z : report' = [report EXCEPT ![i] =
                       [status |-> Flushed(run[w].report.status, "READY", report[i].status),
                        radar |-> report[i].radar, insights |-> y, pdf |-> z]]
    BY <1>0, <1>4 DEF Publish
  <2>2. diagnostic' = [diagnostic EXCEPT ![i] = "BILAN_READY"]
    BY <1>0, <1>4 DEF Publish
  <2>3. /\ run[w].report.status # "READY" /\ report[i].status # "READY"
        /\ diagnostic[i] = "COMPLETED"
    BY <1>0, <1>1, <1>4 DEF Publish, HandlerIsCurrent, Handling
  <2>4. CASE i = j
    <3>1. report'[i].status = "READY" /\ diagnostic'[i] = "BILAN_READY"
      BY <2>1, <2>2, <2>3 DEF Flushed, PTypeOK
    <3>2. QED BY <1>0, <2>3, <2>4, <3>1 DEF RowStep, Published
  <2>5. CASE i # j
    BY <2>1, <2>2, <2>5 DEF RowStep, Untouched
  <2>6. QED BY <2>4, <2>5
<1>5. QED BY <1>2, <1>3, <1>4 DEF Handle

LEMMA CleanUpRowStep ==
    ASSUME PTypeOK, PublicationInv, NEW w \in Workers, NEW i \in Jobs, CleanUp(w, i), NEW j \in Jobs
    PROVE  RowStep(j)
<1>u. ASSUME UNCHANGED <<report, diagnostic>> PROVE RowStep(j)
  BY <1>u DEF RowStep, Untouched
<1>1. CASE LoadForCleanup(w, i) \/ CleanupFails(w, i)
  BY <1>1, <1>u DEF LoadForCleanup, CleanupFails, business
<1>2. CASE CommitCleanup(w, i)
  <2>1. /\ report[i] \in Report /\ run[w].diagnostic = diagnostic[i]
        /\ report[i].status = "PENDING" /\ status[i] = "FAILED"
        /\ report[i].radar \in {run[w].report.radar, Human} /\ RowAgrees(i)
    BY <1>2, WorkerFacts
    DEF CommitCleanup, CleanupIsCurrent, PTypeOK, PublicationInv, AllAgree
  <2>2. ASSUME NEW t \in {"READY", "FAILED"}, report' = [report EXCEPT ![i].status = t]
        PROVE  /\ report'[i].status = t /\ report'[i].radar = report[i].radar
               /\ \A k \in Jobs \ {i} : report'[k] = report[k]
    BY <2>1, <2>2 DEF PTypeOK, Report
  <2>3. CASE run[w].report.radar = NoScore
    <3>1. report' = [report EXCEPT ![i].status = "FAILED"] /\ UNCHANGED diagnostic
      BY <1>2, <2>3 DEF CommitCleanup
    <3>2. CASE i = j
      BY <2>1, <2>2, <2>3, <3>1, <3>2 DEF RowStep, GivenUp
    <3>3. CASE i # j
      BY <2>2, <3>1, <3>3 DEF RowStep, Untouched
    <3>4. QED BY <3>2, <3>3
  <2>4. CASE run[w].report.radar # NoScore /\ MayBecome(run[w].diagnostic, "BILAN_READY")
    <3>1. /\ report' = [report EXCEPT ![i].status = "READY"]
          /\ diagnostic' = [diagnostic EXCEPT ![i] =
                                Flushed(run[w].diagnostic, "BILAN_READY", diagnostic[i])]
      BY <1>2, <2>4 DEF CommitCleanup
    <3>2. diagnostic[i] = "COMPLETED"
      BY <2>1, <2>4 DEF MayBecome, DiagnosticEdges, RowAgrees
    <3>3. diagnostic'[i] = "BILAN_READY" /\ \A k \in Jobs \ {i} : diagnostic'[k] = diagnostic[k]
      BY <2>1, <3>1 DEF Flushed, PTypeOK
    <3>4. CASE i = j
      BY <2>1, <2>2, <3>1, <3>2, <3>3, <3>4 DEF RowStep, Published
    <3>5. CASE i # j
      BY <2>2, <3>1, <3>3, <3>5 DEF RowStep, Untouched
    <3>6. QED BY <3>4, <3>5
  <2>5. CASE run[w].report.radar # NoScore /\ ~ MayBecome(run[w].diagnostic, "BILAN_READY")
    BY <1>2, <1>u, <2>5 DEF CommitCleanup
  <2>6. QED BY <2>3, <2>4, <2>5
<1>3. QED BY <1>1, <1>2 DEF CleanUp

LEMMA RowsStepByStep ==
    ASSUME PTypeOK, PublicationInv, [PNext]_pvars, NEW j \in Jobs
    PROVE  RowStep(j)
<1>u. ASSUME UNCHANGED <<report, diagnostic>> PROVE RowStep(j)
  BY <1>u DEF RowStep, Untouched
<1>1. CASE QueueStep \/ (\E w \in Workers : WorkerDies(w)) \/ UNCHANGED pvars
  BY <1>1, <1>u DEF QueueStep, WorkerDies, pvars, business
<1>2. ASSUME NEW i \in Jobs, StartDiagnostic(i) PROVE RowStep(j)
  <2>1. status[i] = "ABSENT" /\ diagnostic[i] = "NONE"
    BY <1>2 DEF StartDiagnostic, Enqueue, PublicationInv, AllAgree, RowAgrees
  <2>2. QED BY <1>2, <2>1 DEF StartDiagnostic, RowStep, Untouched, Created, PTypeOK
<1>3. ASSUME NEW i \in Jobs, AdjustScores(i) \/ EditReport(i) PROVE RowStep(j)
  <2>1. /\ \/ report' = [report EXCEPT ![i].radar = Human]
           \/ report' = [report EXCEPT ![i].insights = Human]
        /\ UNCHANGED diagnostic
    BY <1>3 DEF AdjustScores, EditReport
  <2>2. QED BY <2>1 DEF RowStep, Edited, PTypeOK, Report
<1>4. ASSUME NEW c \in Curators,
             \/ \E i \in Jobs : ReadProject(c, i)
             \/ \E t \in ReviewStatus : MoveReview(c, t)
      PROVE  RowStep(j)
  BY <1>4, <1>u DEF ReadProject, MoveReview, business
<1>5. QED
  BY <1>1, <1>2, <1>3, <1>4, HandlerRowStep, CleanUpRowStep DEF PNext, Analyst

\* The project moves along the edges of the code's transition table only.
THEOREM ProjectsFollowTheMachine ==
    ASSUME Calm PROVE PSpec /\ [][RetriesWait]_pvars => DiagnosticMachine
<1>1. PTypeOK /\ PublicationInv /\ [PNext]_pvars
        => [\A j \in Jobs : diagnostic[j] \notin {"NONE", diagnostic'[j]}
                => <<diagnostic[j], diagnostic'[j]>> \in DiagnosticEdges]_pvars
  <2> SUFFICES ASSUME PTypeOK, PublicationInv, [PNext]_pvars, NEW j \in Jobs,
                      diagnostic[j] \notin {"NONE", diagnostic'[j]}
               PROVE  <<diagnostic[j], diagnostic'[j]>> \in DiagnosticEdges
    OBVIOUS
  <2>1. RowStep(j)
    BY RowsStepByStep
  <2>2. QED BY <2>1 DEF RowStep, Untouched, Created, Rescored, Published, GivenUp, Edited,
                        DiagnosticEdges
<1>2. QED BY <1>1, RowsAndMemoriesAgree, PipelineTypeCorrect, PTL DEF PSpec, DiagnosticMachine

\* What was published is not taken back by the machine, neither the report nor a refinement.
THEOREM PublicationsLast ==
    ASSUME Calm PROVE PSpec /\ [][RetriesWait]_pvars => PublicationLasts
<1>1. PTypeOK /\ PublicationInv /\ [PNext]_pvars
        => /\ [\A j \in Jobs : report[j].status = "READY" => report'[j].status = "READY"]_pvars
           /\ [\A j \in Jobs : report[j].status = "READY" =>
                 /\ report[j].radar = Human => report'[j].radar = Human
                 /\ report[j].insights = Human => report'[j].insights = Human]_pvars
  <2> SUFFICES ASSUME PTypeOK, PublicationInv, [PNext]_pvars, NEW j \in Jobs,
                      report[j].status = "READY"
               PROVE  /\ report'[j].status = "READY"
                      /\ report[j].radar = Human => report'[j].radar = Human
                      /\ report[j].insights = Human => report'[j].insights = Human
    OBVIOUS
  <2>1. diagnostic[j] = "BILAN_READY"
    BY DEF PublicationInv, AllAgree, RowAgrees
  <2>2. RowStep(j)
    BY RowsStepByStep
  <2>3. QED BY <2>1, <2>2 DEF RowStep, Untouched, Created, Rescored, Published, GivenUp, Edited
<1>2. QED BY <1>1, RowsAndMemoriesAgree, PipelineTypeCorrect, PTL
          DEF PSpec, PublicationLasts, PublishedForGood, RefinementsSurvive

\* When no administrator retries failed jobs, FAILED is for good ...
LEMMA FailedForGood ==
    ASSUME "FAILED" \notin RequeueFrom, TypeOK, CalmInv, [Next]_vars, NEW j \in Jobs,
           status[j] = "FAILED"
    PROVE  status'[j] = "FAILED"
<1> USE DEF TypeOK, CalmInv, ClaimIsCurrent, LoopConsistent, Terminal, Waiting, rows, workers
<1>1. ASSUME NEW i \in Jobs, Enqueue(i) \/ Requeue(i) PROVE status'[j] = "FAILED"
  BY <1>1 DEF Enqueue, Requeue
<1>2. ASSUME NEW w \in Workers, RecoverStale(w) PROVE status'[j] = "FAILED"
  BY <1>2 DEF RecoverStale, Stale, Exhausted
<1>3. ASSUME NEW w \in Workers, Ack(w) PROVE status'[j] = "FAILED"
  <2>1. status[held[w]] = "PROCESSING"
    BY <1>3, JobsAssumption DEF Ack, Complete, FailRetry, FailFinal
  <2>2. QED BY <1>3, <2>1 DEF Ack, Complete, FailRetry, FailFinal
<1>4. ASSUME NEW w \in Workers, NEW i \in Jobs, Claim(w, i) PROVE status'[j] = "FAILED"
  BY <1>4 DEF Claim, Eligible
<1>5. ASSUME NEW w \in Workers,
             \/ NothingToClaim(w) \/ Heartbeat(w) \/ HeartbeatDies(w) \/ Crash(w)
             \/ \E i \in Jobs : TerminalHook(w, i)
             \/ \E o \in {"succeeded", "raised"} : Finish(w, o)
      PROVE status'[j] = "FAILED"
  BY <1>5 DEF NothingToClaim, Heartbeat, HeartbeatDies, Crash, TerminalHook, Finish
<1>6. CASE Tick \/ UNCHANGED vars
  BY <1>6 DEF vars, Tick
<1>7. QED
  BY <1>1, <1>2, <1>3, <1>4, <1>5, <1>6 DEF Next, WorkerStep

\* ... so that no retry meets a clean-up, and a failed report has no scoring to hide.
THEOREM RadarsAreShown ==
    ASSUME Calm, "FAILED" \notin RequeueFrom
    PROVE  PSpec => [](PublicationInv /\ RadarIsShown)
<1>1. PTypeOK /\ PublicationInv /\ [PNext]_pvars => RetriesWait
  BY FailedForGood, PipelineStepIsQueueStep DEF RetriesWait, PTypeOK, PublicationInv
<1>2. PTypeOK /\ PublicationInv /\ FailuresAgree /\ [PNext]_pvars => FailuresAgree'
  <2> SUFFICES ASSUME PTypeOK, PublicationInv, FailuresAgree, [PNext]_pvars, NEW j \in Jobs,
                      report'[j].status = "FAILED"
               PROVE  status'[j] = "FAILED" /\ report'[j].radar \in {NoScore, Human}
    BY DEF FailuresAgree
  <2>1. status[j] = "FAILED" => status'[j] = "FAILED"
    BY FailedForGood, PipelineStepIsQueueStep DEF PTypeOK, PublicationInv
  <2>2. RowStep(j)
    BY RowsStepByStep
  <2>3. report[j].status = "FAILED" => status[j] = "FAILED" /\ report[j].radar \in {NoScore, Human}
    BY DEF FailuresAgree
  <2>4. QED
    BY <2>1, <2>2, <2>3
    DEF RowStep, Untouched, Created, Rescored, Published, GivenUp, Edited, Blank
<1>3. PInit => FailuresAgree
  BY DEF PInit, FailuresAgree, Blank
<1>4. PTypeOK /\ PublicationInv /\ FailuresAgree => RadarIsShown
  BY OneScoring DEF RadarIsShown, FailuresAgree, FailedHidesNoRadar
<1>5. PTypeOK /\ PTypeOK' /\ PublicationInv /\ [PNext]_pvars => PublicationInv'
  BY <1>1, PublicationStep
<1>6. QED
  BY <1>2, <1>3, <1>4, <1>5, PublicationInit, PipelineTypeCorrect, PTL DEF PSpec

-----------------------------------------------------------------------------
(* The end of a failure.  Leases may be lost here, and workers be zombies. *)

LEMMA FailureInit == PInit => FailureInv
  BY ScoresAssumption
  DEF PInit, Init, FailureInv, RowScored, MemoryScored, WorkExists, FailureIsShown, Blank, Idle,
      Handling, Scored

\* A row never disappears; who holds a job or cleans up after one does it for a row.
LEMMA WorkStep ==
    ASSUME TypeOK, \A w \in Workers : WorkExists(w), [Next]_vars
    PROVE  /\ \A j \in Jobs : status[j] # "ABSENT" => status'[j] # "ABSENT"
           /\ \A w \in Workers : WorkExists(w)'
<1> USE DEF TypeOK, WorkExists, WorkerPC, rows, workers
<1> DEFINE Goal == /\ \A j \in Jobs : status[j] # "ABSENT" => status'[j] # "ABSENT"
                   /\ \A w \in Workers : WorkExists(w)'
<1>1. CASE Tick
  BY <1>1 DEF Tick
<1>2. ASSUME NEW j \in Jobs, Enqueue(j) \/ Requeue(j) PROVE Goal
  BY <1>2, RequeueAssumption DEF Enqueue, Requeue, JobStatus, Waiting, Terminal
<1>3. ASSUME NEW w \in Workers, WorkerStep(w) PROVE Goal
  <2>1. CASE RecoverStale(w)
    BY <2>1 DEF RecoverStale, Stale, Exhausted
  <2>2. CASE NothingToClaim(w) \/ Heartbeat(w) \/ HeartbeatDies(w)
    BY <2>2 DEF NothingToClaim, Heartbeat, HeartbeatDies
  <2>3. CASE Complete(w) \/ FailRetry(w)
    BY <2>3 DEF Complete, FailRetry, Release
  <2>4. CASE FailFinal(w)
    BY <2>4 DEF FailFinal, Release
  <2>5. CASE Crash(w)
    BY <2>5 DEF Crash, Release
  <2>6. ASSUME NEW j \in Jobs, TerminalHook(w, j) PROVE Goal
    BY <2>6 DEF TerminalHook
  <2>7. ASSUME NEW j \in Jobs, Claim(w, j) PROVE Goal
    BY <2>7 DEF Claim
  <2>8. ASSUME NEW o \in {"succeeded", "raised"}, Finish(w, o) PROVE Goal
    BY <2>8 DEF Finish
  <2>9. QED
    BY <1>3, <2>1, <2>2, <2>3, <2>4, <2>5, <2>6, <2>7, <2>8 DEF WorkerStep, Ack
<1>4. CASE UNCHANGED vars
  BY <1>4 DEF vars
<1>5. QED BY <1>1, <1>2, <1>3, <1>4 DEF Next

\* Nothing changes what a memory is about, except its worker: a project that is scored stays so.
LEMMA OtherMemories ==
    ASSUME PTypeOK, FailureInv, NEW v \in Workers, run'[v] = run[v],
           \A j \in Jobs : diagnostic[j] \in Scored => diagnostic'[j] \in Scored,
           run[v].at \in Handling => pc'[v] = pc[v] /\ held'[v] = held[v],
           cleaning[v] \subseteq cleaning'[v]
    PROVE  MemoryScored(v)'
  BY DEF FailureInv, MemoryScored, WorkExists

\* After a step the rows and the memories are as FailureInv says, and no report waits anew.
ScoredAfter ==
    /\ \A j \in Jobs : RowScored(j)' /\ (report'[j].status = "PENDING" => report[j].status = "PENDING")
    /\ \A v \in Workers : MemoryScored(v)'

LEMMA HandlerKeepsScored ==
    ASSUME PTypeOK, FailureInv, NEW w \in Workers, Handle(w)
    PROVE  ScoredAfter /\ UNCHANGED <<status, cleaning>>
<1>0. PICK i \in Jobs : i = held[w] /\ pc[w] = "run" /\ status[i] # "ABSENT"
  BY DEF Handle, LoadProject, LoadReport, Score, StorePdf, Publish, Raise, Finish, FailureInv, WorkExists
<1>1. /\ UNCHANGED <<status, held, cleaning>>
      /\ \A v \in Workers \ {w} : pc'[v] = pc[v] /\ run'[v] = run[v]
  <2>1. UNCHANGED vars \/ \E o \in {"succeeded", "raised"} : Finish(w, o)
    BY DEF Handle, LoadProject, LoadReport, Score, StorePdf, Publish, Raise
  <2>2. UNCHANGED <<status, held, cleaning>> /\ \A v \in Workers \ {w} : pc'[v] = pc[v]
    BY <2>1 DEF Finish, vars, rows, workers, PTypeOK, TypeOK
  <2>3. \A v \in Workers \ {w} : run'[v] = run[v]
    <3> USE DEF PTypeOK
    <3>1. CASE LoadProject(w) \/ StorePdf(w) \/ Raise(w)
      BY <3>1 DEF LoadProject, StorePdf, Raise
    <3>2. CASE LoadReport(w)
      BY <3>2 DEF LoadReport
    <3>3. ASSUME NEW s \in Scores, NEW n \in BOOLEAN, Score(w, s, n)
          PROVE  \A v \in Workers \ {w} : run'[v] = run[v]
      BY <3>3 DEF Score
    <3>4. ASSUME NEW x \in Result, Publish(w, x) PROVE \A v \in Workers \ {w} : run'[v] = run[v]
      BY <3>4 DEF Publish
    <3>5. QED BY <3>1, <3>2, <3>3, <3>4 DEF Handle
  <2>4. QED BY <2>2, <2>3
<1>2. run[w] \in Run /\ report[i] \in Report /\ MemoryScored(w)
  BY <1>0 DEF PTypeOK, FailureInv
<1>q. ASSUME UNCHANGED <<diagnostic, report>>, MemoryScored(w)'
      PROVE  ScoredAfter
  <2>1. \A v \in Workers \ {w} : MemoryScored(v)'
    BY <1>1, <1>q, OtherMemories
  <2>2. QED BY <1>1, <1>q, <2>1 DEF FailureInv, RowScored, ScoredAfter
<1>i. ASSUME run' = [run EXCEPT ![w] = Idle] PROVE MemoryScored(w)'
  BY <1>i DEF MemoryScored, Idle, Handling, PTypeOK
<1>3. CASE LoadProject(w)
  <2>1. /\ run'[w].at = "project" /\ run'[w].diagnostic = diagnostic[i]
        /\ UNCHANGED <<diagnostic, report, pc>>
    BY <1>0, <1>3 DEF LoadProject, PTypeOK, Run, business, vars, workers
  <2>2. QED BY <1>0, <1>1, <1>q, <2>1 DEF MemoryScored, Handling
<1>4. CASE LoadReport(w)
  <2>1. UNCHANGED <<diagnostic, report>>
    BY <1>4 DEF LoadReport, business
  <2>2. CASE run' = [run EXCEPT ![w] = Idle]
    BY <1>1, <1>i, <1>q, <2>1, <2>2
  <2>3. CASE run' = [run EXCEPT ![w].at = "llm", ![w].report = report[held[w]]] /\ UNCHANGED vars
    <3>1. run'[w].at = "llm" /\ run'[w].diagnostic = run[w].diagnostic /\ pc' = pc
      BY <1>2, <2>3 DEF PTypeOK, Run, vars, workers
    <3>2. run[w].at \in Handling
      BY <1>4 DEF LoadReport, Handling
    <3>3. QED BY <1>0, <1>1, <1>2, <1>q, <2>1, <3>1, <3>2 DEF MemoryScored, Handling
  <2>4. QED BY <1>4, <2>2, <2>3 DEF LoadReport
<1>5. ASSUME NEW s \in Scores, NEW n \in BOOLEAN, Score(w, s, n)
      PROVE  ScoredAfter
  <2>1. CASE MayBecome(run[w].diagnostic, "COMPLETED")
    <3>1. /\ report' = [report EXCEPT ![i].radar = Flushed(run[w].report.radar, s, report[i].radar)]
          /\ diagnostic' = [diagnostic EXCEPT ![i] =
                                Flushed(run[w].diagnostic, "COMPLETED", diagnostic[i])]
          /\ run[w].at = "llm" /\ pc' = pc
      BY <1>0, <1>5, <2>1 DEF Score, vars, workers
    <3>2. run'[w].at = "report" /\ run'[w].diagnostic = "COMPLETED"
      BY <1>2, <1>5, <2>1 DEF Score, PTypeOK, Run
    <3>3. diagnostic'[i] \in Scored /\ \A j \in Jobs \ {i} : diagnostic'[j] = diagnostic[j]
      BY <1>0, <1>2, <3>1 DEF Flushed, Scored, MemoryScored, Handling, PTypeOK
    <3>4. /\ \A j \in Jobs \ {i} : report'[j] = report[j]
          /\ report'[i].status = report[i].status
      BY <1>2, <3>1 DEF PTypeOK, Report
    <3>5. \A j \in Jobs : RowScored(j)'
      BY <1>0, <1>1, <3>3, <3>4 DEF FailureInv, RowScored
    <3>6. MemoryScored(w)'
      BY <1>0, <1>1, <3>1, <3>2, <3>3 DEF MemoryScored, Handling
    <3>7. \A v \in Workers \ {w} : MemoryScored(v)'
      BY <1>1, <3>3, OtherMemories
    <3>8. QED BY <3>4, <3>5, <3>6, <3>7 DEF ScoredAfter
  <2>2. CASE ~ MayBecome(run[w].diagnostic, "COMPLETED")
    <3>1. run' = [run EXCEPT ![w] = Idle] /\ UNCHANGED business
      BY <1>5, <2>2 DEF Score
    <3>2. QED BY <1>1, <1>i, <1>q, <3>1 DEF business
  <2>3. QED BY <2>1, <2>2
<1>6. CASE StorePdf(w)
  <2>1. /\ run'[w].at = "pdf" /\ run'[w].diagnostic = run[w].diagnostic /\ run[w].at \in Handling
        /\ UNCHANGED <<diagnostic, report, pc>>
    BY <1>2, <1>6 DEF StorePdf, PTypeOK, Run, vars, workers, Handling
  <2>2. QED BY <1>1, <1>0, <1>2, <1>q, <2>1 DEF MemoryScored, Handling
<1>7. ASSUME NEW x \in Result, Publish(w, x)
      PROVE  ScoredAfter
  <2>1. PICK y, z : report' = [report EXCEPT ![i] =
                       [status |-> Flushed(run[w].report.status, "READY", report[i].status),
                        radar |-> report[i].radar, insights |-> y, pdf |-> z]]
    BY <1>0, <1>7 DEF Publish
  <2>2. diagnostic' = [diagnostic EXCEPT ![i] = "BILAN_READY"] /\ run' = [run EXCEPT ![w] = Idle]
    BY <1>0, <1>7 DEF Publish
  <2>3. /\ \A j \in Jobs \ {i} : report'[j] = report[j] /\ diagnostic'[j] = diagnostic[j]
        /\ report'[i].status \in {"READY", report[i].status} /\ diagnostic'[i] \in Scored
    BY <2>1, <2>2 DEF Flushed, PTypeOK, Scored
  <2>4. \A j \in Jobs : RowScored(j)'
    BY <1>0, <1>1, <2>3 DEF FailureInv, RowScored
  <2>5. \A v \in Workers \ {w} : MemoryScored(v)'
    BY <1>1, <2>3, OtherMemories
  <2>6. QED BY <1>i, <2>2, <2>3, <2>4, <2>5 DEF ScoredAfter
<1>8. CASE Raise(w)
  BY <1>1, <1>8, <1>i, <1>q DEF Raise, business
<1>9. QED BY <1>1, <1>3, <1>4, <1>5, <1>6, <1>7, <1>8 DEF Handle

\* A clean-up ends with a report that is not PENDING: its commit meets no illegal edge.
LEMMA CleanUpKeepsScored ==
    ASSUME PTypeOK, FailureInv, ~ CleanupMayFail, NEW w \in Workers, NEW j \in Jobs, CleanUp(w, j)
    PROVE  /\ ScoredAfter /\ UNCHANGED status
           /\ \/ UNCHANGED cleaning
              \/ cleaning' = [cleaning EXCEPT ![w] = @ \ {j}] /\ report'[j].status # "PENDING"
<1>1. run[w] \in Run /\ report[j] \in Report /\ MemoryScored(w) /\ WorkExists(w) /\ RowScored(j)
  BY DEF PTypeOK, FailureInv
<1>2. /\ UNCHANGED <<status, pc, held>> /\ j \in cleaning[w]
      /\ UNCHANGED cleaning \/ cleaning' = [cleaning EXCEPT ![w] = @ \ {j}]
      /\ \A v \in Workers \ {w} : run'[v] = run[v] /\ cleaning'[v] = cleaning[v]
  <2>1. CASE LoadForCleanup(w, j)
    BY <2>1 DEF LoadForCleanup, TerminalHook, vars, rows, workers, PTypeOK, TypeOK
  <2>2. CASE CommitCleanup(w, j)
    BY <2>2 DEF CommitCleanup, TerminalHook, rows, PTypeOK, TypeOK
  <2>3. QED BY <2>1, <2>2 DEF CleanUp, CleanupFails
<1>3. CASE LoadForCleanup(w, j)
  <2>1. UNCHANGED <<report, diagnostic>>
    BY <1>3 DEF LoadForCleanup, business
  <2>2. MemoryScored(w)'
    <3>1. CASE report[j].status = "PENDING"
      <4>1. /\ run'[w].at = "cleanup" /\ run'[w].job = j /\ run'[w].report = report[j]
            /\ run'[w].diagnostic = diagnostic[j] /\ cleaning' = cleaning
        BY <1>1, <1>3, <3>1 DEF LoadForCleanup, PTypeOK, Run, vars, workers
      <4>2. QED BY <1>1, <1>2, <4>1 DEF MemoryScored, RowScored, Handling
    <3>2. CASE report[j].status # "PENDING"
      BY <1>3, <3>2 DEF LoadForCleanup, MemoryScored, Handling
    <3>3. QED BY <3>1, <3>2
  <2>3. \A v \in Workers \ {w} : MemoryScored(v)'
    BY <1>2, <2>1, OtherMemories
  <2>4. \A k \in Jobs : RowScored(k)'
    BY <1>2, <2>1 DEF FailureInv, RowScored
  <2>5. CASE report[j].status = "PENDING"
    BY <1>2, <1>3, <2>1, <2>2, <2>3, <2>4, <2>5 DEF ScoredAfter, LoadForCleanup, vars, workers
  <2>6. QED BY <1>2, <2>1, <2>2, <2>3, <2>4, <2>5 DEF ScoredAfter
<1>4. CASE CommitCleanup(w, j)
  <2>1. run'[w] = Idle /\ run[w].at = "cleanup"
    BY <1>4 DEF CommitCleanup, PTypeOK
  <2>2. ASSUME NEW t \in {"READY", "FAILED"}, report' = [report EXCEPT ![j].status = t]
        PROVE  /\ report'[j].status = t /\ report'[j].radar = report[j].radar
               /\ \A k \in Jobs \ {j} : report'[k] = report[k]
    BY <1>1, <2>2 DEF PTypeOK, Report
  <2>3. /\ report'[j].status # "PENDING" /\ report'[j].radar = report[j].radar
        /\ \A k \in Jobs \ {j} : report'[k] = report[k] /\ diagnostic'[k] = diagnostic[k]
        /\ diagnostic'[j] # diagnostic[j] => diagnostic'[j] = "BILAN_READY"
    <3>1. CASE run[w].report.radar = NoScore
      <4>1. report' = [report EXCEPT ![j].status = "FAILED"] /\ UNCHANGED diagnostic
        BY <1>4, <3>1 DEF CommitCleanup
      <4>2. QED BY <2>2, <4>1
    <3>2. CASE run[w].report.radar # NoScore
      <4>1. MayBecome(run[w].diagnostic, "BILAN_READY")
        BY <1>1, <2>1, <3>2 DEF MemoryScored, Scored, MayBecome, DiagnosticEdges
      <4>2. /\ report' = [report EXCEPT ![j].status = "READY"]
            /\ diagnostic' = [diagnostic EXCEPT ![j] =
                                  Flushed(run[w].diagnostic, "BILAN_READY", diagnostic[j])]
        BY <1>4, <3>2, <4>1 DEF CommitCleanup
      <4>3. QED BY <2>2, <4>2 DEF Flushed, PTypeOK
    <3>3. QED BY <3>1, <3>2
  <2>4. \A k \in Jobs : diagnostic[k] \in Scored => diagnostic'[k] \in Scored
    BY <2>3 DEF Scored
  <2>5. \A v \in Workers : MemoryScored(v)'
    BY <1>2, <2>1, <2>4, OtherMemories DEF MemoryScored, Idle, Handling
  <2>6. \A k \in Jobs : RowScored(k)'
    <3>1. status[j] # "ABSENT"
      BY <1>1, <1>2 DEF WorkExists
    <3>2. QED BY <1>1, <1>2, <2>3, <2>4, <3>1 DEF FailureInv, RowScored
  <2>7. QED BY <1>2, <2>3, <2>5, <2>6 DEF ScoredAfter
<1>5. QED BY <1>3, <1>4 DEF CleanUp, CleanupFails

\* Who fails a job for good becomes its cleaner, and a cleaner is not made to forget.
LEMMA FailuresAreCleaned ==
    ASSUME TypeOK, \A w \in Workers : WorkExists(w), MaxCrashes = 0, [Next]_vars, NEW j \in Jobs,
           status'[j] = "FAILED", \A w \in Workers : j \notin cleaning'[w],
           ~ \E w \in Workers : TerminalHook(w, j)
    PROVE  status[j] = "FAILED" /\ \A w \in Workers : j \notin cleaning[w]
<1> USE DEF TypeOK, WorkExists, WorkerPC, rows, workers
<1> DEFINE Goal == status[j] = "FAILED" /\ \A w \in Workers : j \notin cleaning[w]
<1>1. CASE Tick
  BY <1>1 DEF Tick
<1>2. ASSUME NEW i \in Jobs, Enqueue(i) \/ Requeue(i) PROVE Goal
  BY <1>2 DEF Enqueue, Requeue
<1>3. ASSUME NEW w \in Workers, WorkerStep(w) PROVE Goal
  <2>1. CASE RecoverStale(w)
    BY <2>1 DEF RecoverStale, Stale, Exhausted
  <2>2. CASE NothingToClaim(w) \/ Heartbeat(w) \/ HeartbeatDies(w)
    BY <2>2 DEF NothingToClaim, Heartbeat, HeartbeatDies
  <2>3. CASE Complete(w) \/ FailRetry(w)
    BY <2>3 DEF Complete, FailRetry, Release
  <2>4. CASE FailFinal(w)
    BY <2>4, AllHandled DEF FailFinal, Release
  <2>5. CASE Crash(w)
    BY <2>5 DEF Crash, Release, Faults
  <2>6. ASSUME NEW i \in Jobs, TerminalHook(w, i) PROVE Goal
    BY <2>6 DEF TerminalHook
  <2>7. ASSUME NEW i \in Jobs, Claim(w, i) PROVE Goal
    BY <2>7 DEF Claim
  <2>8. ASSUME NEW o \in {"succeeded", "raised"}, Finish(w, o) PROVE Goal
    BY <2>8 DEF Finish
  <2>9. QED
    BY <1>3, <2>1, <2>2, <2>3, <2>4, <2>5, <2>6, <2>7, <2>8 DEF WorkerStep, Ack
<1>4. CASE UNCHANGED vars
  BY <1>4 DEF vars
<1>5. QED BY <1>1, <1>2, <1>3, <1>4 DEF Next

LEMMA FailureStep ==
    ASSUME MaxCrashes = 0, MaxEdits = 0, ~ CleanupMayFail, PTypeOK, FailureInv, [PNext]_pvars
    PROVE  FailureInv'
<1>1. /\ \A j \in Jobs : status[j] # "ABSENT" => status'[j] # "ABSENT"
      /\ \A w \in Workers : WorkExists(w)'
  BY WorkStep, PipelineStepIsQueueStep DEF PTypeOK, FailureInv
<1>b. ASSUME ScoredAfter, UNCHANGED <<status, cleaning>> PROVE FailureInv'
  <2>1. FailureIsShown'
    BY <1>b DEF FailureInv, FailureIsShown, ScoredAfter
  <2>2. QED BY <1>1, <1>b, <2>1 DEF FailureInv, ScoredAfter
\* A step of the queue outside the clean-ups and the handlers.
<1>2. CASE QueueStep
  <2>1. UNCHANGED <<diagnostic, report, run>>
    BY <1>2 DEF QueueStep, business
  <2>2. ASSUME NEW w \in Workers
        PROVE  /\ run[w].at \in Handling => pc'[w] = pc[w] /\ held'[w] = held[w]
               /\ cleaning[w] \subseteq cleaning'[w]
    <3>1. /\ run[w].at \in Handling => pc[w] = "run"
          /\ pc[w] \in {"run", "succeeded", "raised"} => cleaning[w] = {}
      BY DEF FailureInv, MemoryScored, WorkExists
    <3>2. pc \in [Workers -> WorkerPC] /\ cleaning \in [Workers -> SUBSET Jobs]
          /\ held \in [Workers -> Jobs \cup {NoJob}]
      BY DEF PTypeOK, TypeOK
    <3> USE <3>1, <3>2 DEF rows, workers
    <3>3. CASE Tick \/ \E j \in Jobs : Requeue(j)
      BY <3>3 DEF Tick, Requeue
    <3>4. ASSUME NEW v \in Workers, RecoverStale(v) \/ NothingToClaim(v) \/ Heartbeat(v) \/ HeartbeatDies(v)
          PROVE  /\ run[w].at \in Handling => pc'[w] = pc[w] /\ held'[w] = held[w]
                 /\ cleaning[w] \subseteq cleaning'[w]
      BY <3>4 DEF RecoverStale, NothingToClaim, Heartbeat, HeartbeatDies
    <3>5. ASSUME NEW v \in Workers, Ack(v)
          PROVE  /\ run[w].at \in Handling => pc'[w] = pc[w] /\ held'[w] = held[w]
                 /\ cleaning[w] \subseteq cleaning'[w]
      BY <3>5 DEF Ack, Complete, FailRetry, FailFinal, Release
    <3>6. ASSUME NEW v \in Workers, NEW j \in Jobs, Claim(v, j)
          PROVE  /\ run[w].at \in Handling => pc'[w] = pc[w] /\ held'[w] = held[w]
                 /\ cleaning[w] \subseteq cleaning'[w]
      BY <3>6 DEF Claim
    <3>7. QED BY <1>2, <3>3, <3>4, <3>5, <3>6 DEF QueueStep
  <2>3. \A w \in Workers : MemoryScored(w)'
    BY <2>1, <2>2, OtherMemories
  <2>4. \A j \in Jobs : status'[j] = "ABSENT" => status[j] = "ABSENT"
    BY <1>1
  <2>5. ScoredAfter
    BY <2>1, <2>3, <2>4 DEF ScoredAfter, FailureInv, RowScored
  <2>6. FailureIsShown'
    <3> SUFFICES ASSUME NEW j \in Jobs, status'[j] = "FAILED", report'[j].status = "PENDING",
                        \A w \in Workers : j \notin cleaning'[w]
                 PROVE  FALSE
      BY DEF FailureIsShown
    <3>1. \A w \in Workers : j \notin cleaning[w]
      BY <2>2
    <3>2. ~ \E w \in Workers : TerminalHook(w, j)
      BY <3>1 DEF TerminalHook
    <3>3. status[j] = "FAILED"
      BY <3>2, FailuresAreCleaned, PipelineStepIsQueueStep DEF PTypeOK, FailureInv
    <3>4. QED BY <2>1, <3>1, <3>3 DEF FailureInv, FailureIsShown
  <2>7. QED BY <1>1, <2>5, <2>6 DEF FailureInv, ScoredAfter
<1>3. CASE Analyst
  <2>1. ASSUME NEW j \in Jobs PROVE ~ AdjustScores(j) /\ ~ EditReport(j)
    BY DEF AdjustScores, EditReport, PTypeOK
  <2>2. UNCHANGED <<vars, diagnostic, report, run>>
    BY <1>3, <2>1 DEF Analyst, ReadProject, MoveReview, business
  <2>3. \A w \in Workers : MemoryScored(w)'
    BY <2>2, OtherMemories DEF vars, workers
  <2>4. ScoredAfter
    BY <2>2, <2>3 DEF ScoredAfter, FailureInv, RowScored, vars, rows
  <2>5. QED BY <1>b, <2>2, <2>4 DEF vars, rows, workers
<1>4. ASSUME NEW i \in Jobs, StartDiagnostic(i) PROVE FailureInv'
  <2>1. /\ status[i] = "ABSENT" /\ status' = [status EXCEPT ![i] = "PENDING"]
        /\ diagnostic' = [diagnostic EXCEPT ![i] = "IN_PROGRESS"]
        /\ report' = [report EXCEPT ![i] = Blank("PENDING")]
        /\ UNCHANGED <<run, pc, held, cleaning>>
    BY <1>4 DEF StartDiagnostic, Enqueue, workers
  <2>2. /\ status'[i] = "PENDING" /\ report'[i].radar = NoScore /\ diagnostic[i] = "NONE"
        /\ \A k \in Jobs \ {i} : /\ status'[k] = status[k] /\ report'[k] = report[k]
                                 /\ diagnostic'[k] = diagnostic[k]
    BY <2>1 DEF Blank, PTypeOK, TypeOK, FailureInv, RowScored
  <2>3. \A w \in Workers : MemoryScored(w)'
    BY <2>1, <2>2, OtherMemories DEF Scored
  <2>4. \A k \in Jobs : RowScored(k)'
    BY <2>2 DEF RowScored, FailureInv
  <2>5. FailureIsShown'
    BY <2>1, <2>2 DEF FailureInv, FailureIsShown
  <2>6. QED BY <1>1, <2>3, <2>4, <2>5 DEF FailureInv
<1>5. ASSUME NEW w \in Workers, Handle(w) PROVE FailureInv'
  BY <1>5, <1>b, HandlerKeepsScored
<1>6. ASSUME NEW w \in Workers, WorkerDies(w) PROVE FALSE
  BY <1>6 DEF WorkerDies, Crash, PTypeOK, TypeOK, Faults
<1>7. ASSUME NEW w \in Workers, NEW i \in Jobs, CleanUp(w, i) PROVE FailureInv'
  <2>1. /\ ScoredAfter /\ UNCHANGED status
        /\ \/ UNCHANGED cleaning
           \/ cleaning' = [cleaning EXCEPT ![w] = @ \ {i}] /\ report'[i].status # "PENDING"
    BY <1>7, CleanUpKeepsScored
  <2>2. CASE UNCHANGED cleaning
    BY <1>b, <2>1, <2>2
  <2>3. CASE cleaning' = [cleaning EXCEPT ![w] = @ \ {i}] /\ report'[i].status # "PENDING"
    <3>1. \A v \in Workers : cleaning[v] \ {i} \subseteq cleaning'[v]
      BY <2>3 DEF PTypeOK, TypeOK
    <3>2. FailureIsShown'
      BY <2>1, <2>3, <3>1 DEF FailureInv, FailureIsShown, ScoredAfter
    <3>3. QED BY <1>1, <2>1, <3>2 DEF FailureInv, ScoredAfter
  <2>4. QED BY <2>1, <2>2, <2>3
<1>8. CASE UNCHANGED pvars
  <2>1. UNCHANGED <<vars, diagnostic, report, run>>
    BY <1>8 DEF pvars, business
  <2>2. \A w \in Workers : MemoryScored(w)'
    BY <2>1, OtherMemories DEF vars, workers
  <2>3. ScoredAfter
    BY <2>1, <2>2 DEF ScoredAfter, FailureInv, RowScored, vars, rows
  <2>4. QED BY <1>b, <2>1, <2>3 DEF vars, rows, workers
<1>9. QED BY <1>2, <1>3, <1>4, <1>5, <1>6, <1>7, <1>8 DEF PNext

\* Without crashes, refused clean-ups and edits, the founder learns of every failure: a failed job
\* nobody cleans up after has no PENDING report, even when leases are lost and zombies write.
THEOREM FailuresAreShown ==
    ASSUME MaxCrashes = 0, MaxEdits = 0, ~ CleanupMayFail
    PROVE  PSpec => []FailureIsShown
<1>1. FailureInv => FailureIsShown
  BY DEF FailureInv
<1>2. QED BY <1>1, FailureInit, FailureStep, PipelineTypeCorrect, PTL DEF PSpec
=============================================================================
