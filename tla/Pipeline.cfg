\* Crashes, exceptions and retries, with an analyst on the report and a curator on the project; every
\* lease is lost with its worker.
CONSTANTS
    w1 = w1
    w2 = w2
    s1 = s1
    s2 = s2
    c1 = c1
    c2 = c2
    d1 = d1
    Jobs = {d1}
    Workers = {w1, w2}
    NoJob = NoJob
    Handled = {d1}
    Priority <- SamePriority
    MaxRetries = 1
    Backoff <- NoDelay
    Lease = 1
    HeartbeatEvery = 1
    RequeueFrom = {"PENDING", "RETRYING", "COMPLETED"}
    MaxRequeues = 1
    MaxCrashes = 2
    MaxHeartbeatDeaths = 0
    MaxOverdue = 0
    Scores = {s1, s2}
    NoScore = NoScore
    Human = Human
    Curators = {c1}
    MaxEdits = 2
    MaxCurations = 1
    CleanupMayFail = TRUE
SPECIFICATION PSpec
SYMMETRY Symmetric
INVARIANTS PTypeOK PublicationAgrees RadarIsShown
PROPERTIES PublicationLasts DiagnosticMachine
