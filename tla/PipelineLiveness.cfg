\* A lost heartbeat and a manual retry, no crash, no hand on the report: does every diagnostic end?
CONSTANTS
    w1 = w1
    w2 = w2
    s1 = s1
    s2 = s2
    c1 = c1
    c2 = c2
    d1 = d1
    Jobs = {d1}
    Workers = {w1, w2}
    NoJob = NoJob
    Handled = {d1}
    Priority <- SamePriority
    MaxRetries = 1
    Backoff <- NoDelay
    Lease = 1
    HeartbeatEvery = 1
    RequeueFrom = {"COMPLETED", "FAILED"}
    MaxRequeues = 1
    MaxCrashes = 0
    MaxHeartbeatDeaths = 1
    MaxOverdue = 0
    Scores = {s1}
    NoScore = NoScore
    Human = Human
    Curators = {}
    MaxEdits = 0
    MaxCurations = 0
    CleanupMayFail = FALSE
SPECIFICATION PFairSpec
INVARIANTS FailureIsShown
PROPERTY EveryDiagnosticEnds
