\* A worker dies between the failure of the job and its clean-up.
CONSTANTS
    w1 = w1
    w2 = w2
    s1 = s1
    s2 = s2
    c1 = c1
    c2 = c2
    d1 = d1
    Jobs = {d1}
    Workers = {w1, w2}
    NoJob = NoJob
    Handled = {d1}
    Priority <- SamePriority
    MaxRetries = 0
    Backoff <- NoDelay
    Lease = 1
    HeartbeatEvery = 1
    RequeueFrom = {}
    MaxRequeues = 0
    MaxCrashes = 1
    MaxHeartbeatDeaths = 0
    MaxOverdue = 0
    Scores = {s1, s2}
    NoScore = NoScore
    Human = Human
    Curators = {}
    MaxEdits = 0
    MaxCurations = 0
    CleanupMayFail = FALSE
SPECIFICATION PSpec
INVARIANT FailureIsShown
