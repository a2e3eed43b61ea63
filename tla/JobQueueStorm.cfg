\* Lost heartbeats, crashes and manual retries at any time: does every job still settle?
CONSTANTS
    j1 = j1
    j2 = j2
    j3 = j3
    w1 = w1
    w2 = w2
    Jobs = {j1, j2}
    Workers = {w1, w2}
    NoJob = NoJob
    NoWorker = NoWorker
    Handled = {j1}
    Priority <- SamePriority
    MaxRetries = 1
    Backoff <- GrowingBackoff
    Lease = 1
    HeartbeatEvery = 1
    RequeueFrom <- AnyStatus
    MaxRequeues = 1
    MaxCrashes = 1
    MaxHeartbeatDeaths = 1
    MaxOverdue = 1
SPECIFICATION FairSpec
PROPERTIES EveryJobSettles
