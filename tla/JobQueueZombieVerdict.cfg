\* One heartbeat task dies: can a settled job be taken up again?
CONSTANTS
    j1 = j1
    j2 = j2
    j3 = j3
    w1 = w1
    w2 = w2
    Jobs = {j1}
    Workers = {w1, w2}
    NoJob = NoJob
    NoWorker = NoWorker
    Handled = {j1}
    Priority <- SamePriority
    MaxRetries = 1
    Backoff <- ShortBackoff
    Lease = 1
    HeartbeatEvery = 1
    RequeueFrom <- NotRunning
    MaxRequeues = 0
    MaxCrashes = 0
    MaxHeartbeatDeaths = 1
    MaxOverdue = 1
SPECIFICATION Spec
PROPERTY VerdictIsFinal
