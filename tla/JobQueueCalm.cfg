\* Two jobs of different urgency, two workers; crashes and manual retries of settled jobs.
CONSTANTS
    j1 = j1
    j2 = j2
    j3 = j3
    w1 = w1
    w2 = w2
    Jobs = {j1, j2, j3}
    Workers = {w1, w2}
    NoJob = NoJob
    NoWorker = NoWorker
    Handled = {j1, j2}
    Priority <- UrgentFirst
    MaxRetries = 1
    Backoff <- ShortBackoff
    Lease = 1
    HeartbeatEvery = 1
    RequeueFrom <- NotRunning
    MaxRequeues = 1
    MaxCrashes = 2
    MaxHeartbeatDeaths = 0
    MaxOverdue = 1
SPECIFICATION Spec
SYMMETRY Symmetric
INVARIANTS TypeOK CalmInv LeasesAndRetries
PROPERTIES VerdictIsFinal ImplementsLifecycle
