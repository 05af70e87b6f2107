SPECIFICATION FairSpec
CONSTANTS
    w1 = w1
    w2 = w2
    j1 = j1
    j2 = j2
    None = None
    Worker = {w1}
    Job = {j1}
    Threshold = 1
    Capacity <- CapacityOne
    Priority <- KeyHigh
    IntPriority = {j1}
    Poison = {}
    NeedsPayload = {j1}
    MaxRetries = 0
    ForeignKeys = TRUE
    OnlineAtStart = FALSE
    MaxCrashes = 1
    MaxSilences = 1
    MaxSuspicions = 1
    MaxHeartbeats = 1
PROPERTIES
    DeadWorkerEvicted
    FailoverTakesTasks
    RecordedTaskRecovered
CHECK_DEADLOCK FALSE
