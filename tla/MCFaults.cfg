SPECIFICATION Spec
CONSTANTS
    w1 = w1
    w2 = w2
    j1 = j1
    j2 = j2
    None = None
    Worker = {w1, w2}
    Job = {j1}
    Threshold = 1
    Capacity <- CapacityOne
    Priority <- KeyHigh
    IntPriority = {j1}
    Poison = {}
    NeedsPayload = {j1}
    MaxRetries = 0
    ForeignKeys = FALSE
    OnlineAtStart = TRUE
    MaxCrashes = 1
    MaxSilences = 1
    MaxSuspicions = 1
    MaxHeartbeats = 0
SYMMETRY WorkerSymmetry
INVARIANTS
    LoadWithinCapacity
    OnlyFailoverDuplicates
    OnlyFailoverBuries
CHECK_DEADLOCK FALSE
