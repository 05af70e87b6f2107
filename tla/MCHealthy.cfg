SPECIFICATION Spec
CONSTANTS
    w1 = w1
    w2 = w2
    j1 = j1
    j2 = j2
    None = None
    Worker = {w1, w2}
    Job = {j1, j2}
    Threshold = 1
    Capacity <- CapacityOne
    Priority <- KeyHigh
    IntPriority = {j1}
    Poison = {j2}
    NeedsPayload = {j1}
    MaxRetries = 1
    ForeignKeys = FALSE
    OnlineAtStart = TRUE
    MaxCrashes = 0
    MaxSilences = 0
    MaxSuspicions = 1
    MaxHeartbeats = 0
SYMMETRY WorkerSymmetry
INVARIANTS
    TypeOK
    LoadIsInFlight
    PickFindsJob
    BreakersWellFormed
CHECK_DEADLOCK FALSE
PROPERTIES
    LifecycleSpec
