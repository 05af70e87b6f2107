\* Breaker: threshold 2, six calls and a removal.  Cache: two clients, so that
\* the evictions of both are under way together, and one key
\* more than the cache holds.  The calls are bounded, so the breaker may stop.
SPECIFICATION ThreadsSpec
CONSTANTS
    Threshold = 2
    LongCalls = TRUE
    MaxCalls = 6
    MaxRemovals = 1
    Clients = {c1, c2}
    Keys = {k1, k2, k3}
    Values = {v1, v2}
    NoKey = NoKey
    NoValue = NoValue
    MaxCapacity = 2
SYMMETRY Symmetry
INVARIANTS
    TypeOK
    OneTrial
    UndisturbedAlertsExact
    CacheTypeOK
    RecentlyUsedKept
    FileFollowsMemory
PROPERTY
    CycleSpec
CHECK_DEADLOCK FALSE
