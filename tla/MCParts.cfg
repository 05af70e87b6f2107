\* Three requests, of which one may come in two pieces and one is not an object on
\* one line, over a pool of one connection, with one of: an end of the coordinator,
\* a client that leaves, an event the broker does not take.  One task with one retry
\* and one failure of the cache, of the database or of its worker.  Four commands on
\* two keys.
CONSTANTS
    Requests = {r1, r2, r3}
    Long = {r1}
    Odd = {r3}
    InitialSize = 1
    MaxSize = 1
    NoConnection = NoConnection
    MaxTroubles = 1
    Workers = {w1}
    NoTask = NoTask
    NoWorker = NoWorker
    MaxRetries = 1
    MaxFaults = 1
    Keys = {k1, k2}
    Values = {v1, v2}
    None = None
    MaxCommands = 4
SPECIFICATION PartsSpec
INVARIANTS
    PartsTypeOK
    OneOwner
    AnsweredWhenSettled
    UndisturbedCopyIsRow
    FailuresCounted
    AcknowledgedIsStored
PROPERTIES
    EveryRequestAnswered
    AcceptedIsSettled
    FinalStatusShown
    CallsReturn
CHECK_DEADLOCK FALSE
