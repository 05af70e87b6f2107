\* Bus: two subscribers with room for two events, two publishers, four events, and
\* the broker ends twice.  Coordinator: two workers of one slot each, a job that fails
\* until it is buried, and breakers that open at its first failure.  The events and
\* the job are bounded, so both may stop.
SPECIFICATION ProgressSpec
CONSTANTS
    Subscribers = {s1, s2}
    Publishers = {p1, p2}
    SocketSize = 2
    MaxEvents = 4
    MaxCrashes = 2
    Worker = {w1, w2}
    Job = {j1}
    None = None
    Threshold = 1
INVARIANT
    TypeOK
PROPERTIES
    HandlesInSequence
    ImplementsTopic
    BusReturns
    JobsSettle
CHECK_DEADLOCK FALSE
