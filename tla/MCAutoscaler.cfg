\* Two dynamic names, three processes, one of which may die by itself: the smallest
\* instance in which a name is made twice.  One job is enough to be popped between
\* the samples, to be sent to a successor, and to be counted for either worker.
CONSTANTS
    MinWorkers = 0
    MaxWorkers = 2
    DynamicCapacity = 1
    MaxProcesses = 3
    MaxJobs = 1
    MaxDeaths = 1
SPECIFICATION Spec
INVARIANTS
    TypeOK
    OrphansNeedGap
    LiveWithinMaximum
PROPERTY
    StopsBusyOnlyUnseen
