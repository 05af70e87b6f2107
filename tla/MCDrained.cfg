\* One name, one process, one job, which the assigner may have in its hand when the
\* loop samples.
CONSTANTS
    MinWorkers = 0
    MaxWorkers = 1
    DynamicCapacity = 1
    MaxProcesses = 1
    MaxJobs = 1
    MaxDeaths = 0
SPECIFICATION Spec
PROPERTY
    StopsOnlyIdle
