\* Two names, and two processes that may both die by themselves.
CONSTANTS
    MinWorkers = 0
    MaxWorkers = 2
    DynamicCapacity = 1
    MaxProcesses = 2
    MaxJobs = 1
    MaxDeaths = 2
SPECIFICATION FairSpec
PROPERTIES
    EventuallyScaledDown
    
