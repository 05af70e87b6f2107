SPECIFICATION Spec
CONSTANTS
    Threshold = 3
    LongCalls = FALSE
    MaxCalls = 8
    MaxRemovals = 0
INVARIANT
    AlertsNameTransitions
CHECK_DEADLOCK FALSE
