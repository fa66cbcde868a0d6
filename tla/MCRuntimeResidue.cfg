SPECIFICATION Spec
CONSTANTS
    MaxCalls = 2
    MaxFaults = 1
CHECK_DEADLOCK FALSE
INVARIANT
    NothingSurvives
