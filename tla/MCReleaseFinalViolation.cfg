SPECIFICATION Spec
CONSTANTS
    Procs = {1, 2}
    Kinds = {"security"}
    NTasks = 1
    MaxCalls = 5
    MaxFaults = 0
CHECK_DEADLOCK FALSE
PROPERTY
    ReleaseIsFinal
