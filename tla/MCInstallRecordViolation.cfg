SPECIFICATION Spec
CONSTANTS
    Procs = {1}
    FileCount = 2
    Releases = {"v1", "v2"}
    IndexIsFree = FALSE
    MaxCalls = 1
    MaxEvents = 1
CHECK_DEADLOCK FALSE
INVARIANT
    RecordIsAccepted
