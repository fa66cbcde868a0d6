SPECIFICATION Spec
CONSTANTS
    Procs = {1}
    AuthorOf <- MCAuthorOf
    Isolated = FALSE
    MaxCalls = 3
    MaxFaults = 2
CHECK_DEADLOCK FALSE
INVARIANT
    AttemptsAreFresh
