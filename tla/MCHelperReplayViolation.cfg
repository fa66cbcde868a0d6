SPECIFICATION Spec
CONSTANTS
    create = create
    destroy = destroy
    next = next
    run1 = run1
    vm1 = vm1
    Keys <- Lifecycle
    Runs = {run1}
    Runtimes = {vm1}
    RunOf <- OneRun
    FenceOf <- Fences
    OperationOf <- OperationNames
    RuntimeOf <- OneRuntime
    MaxFrames = 1
    MaxDeliveries = 2
    MaxCrashes = 0
    MaxFailures = 0
    Reboots = FALSE
CHECK_DEADLOCK FALSE
PROPERTIES
    ResultIsFinal
