SPECIFICATION Spec
CONSTANTS
    create = create
    destroy = destroy
    next = next
    run1 = run1
    vm1 = vm1
    Keys <- OneCommand
    Runs = {run1}
    Runtimes = {vm1}
    RunOf <- OneRun
    FenceOf <- Fences
    OperationOf <- OperationNames
    RuntimeOf <- OneRuntime
    MaxFrames = 2
    MaxDeliveries = 2
    MaxCrashes = 1
    MaxFailures = 0
    Reboots = TRUE
CHECK_DEADLOCK FALSE
INVARIANTS
    EffectOnce
