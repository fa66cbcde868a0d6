SPECIFICATION Spec
CONSTANTS
    create = create
    destroy = destroy
    next = next
    run1 = run1
    vm1 = vm1
    Keys <- Commands
    Runs = {run1}
    Runtimes = {vm1}
    RunOf <- OneRun
    FenceOf <- Fences
    OperationOf <- OperationNames
    RuntimeOf <- OneRuntime
    MaxFrames = 2
    MaxDeliveries = 1
    MaxCrashes = 1
    MaxFailures = 1
    Reboots = TRUE
CHECK_DEADLOCK FALSE
INVARIANTS
    TypeOK
    EffectOnce
    AdmittedBeforeEffect
    EffectIsNotRefused
    AnswersAreJournalled
PROPERTIES
    JournalOnlyGrows
    ImplementsLedger
