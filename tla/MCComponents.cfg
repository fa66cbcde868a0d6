SPECIFICATION Spec
CONSTANTS
    ReleaseProcs = {1}
    AuthorOf <- MCAuthorOf
    Isolated = TRUE
    ReleaseCalls = 3
    ReleaseFaults = 3
    PublicProcs = {1, 2}
    Kinds = {"security"}
    NTasks = 1
    PublicCalls = 5
    PublicFaults = 1
    Artifacts <- Staged
    Paths = {"x", "y"}
    PackageProcs = {1, 2}
    MaxEdits = 1
    PackageFaults = 1
    PackageCalls = 2
    BrokerCalls = {1, 2}
    BrokerFaults = 2
    CommandCalls = {1, 2}
    TaskEvidence = {"e1", "e2"}
    AdmittedEvidence = {"e1"}
    StreamLimit = 4
    TaskEvents = 5
    AgentEvidence = {"e1", "e2"}
    Allowed = {"e1"}
    OutputBytes = 1
    AgentAttempts = 2
    RuntimeCalls = 2
    RuntimeFaults = 3
    EntryNames = {"a", "b"}
    EntryContents = {0, 1}
    SourceChanges = 2
    CaptureCalls = 2
    SshCalls = 4
    SshFaults = 3
    Payloads <- Plans
    ReleaseMaximum = 3
    CatalogMaximum = 1
    Callers = {1, 2}
    ControlTime = 1
    MaxFence = 2
    ControlCalls = 4
    Handles = {1, 2}
    Choices <- Decisions
    Capabilities = {"source", "runtime"}
    Attested = {"source"}
    TokenLife = 1
    TimerMaximum = 1
    InputsTime = 3
    MaxRow = 3
    MaxRestarts = 1
    Tabs = {1, 2}
    Shown = 2
    MaxRuns = 2
    RunChanges = 2
    MaxLoads = 1
    Installers = {1, 2}
    FileCount = 2
    Releases = {"v1", "v2"}
    IndexIsFree = TRUE
    InstallCalls = 2
    InstallEvents = 2
    Launches = {"l1", "l2", "l3"}
    IdAttempts = 3
CHECK_DEADLOCK FALSE
INVARIANTS
    TypeOK
    DraftIsHonest
    CertificateIsEarned
    AdmittedIsWritten
    OneHolder
    RecordsAreTrue
    ReturnedIsSettled
    DocumentIsHonest
    ProposalIsEarned
    FlowIsAccounted
    SnapshotIsAnInstant
    SourceIsAccounted
    ProbesAreAuthorised
    TakenIsBound
    PackageIsSealed
    SecretsAreHeld
    ConsoleIsInformed
    InstallationIsWhole
    EngagementIsOne
PROPERTIES
    IntegrityIsFinal
