SPECIFICATION Spec
CONSTANTS
    k1 = k1
    k2 = k2
    s1 = s1
    s2 = s2
    r1 = r1
    r2 = r2
    kindA = kindA
    kindB = kindB
    noSnapshot = noSnapshot
    noView = noView
    Keys = {k1}
    Snapshots = {s1, s2}
    NoSnapshot = noSnapshot
    NoView = noView
    Slots = {r1, r2}
    ReviewKinds = {kindA, kindB}
    HasResolver = TRUE
    WorkerMoves <- RecoveringMoves
    Offered <- Operations
    MaxVersion = 6
    MaxCrashes = 1
SYMMETRY Symmetry
CHECK_DEADLOCK FALSE
INVARIANTS
    TypeOK
    EventLogIsHistory
    HistoryFollowsTable
    CancelledIsFenced
    RepliesAreHistory
    CopyIsHonest
    AttemptHasSnapshot
PROPERTIES
    TerminalIsFrozen
    NothingIsLost
