SPECIFICATION Spec
CONSTANTS
    k1 = k1
    k2 = k2
    s1 = s1
    s2 = s2
    r1 = r1
    r2 = r2
    kindA = kindA
    kindB = kindB
    noSnapshot = noSnapshot
    noView = noView
    Keys = {k1}
    Snapshots = {s1}
    NoSnapshot = noSnapshot
    NoView = noView
    Slots = {r1}
    ReviewKinds = {kindA, kindB}
    HasResolver = TRUE
    WorkerMoves <- PackagingMoves
    Offered <- PackagingOps
    MaxVersion = 9
    MaxCrashes = 0
CHECK_DEADLOCK FALSE
INVARIANTS
    CompletedIsPackaged
PROPERTIES
    TerminalIsFrozen
