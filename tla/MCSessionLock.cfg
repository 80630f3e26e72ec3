CONSTANTS
    l1 = l1
    l2 = l2
    l3 = l3
    s1 = s1
    s2 = s2
    LockId <- ThreeLocks
    NoLock = NoLock
    Surface <- TwoSurfaces
    OutputHandle = {"o"}
SPECIFICATION LockSurfaceSpec
SYMMETRY Interchangeable
INVARIANTS
    LockTypeOK
    HolderIsServed
    LockScreenHolds
PROPERTIES
    SealStaysWithItsHolder
    KeepsThePromise
CHECK_DEADLOCK FALSE
