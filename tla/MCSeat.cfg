CONSTANTS
    l1 = l1
    l2 = l2
    LockId <- TwoLocks
    NoLock = NoLock
    HasLockClient = TRUE
    LocksBeforeSleep = TRUE
    MaxRefusals = 1
    PromptVBlank = TRUE
    SleepsElsewhere = TRUE
SPECIFICATION SeatSafety
INVARIANTS
    SeatTypeOK
    LockedMeansCovered
    DarkPanelIsBlack
    LoopWaitsRightly
PROPERTIES
    ImplementsSessionLock
