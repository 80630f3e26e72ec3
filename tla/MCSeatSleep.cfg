CONSTANTS
    l1 = l1
    l2 = l2
    LockId <- OneLock
    NoLock = NoLock
    HasLockClient = TRUE
    LocksBeforeSleep = TRUE
    MaxRefusals = 1
    PromptVBlank = TRUE
    SleepsElsewhere = FALSE
SPECIFICATION SeatSafety
PROPERTIES
    SleepsHidden
