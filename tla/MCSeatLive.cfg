CONSTANTS
    l1 = l1
    l2 = l2
    LockId <- OneLock
    NoLock = NoLock
    HasLockClient = TRUE
    LocksBeforeSleep = TRUE
    MaxRefusals = 1
    PromptVBlank = FALSE
    SleepsElsewhere = FALSE
SPECIFICATION SeatSpec
PROPERTIES
    HolderIsTold
    SeatAnswers
