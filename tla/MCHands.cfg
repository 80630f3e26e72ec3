CONSTANTS
    k1 = k1
    k2 = k2
    s1 = s1
    s2 = s2
    Key = {k1, k2}
    NoKey = NoKey
    Logo = k1
    LockKey = k2
    Remaps <- SomeRemaps
    Slot = {s1, s2}
    Spot <- PadSpots
    TapTravel = 2
    MaxJump = 9
    RestZone = 4
    RightEdge = 0
    TapLimit = 0
    Pads = {TRUE}
    PalmSlot = {s1}
    MaxRaw = 1
    FingerKeys = {50, 66, 77}
    Requests <- SomeRequests
    KeymapConfigs <- SomeLayouts
    MaxQueue = 2
SPECIFICATION HandsSpec
INVARIANTS
    HandsTypeOK
    SeatKeysAreDown
    SealedPointer
PROPERTIES
    GesturesAreWhole
    TypingArrives
CHECK_DEADLOCK FALSE
