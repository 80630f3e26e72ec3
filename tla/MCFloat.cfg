CONSTANTS
    a = a
    Win = {"a"}
    Kind <- ManagedOnly
    OwnSize <- OwnSizes
    DragSpot <- DragSpots
    Arrow = {"Below"}
    Px <- SmallScreen
    Dock = 1
    MaxGrabs = 1
    NoWin = NoWin
    Worlds <- SomeWorlds
    Bad = Bad
    Module = {a}
    NoWorld = NoWorld
    NoCell = NoCell
    MaxGeneration = 3
    MaxBacklog = 2
    MaxLevel = 7
    Steps <- LevelSteps
    MaxCommands = 2
    MaxSleeps = 2
    Pane = {p1, p2, p3}
    NoPane = NoPane
    Bounds <- Zone
    GAP = 1
    DeltaPercent = 25
    MinPercent = 25
    WorldFiles <- BindingWorlds
    Reserved <- WaysOut
    UnseenKeys = {"Pause"}
    Asked <- AskedDeeds
SPECIFICATION FloatWorldPowerSpec
INVARIANTS
    FloatWorldPowerTypeOK
    PowerSettles
    TilingHolds
PROPERTIES
    DraggedStaysPut
    TheLastWorldStands
    BindingsHold
CHECK_DEADLOCK FALSE
