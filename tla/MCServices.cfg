CONSTANTS
    surface1 = surface1
    surface2 = surface2
    node1 = node1
    node2 = node2
    shot1 = shot1
    Policies <- SomePolicies
    Never = Never
    Surface = {surface1, surface2}
    RespawnFirst = 1
    RespawnLast = 2
    MaxIdle = 2
    MaxAsking = 1
    MaxNotes = 2
    MaxChildren = 2
    MaxPending = 1
    Node = {node1, node2}
    NoNode = NoNode
    Usable = {node1}
    MaxFd = 3
    MaxSwitch = 1
    MaxPlug = 2
    Shot = {shot1}
    Region <- SomeRegions
    OutputSize <- SmallOutput
    MaxAsked = 1
    MaxFailures = 1
    MaxScenes = 1
SPECIFICATION ServicesSpec
INVARIANTS
    ServicesTypeOK
    GoneIsTold
    DevicesAreOurs
PROPERTIES
    NothingBeforeItsTime
    NothingStaysDead
    PicturesAreAnswered
CHECK_DEADLOCK FALSE
