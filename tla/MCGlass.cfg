CONSTANTS
    Win = {"a", "b"}
    Fixed = {"a"}
    Title = {"t", "u"}
    Look <- Looks
    Line = {"none", "l"}
    Picture = {"p"}
    ParcelCells = 1
    MaxChanges = 3
    NoWin = NoWin
    Rows = 1
    Paint = {0, 1}
    Authorities = {"on", "verify"}
    FlushPolicies = {"baselined"}
    NoCopy = NoCopy
    NoSlot = NoSlot
    TexSize <- SmallTexture
    CanvasSize <- SmallCanvas
    Buffers <- SomeBuffers
    BufferDamages <- SomeBufferDamages
    Jobs <- SomeJobs
    NoTexture = NoTexture
    NoJob = NoJob
    Tex = {"t"}
    Sources = {"imported", "uploaded"}
    TextureDraws = 1
    MaxDraws = 2
    MaxRefused = 1
    ScanWidth = 3
    ScanHeight = 3
    ElementLists <- SomeElements
SPECIFICATION GlassSpec
INVARIANTS
    GlassTypeOK
    ShowsTheScene
    BlitPaintsTheDamage
    ObjectsOutliveTheirUse
    ScanIsTrue
PROPERTIES
    ScreenIsCurrent
CHECK_DEADLOCK FALSE
