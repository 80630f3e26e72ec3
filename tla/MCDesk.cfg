CONSTANTS
    w1 = w1
    w2 = w2
    w3 = w3
    y1 = y1
    k1 = k1
    NoOne = NoOne
    Window <- ThreeWindows
    Layer = {}
    Screen = {}
    Id <- Surfaces
    BehindLock <- SomeDeeds
    Layouts <- Tiling
SYMMETRY WindowSymmetry
SPECIFICATION DeskSpec
INVARIANTS
    WindowsHold
PROPERTIES
    ScreenFollowsTheTables
    KeyboardFindsAWindow
