CONSTANTS
    w1 = w1
    w2 = w2
    w3 = w3
    y1 = y1
    k1 = k1
    NoOne = NoOne
    Window <- TwoWindows
    Layer = {}
    Screen = {}
    Id <- Surfaces
    BehindLock = {}
    Layouts <- EitherLayout
SYMMETRY WindowSymmetry
SPECIFICATION DeskSpec
PROPERTIES
    RestoredHasTheKeyboard
