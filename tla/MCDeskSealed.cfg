CONSTANTS
    w1 = w1
    w2 = w2
    w3 = w3
    y1 = y1
    k1 = k1
    NoOne = NoOne
    Window <- OneWindow
    Layer <- OneLayer
    Screen <- OneScreen
    Id <- Surfaces
    BehindLock <- SomeDeeds
    Layouts <- EitherLayout
SPECIFICATION DeskSpec
INVARIANTS
    DeskTypeOK
    SealedKeyboard
