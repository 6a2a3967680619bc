\* READY is written in pieces.
SPECIFICATION Spec
CONSTANTS
    m1 = m1
    m2 = m2
    Message = {m1, m2}
    HeaderLen = 2
    FieldLen = 1
    FrameLen = 3
    SizeMod = 64
    InitSize = 1
    InitInc = 1
    InitMax = 4
    ReadSize = 1
    ReadInc = 1
    ReadMax = 4
    Bidirectional = {TRUE}
    Accepts <- GoodAccepts
    Api = {"write"}
    PopLens = {1, 2, 4}
    MaxFrames = 2
    Tunings = {2, 4, 6}
    MaxTunes = 0
    MoveWithData = FALSE
    PopStops = FALSE
    PopAnswers = FALSE
    ReadyInPieces = TRUE
    ShortWrites = TRUE
    FinishInPieces = FALSE
    IOErrors = FALSE
    AllocMayFail = FALSE
INVARIANT
    StartAfterAccept
