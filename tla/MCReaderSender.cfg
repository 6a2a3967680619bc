\* Every file, a peer that accepts, a socket that may fail.
SPECIFICATION FairSpec
CONSTANTS
    m1 = m1
    m2 = m2
    Message = {m1, m2}
    HeaderLen = 2
    FieldLen = 1
    FrameLen = 3
    SizeMod = 64
    Files <- MCFiles
    Accepts <- GoodAccepts
    InitSize = 2
    InitInc = 1
    InitMax = 4
    AnswerSize = 2
    AnswerInc = 1
    AnswerMax = 3
    IOErrors = TRUE
    MaxFrames = 3
INVARIANTS
    ForwardedInOrder
    WholeWhenStopped
PROPERTIES
    Exits
    FileArrives
