\* Every call of the writer in any order, popped and written in pieces, with and
\* without a handshake, every answer, errors of the descriptor, the buffer being
\* tuned.  A call after the answer was refused may fail an assertion and stop the
\* program.
SPECIFICATION Spec
CHECK_DEADLOCK FALSE
CONSTANTS
    m1 = m1
    m2 = m2
    Message = {m1, m2}
    HeaderLen = 2
    FieldLen = 1
    FrameLen = 3
    SizeMod = 64
    InitSize = 1
    InitInc = 1
    InitMax = 4
    ReadSize = 1
    ReadInc = 1
    ReadMax = 4
    Bidirectional = {TRUE, FALSE}
    Accepts <- AllAccepts
    Api = {"pop", "write"}
    PopLens = {1, 2, 4}
    MaxFrames = 2
    Tunings = {2, 4, 6}
    MaxTunes = 2
    MoveWithData = FALSE
    PopStops = FALSE
    PopAnswers = FALSE
    ReadyInPieces = FALSE
    ShortWrites = TRUE
    FinishInPieces = TRUE
    IOErrors = TRUE
    AllocMayFail = TRUE
INVARIANTS
    TypeOK
    BufferBounds
    NeverAborts
    OutIntact
    AckedOnce
    AckedOnWire
    StartAfterAccept
    AnswerIntact
