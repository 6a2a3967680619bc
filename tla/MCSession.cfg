\* A sender and a receiver, with and without a handshake that they may disagree
\* about, on a connection that may be lost.  Both loops end.
SPECIFICATION FairSpec
CHECK_DEADLOCK FALSE
CONSTANTS
    m1 = m1
    m2 = m2
    Message = {m1, m2}
    HeaderLen = 2
    FieldLen = 1
    FrameLen = 2
    SizeMod = 64
    InitSize = 2
    InitInc = 1
    InitMax = 3
    AnswerSize = 4
    AnswerInc = 1
    AnswerMax = 4
    Bidirectional = {TRUE, FALSE}
    MaxFrames = 2
    MayLose = TRUE
INVARIANTS
    HandshakeAgreed
    EndToEnd
    FailsForAReason
    SenderTakesIt
PROPERTIES
    ImplementsFrameStream
    KeepsPromise
    FirstIsWritten
