\* Every stream, pushed or read in pieces of any size, with short writes and
\* errors of the descriptor, the buffer being tuned.
SPECIFICATION Spec
CONSTANTS
    m1 = m1
    m2 = m2
    Message = {m1, m2}
    HeaderLen = 2
    FieldLen = 2
    FrameLen = 3
    SizeMod = 64
    Streams <- AllStreams
    InitSize = 2
    InitInc = 1
    InitMax = 6
    WriteSize = 5
    WriteInc = 1
    WriteMax = 6
    Bidirectional = {TRUE, FALSE}
    Api = {"push", "read"}
    OutLens = {1, 4}
    Tunings = {1, 5, 9}
    MaxTunes = 1
    ShortWrites = TRUE
    IOErrors = TRUE
    AllocMayFail = TRUE
INVARIANTS
    TypeOK
    BufferBounds
    NeverAborts
    WindowIntact
    DeliveredInOrder
    EndsAtStop
    AnswersIntact
PROPERTIES
    OnlyExpands
    NeedMoreNeedsMore
    NeedMoreTookAll
