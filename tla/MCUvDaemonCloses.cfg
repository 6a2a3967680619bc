\* A client closes the connection while a write to it waits.
SPECIFICATION FairSpec
CHECK_DEADLOCK FALSE
CONSTANTS
    m1 = m1
    m2 = m2
    c1 = c1
    c2 = c2
    Message = {m1, m2}
    HeaderLen = 2
    FieldLen = 1
    FrameLen = 3
    SizeMod = 64
    Clients = {c1, c2}
    Slow = {c1}
    Receiver = c1
    Made <- MCMade
    ClosesWhileWriting = TRUE
    InitSize = 2
    InitInc = 1
    InitMax = 3
PROPERTY
    KeepsTicking
