\* Two clients that come and go, one of them a receiver that may be slow.
\* Its buffer grows in one step, cut short by InitMax, to hold two frames.
SPECIFICATION FairSpec
CHECK_DEADLOCK FALSE
CONSTANTS
    m1 = m1
    m2 = m2
    c1 = c1
    c2 = c2
    Message = {m1, m2}
    HeaderLen = 2
    FieldLen = 1
    FrameLen = 3
    SizeMod = 64
    Clients = {c1, c2}
    Slow = {c1}
    Receiver = c1
    Made <- MCMade
    ClosesWhileWriting = FALSE
    InitSize = 2
    InitInc = 5
    InitMax = 6
INVARIANTS
    ClosesOnce
    StreamIsWhole
    ReceivesWhatWasMade
    CatchesUp
    PushLoopEnds
PROPERTIES
    KeepsTicking
    BusyEnds
