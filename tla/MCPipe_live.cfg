SPECIFICATION FairSpec
CONSTANTS
    SegmentSize = 2
    MaxSegments = 2
    b1 = b1
    b2 = b2
    Blocks = {b1, b2}
    BlockingIn = FALSE
    BlockingOut = TRUE
    ForeignClose = FALSE
    MayRefuse = FALSE
    AllocMayFail = FALSE
    MayInterrupt = TRUE
    MaxCount = 3
    MaxBytes = 5
CHECK_DEADLOCK FALSE
INVARIANT OneCallback
PROPERTIES EofIsFinal Progress
