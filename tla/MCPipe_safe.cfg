SPECIFICATION FairSpec
CONSTANTS
    SegmentSize = 2
    MaxSegments = 2
    b1 = b1
    b2 = b2
    Blocks = {b1, b2}
    BlockingIn = TRUE
    BlockingOut = FALSE
    ForeignClose = TRUE
    MayRefuse = TRUE
    AllocMayFail = TRUE
    MayInterrupt = TRUE
    MaxCount = 3
    MaxBytes = 5
CHECK_DEADLOCK FALSE
INVARIANTS BytesInOrder HeldMemoryIsLive CountsAgree NoMissedWakeup
PROPERTIES ImplementsChannel CloseReleases
