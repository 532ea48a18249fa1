SPECIFICATION FairSpec
CONSTANTS
    ui = ui
    other = other
    Threads = {ui, other}
    NativeThreads = {ui}
    MaxCalls = 3
    MaxQueues = 2
    PipeSize = 2
    NoQueue = NoQueue
    NoThread = NoThread
CHECK_DEADLOCK FALSE
INVARIANTS TypeOK EventsAreAnnounced NoCallIsLost
PROPERTIES ImplementsRemoteCall ComesToRest
