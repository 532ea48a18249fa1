SPECIFICATION FairSpec
CONSTANTS
    t1 = t1
    t2 = t2
    t3 = t3
    t4 = t4
    r1 = r1
    r2 = r2
    r3 = r3
    Threads = {t1, t2, t3, t4}
    Runnables = {r1, r2}
    NoRequest = NoRequest
    mMinThreads = 1
    mMaxThreads = 3
    MaxPending = 4
CHECK_DEADLOCK FALSE
INVARIANTS RunsAlone NoIdleBesideWork ShutdownIsClean
PROPERTIES ImplementsExecutor Progress
