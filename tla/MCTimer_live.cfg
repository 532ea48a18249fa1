SPECIFICATION FairSpec
CONSTANTS
    a = a
    b = b
    Timers = {a}
    NoTimer = NoTimer
    Domain = 8
    Delays = {1, 2}
    Types = {0, 1, 2}
    Adjustments = {0}
    IdleOps = {"init", "reinit", "cancel", "release", "shutdown"}
    CallbackOps = {"cancel", "release"}
    MaxGeneration = 2
    MaxReferences = 3
    MaxLag = 1
CHECK_DEADLOCK FALSE
INVARIANTS ListedAsArmed
PROPERTIES Progress EarlyOnlyByRace
