SPECIFICATION Spec
CONSTANTS
    a = a
    b = b
    Timers = {a, b}
    NoTimer = NoTimer
    Domain = 8
    Delays = {1, 2}
    Types = {1, 2}
    Adjustments = {0}
    IdleOps = {"init", "cancel", "release"}
    CallbackOps = {"cancel", "release"}
    MaxGeneration = 2
    MaxReferences = 3
    MaxLag = 1
CHECK_DEADLOCK FALSE
SYMMETRY TimerSymmetry
INVARIANTS ListIsRight
