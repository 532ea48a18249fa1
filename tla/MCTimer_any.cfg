SPECIFICATION Spec
CONSTANTS
    a = a
    b = b
    Timers = {a}
    NoTimer = NoTimer
    Domain = 4
    Delays = {1}
    Types = {0, 1, 2}
    Adjustments = {0}
    IdleOps = {"init", "reinit", "cancel", "delay", "type", "release", "shutdown"}
    CallbackOps = {"reinit", "cancel", "delay", "type", "release"}
    MaxGeneration = 2
    MaxReferences = 3
    MaxLag = 0
CHECK_DEADLOCK FALSE
INVARIANTS HandsOff NoOversleep
