SPECIFICATION Spec
CONSTANTS
    a = a
    b = b
    Timers = {a}
    NoTimer = NoTimer
    Domain = 8
    Delays = {1, 2}
    Types = {0}
    Adjustments = {0}
    IdleOps = {"init", "reinit", "cancel"}
    CallbackOps = {}
    MaxGeneration = 2
    MaxReferences = 3
    MaxLag = 1
CHECK_DEADLOCK FALSE
PROPERTIES NeverEarly
