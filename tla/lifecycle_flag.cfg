SPECIFICATION Spec
CONSTANTS
    Callers = {c1, c2, c3}
    MayPanic = TRUE
    MaxCalls = 2
INVARIANTS OneWorker FlagHonest
PROPERTIES StartsOnce
CHECK_DEADLOCK FALSE
