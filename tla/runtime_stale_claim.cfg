SPECIFICATION Spec
CONSTANTS
    Events = {e1}
    Handlers = {h1}
    MaxAttempts = 2
    Concurrency = 2
    Configs <- DropOne
    Faults <- NoFaults
    ExpiryPhases <- EarlyPhase
    CancelPhases <- NoPhases
    Reaping <- KeepAttempts
    MaxClaims = 4
    MaxCrashes = 0
PROPERTIES StaleMarkIsFenced
CHECK_DEADLOCK FALSE
