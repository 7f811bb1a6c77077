SPECIFICATION Spec
CONSTANTS
    Events = {e1}
    Handlers = {h1}
    MaxAttempts = 2
    Concurrency = 2
    Configs <- DropOne
    Faults <- LostReply
    ExpiryPhases <- NoPhases
    CancelPhases <- NoPhases
    Reaping <- KeepAttempts
    MaxClaims = 4
    MaxCrashes = 0
INVARIANTS NoDeadSent
CHECK_DEADLOCK FALSE
