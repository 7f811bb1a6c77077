SPECIFICATION Spec
CONSTANTS
    Events = {e1}
    Handlers = {h1}
    MaxAttempts = 2
    Concurrency = 2
    Configs <- DropOne
    Faults <- NoFaults
    ExpiryPhases <- LateHandler
    CancelPhases <- NoPhases
    Reaping <- AnyReaping
    MaxClaims = 4
    MaxCrashes = 2
INVARIANTS TypeOK OwnerHoldsRow SettledTogether NoDeadSent
PROPERTIES StaleMarkIsFenced
CHECK_DEADLOCK FALSE
