SPECIFICATION FairSpec
CONSTANTS
    Events = {e1}
    Handlers = {h1, h2}
    MaxAttempts = 2
    Concurrency = 1
    Configs <- DropOne
    Faults <- Passing
    ExpiryPhases <- NoPhases
    CancelPhases <- AllCancels
    Reaping <- KeepAttempts
    MaxClaims = 4
    MaxCrashes = 1
INVARIANTS PurgedOnlySettled
PROPERTIES EveryDeliverySettles
CHECK_DEADLOCK FALSE
