SPECIFICATION Spec
CONSTANTS
    Events = {e1}
    Handlers = {h1}
    MaxAttempts = 2
    Concurrency = 2
    Configs <- DropOne
    Faults <- AllFaults
    ExpiryPhases <- AllPhases
    CancelPhases <- AllCancels
    Reaping <- AnyReaping
    MaxClaims = 3
    MaxCrashes = 1
INVARIANTS RowsMeetCheck ErrorExplainsStatus NoSilentLoss
PROPERTIES VerdictFinal NoRunAfterVerdict AttemptsMonotone ImplementsLifecycle
CHECK_DEADLOCK FALSE
