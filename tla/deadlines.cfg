SPECIFICATION Spec
CONSTANTS
    HandlerIds = {"h", "", "too long"}
    IdBytes <- Bytes
    EventTypes = {t1}
    Configs <- SomeConfigs
    Timeouts <- SomeTimeouts
    Limits <- SomeLimits
    MaxHandlers = 2
    MayBlock = TRUE
    MaxClaims = 2
    MaxCrashes = 1
    MaxTime = 8
INVARIANTS MarkHasTime LeaseCovers RefusedOnlyLate
CHECK_DEADLOCK FALSE
