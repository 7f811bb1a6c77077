SPECIFICATION Spec
CONSTANTS
    HandlerIds = {"slow", "fast"}
    IdBytes <- Bytes
    EventTypes = {"t1", "t2"}
    Configs <- NoConfigs
    Timeouts <- SomeTimeouts
    Limits <- SomeLimits
    MaxHandlers = 2
    Events = {e1, e2}
    Plans <- SomePlans
    Slow = {"slow"}
    MaxDeploys = 2
    MaxClaims = 2
INVARIANTS OverLimitIsLegacy MisdirectedOnlyByRedeploy
PROPERTIES NoHeadOfLineBlocking
CHECK_DEADLOCK FALSE
