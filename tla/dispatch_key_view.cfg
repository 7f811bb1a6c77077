SPECIFICATION Spec
CONSTANTS
    Txs = {t1}
    Keys = {k1}
    Requests = {k1}
    Registry = {h1, h2}
    AllowNoHandlers = FALSE
    MaxEvents = 2
    MaxDispatches = 1
    Purging = TRUE
    Careless = FALSE
    NoTx = NoTx
    NoKey = NoKey
INVARIANTS SameKeyForAllHandlers
CHECK_DEADLOCK FALSE
