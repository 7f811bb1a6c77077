SPECIFICATION Spec
CONSTANTS
    Txs = {t1, t2}
    Keys = {k1, k2}
    Requests = {k1, k2}
    Registry = {}
    AllowNoHandlers = TRUE
    MaxEvents = 4
    MaxDispatches = 2
    Purging = TRUE
    Careless = TRUE
    NoTx = NoTx
    NoKey = NoKey
INVARIANTS TypeOK KeyNamesLiveEvent OneEventPerKey DuplicateHolds
SYMMETRY Symmetry
CHECK_DEADLOCK FALSE
