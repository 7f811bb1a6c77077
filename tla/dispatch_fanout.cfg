SPECIFICATION Spec
CONSTANTS
    Txs = {t1, t2}
    Keys = {}
    Requests = {NoKey}
    Registry = {h1, h2}
    AllowNoHandlers = FALSE
    MaxEvents = 2
    MaxDispatches = 2
    Purging = TRUE
    Careless = TRUE
    NoTx = NoTx
    NoKey = NoKey
INVARIANTS NoOrphanRow UnsettledJobHasRow
SYMMETRY Symmetry
CHECK_DEADLOCK FALSE
