CONSTANTS
    Replicas = {s, r}
    Self = s
    NParts = 2
    Txns = {t1, t2}
    NoTxn = NoTxn
    MaxClk = 3
    Timestamps <- ChainTimestamps
    KeepWholeLog = TRUE
    MinTxnsToGroup = 2
    MaxTxnsPerGroup = 1000
    MaxCycles = 2
    MaxTimeouts = 0
SPECIFICATION Spec
CONSTRAINT Neighbours
SYMMETRY Symmetry
INVARIANTS   GroupsShareDependencies
CHECK_DEADLOCK FALSE
