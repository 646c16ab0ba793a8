CONSTANTS
    Replicas = {s}
    Self = s
    NParts = 2
    Txns = {t1, t2}
    NoTxn = NoTxn
    MaxClk = 3
    Timestamps <- SomeTimestamps
    KeepWholeLog = FALSE
    MinTxnsToGroup = 15
    MaxTxnsPerGroup = 1000
    MaxCycles = 2
    MaxTimeouts = 1
SPECIFICATION Spec
ACTION_CONSTRAINT CopiedInTime
CONSTRAINT OnePartitionEach
SYMMETRY Symmetry
INVARIANTS
    
    CacheEndsWithClk
CHECK_DEADLOCK FALSE
