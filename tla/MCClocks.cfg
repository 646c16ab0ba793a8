CONSTANTS
    Replicas = {s}
    Self = s
    NParts = 2
    Txns = {t1, t2}
    NoTxn = NoTxn
    NoEffect = {}
    MaxTime = 1
    StaticUpdaters = {t1, t2}
    Interactive = {}
    StaticReaders = {}
    FastSingleRead = FALSE
    MaxObjects = 2
    MaxOps = 0
    MaxSafeClk = 1
SPECIFICATION FairSpec
INVARIANTS
    SafeClkIsSafe
PROPERTIES
    ClocksAdvance
    PromiseKept
    CommitCompletes
    
CHECK_DEADLOCK FALSE
