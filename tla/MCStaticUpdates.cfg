CONSTANTS
    Replicas = {s}
    Self = s
    NParts = 2
    Txns = {t1, t2, t3}
    NoTxn = NoTxn
    NoEffect = {}
    MaxTime = 1
    StaticUpdaters = {t1, t2, t3}
    Interactive = {}
    StaticReaders = {}
    FastSingleRead = FALSE
    MaxObjects = 2
    MaxOps = 0
    MaxSafeClk = 0
SPECIFICATION Spec
SYMMETRY Symmetry
INVARIANTS
    PreparesAreOrdered
    CommitFindsPrepare
    HeldBehindPrepare
    LogInCommitOrder
    ReplyIsTracked
    CompletedIsApplied
    CompletedIsInClock
CHECK_DEADLOCK FALSE
