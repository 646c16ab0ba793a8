CONSTANTS
    Replicas = {s}
    Self = s
    NParts = 2
    Txns = {t1, t2, t3}
    NoTxn = NoTxn
    NoEffect = {t2}
    MaxTime = 2
    StaticUpdaters = {t2}
    Interactive = {t1}
    StaticReaders = {t3}
    FastSingleRead = TRUE
    MaxObjects = 1
    MaxOps = 2
    MaxSafeClk = 0
SPECIFICATION Spec
INVARIANTS TypeOK NothingLeftBehind ReadsOwnUpdates SingleReadIsSnapshot
CHECK_DEADLOCK FALSE
