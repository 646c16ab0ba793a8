\* A transaction that arrives before the one it depends on is put on hold.
SPECIFICATION Spec
CONSTANTS
    Replicas = {1, 2, 3}
    Partitions = {1, 2}
    MaxTxns = 2
    MinTxnsToGroup = 2
    MaxTxnsPerGroup = 2
INVARIANT NothingReadyOnHold
CHECK_DEADLOCK FALSE
