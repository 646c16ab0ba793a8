\* Three replicas with two partitions: messages of two senders interleave, and a
\* transaction may depend on one that arrives later.
SPECIFICATION Spec
CONSTANTS
    Replicas = {1, 2, 3}
    Partitions = {1, 2}
    MaxTxns = 2
    MinTxnsToGroup = 2
    MaxTxnsPerGroup = 2
INVARIANTS AppliedOnce  CausalOrderOfCovered
CHECK_DEADLOCK FALSE
