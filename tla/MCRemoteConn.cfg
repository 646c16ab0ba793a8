\* The second transaction has ID 0, which is also the ID of an empty hold.
SPECIFICATION Spec
CONSTANTS
    Receivers = {"r1", "r2"}
    Buckets = {"b1", "b2"}
    Listens <- BothAndOne
    HoldSlots <- SlotEach
    IdBits = 3
    FirstId <- BelowZero
    MaxTxns = 2
    MaxBatch = 2
    MaxBig = 1
    MaxTriggers = 1
CONSTRAINT NothingOvertaken
ACTION_CONSTRAINT TakenAtOnce
INVARIANTS WholeTransactions PassedOnInOrder  NothingStranded
CHECK_DEADLOCK FALSE
