SPECIFICATION Spec
CONSTANTS
    Replicas = {1, 2, 3}
    Keys = {"a"}
    KeySlots = 2
    Bound = 1
    InitialValue = 12
    CompEq = FALSE
    LaterBounds = {}
    Amounts = {2, 4}
    Joiners = {3}
    MaxOps = 3
    MaxAsks = 2
INVARIANTS  PermissionsMatchValue SameCounters
CHECK_DEADLOCK FALSE
