SPECIFICATION Spec
CONSTANTS
    IntBits = 3
    SeedOf <- OwnSecond
    Numbers = {1, 2}
    Elements = {1, 2}
    Keys = {1, 2}
    Times = {1, 2}
    TopIds = {1, 2}
    TopScores = {1, 2}
    Positions = {1, 2}
    RangeKinds = {"int"}
    DefaultTopSize = 1
    Replicas = {1, 2, 3}
    Types = {"counter", "float", "pair", "avg", "max", "min", "ew", "dw", "lwwflag", "lwwreg", "set", "map",
        "topk", "topkrmv", "topsum", "ints", "floats", "regs", "avgs", "marray", "carray", "cincs", "embmap"}
    Hosts <- BucketOf
    MaxOps <- UpdatesOf
    MaxGenerated = 1
    Joiner <- JoinLast
    CNew <- InitializeCrdt
    CUpdates <- TypeUpdates
    CEnvs <- Environments
    CApi <- UpdateProtoToAntidoteUpdate
    CUpdate <- TypeUpdate
    CApply <- TypeApply
    CFits <- TypeFits
    CUndo <- TypeUndo
    CWire <- DownstreamProtoToAntidoteDownstream
    CSnap <- StateProtoToCrdt
    CPeek <- TypePeek
    CRead <- TypeRead
    CView <- View
    CReference <- Reference
INVARIANTS   UndoTakesBack PendingReadsAhead NoResurrection
CHECK_DEADLOCK FALSE
