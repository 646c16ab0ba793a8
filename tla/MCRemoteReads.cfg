SPECIFICATION Spec
CONSTANTS
    IntBits = 3
    SeedOf <- OwnSecond
    Numbers <- PlusMinusOne
    Elements = {1, 2}
    Keys = {1, 2}
    Times = {1, 2}
    TopIds = {1, 2}
    TopScores = {1, 2}
    Positions = {1, 2}
    RangeKinds = {"int"}
    DefaultTopSize = 1
    Replicas = {1, 2}
    Types = {"counter", "float", "pair", "avg", "max", "min", "ew", "dw", "lwwflag", "lwwreg", "set", "map",
        "topk", "topkrmv", "topsum", "avgs", "marray", "carray", "embmap"}
    Hosts <- EveryReplica
    MaxOps <- TwoUpdates
    MaxGenerated = 1
    Joiner = {}
    CNew <- InitializeCrdt
    CUpdates <- TypeUpdates
    CEnvs <- Environments
    CApi <- UpdateProtoToAntidoteUpdate
    CUpdate <- TypeUpdate
    CApply <- TypeApply
    CFits <- TypeFits
    CUndo <- TypeUndo
    CWire <- DownstreamProtoToAntidoteDownstream
    CSnap <- StateProtoToCrdt
    CPeek <- TypePeek
    CRead <- TypeRead
    CView <- View
    CReference <- Reference
INVARIANT RemoteReadsArrive
CHECK_DEADLOCK FALSE
