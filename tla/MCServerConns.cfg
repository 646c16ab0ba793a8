SPECIFICATION Spec
CONSTANTS
  Singles = {"s1"}
  Group = {"g1", "g2"}
  PoolId <- OwnId
  KindsOf <- KindsHere
  MaxPool = 2
  MaxLocked = 1
  ReqsSize = 1
  IdChanSize = 1
  ReuseSize = 1
  MaxReqs <- TwoOfSingle
  MaxAccepts <- Once
INVARIANTS IdsNotShared ReplyIsOwn NobodyLeftWaiting
CHECK_DEADLOCK FALSE
