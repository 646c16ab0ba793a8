----------------------- MODULE TransactionManagerProofs -----------------------
(***************************************************************************)
(* Theorems about TransactionManager, for every number of partitions, of   *)
(* transactions and of replicas and for every reading of the wall clock.   *)
(***************************************************************************)
EXTENDS TransactionManager, TLAPS, SequenceTheorems, WellFoundedInduction

-----------------------------------------------------------------------------
(* The clock operators stay within the clocks *)

\* NewTimestamp is a clock.
LEMMA NewTimestampType == NewTimestamp \in Clock
BY DEF NewTimestamp, Clock

\* NextTimestamp gives a clock that only differs, and is higher, at the given id.
LEMMA NextTimestampType ==
    ASSUME NEW c \in Clock, NEW id \in Replicas, NEW time \in Nat
    PROVE  /\ NextTimestamp(c, id, time) \in Clock
           /\ NextTimestamp(c, id, time)[id] > c[id]
           /\ \A r \in Replicas \ {id} : NextTimestamp(c, id, time)[r] = c[r]
BY DEF NextTimestamp, Clock

\* UpdatePos gives a clock.
LEMMA UpdatePosType ==
    ASSUME NEW c \in Clock, NEW id \in Replicas, NEW v \in Nat
    PROVE  /\ UpdatePos(c, id, v) \in Clock
           /\ UpdatePos(c, id, v)[id] >= v
           /\ \A r \in Replicas \ {id} : UpdatePos(c, id, v)[r] = c[r]
BY DEF UpdatePos, Clock

\* Merge gives the least clock that is at or above both.
LEMMA MergeType ==
    ASSUME NEW c \in Clock, NEW d \in Clock
    PROVE  /\ Merge(c, d) \in Clock
           /\ IsLowerOrEqual(c, Merge(c, d))
           /\ IsLowerOrEqual(d, Merge(c, d))
BY DEF Merge, Clock, IsLowerOrEqual

\* MaxTimestamp keeps one of its arguments.
LEMMA MaxTimestampType ==
    ASSUME NEW c \in Clock, NEW d \in Clock
    PROVE  MaxTimestamp(c, d) \in Clock
BY DEF MaxTimestamp

\* getNextClk: the proposed clock is above the last one at Self, and is the stable
\* clock everywhere else.
LEMMA NextClkType ==
    ASSUME MatTypeOK, NEW p \in Partitions, NEW time \in Nat
    PROVE  /\ NextClk(p, time) \in Clock
           /\ NextClk(p, time)[Self] > lastUsedTs[p]
           /\ \A r \in Replicas \ {Self} : NextClk(p, time)[r] = stableClk[p][r]
<1> DEFINE new == NextTimestamp(stableClk[p], Self, time)
<1>1. /\ stableClk[p] \in Clock /\ lastUsedTs[p] \in Nat /\ Self \in Replicas
  BY MaterializerConstants DEF MatTypeOK
<1>2. /\ new \in Clock
      /\ \A r \in Replicas \ {Self} : new[r] = stableClk[p][r]
  BY <1>1, NextTimestampType
<1> HIDE DEF new
<1>3. new[Self] \in Nat
  BY <1>1, <1>2 DEF Clock
<1>4. CASE new[Self] <= lastUsedTs[p]
  <2>1. NextClk(p, time) = UpdatePos(new, Self, lastUsedTs[p] + 1)
    BY <1>4 DEF NextClk, new
  <2> QED BY <2>1, <1>1, <1>2, UpdatePosType DEF Clock
<1>5. CASE ~(new[Self] <= lastUsedTs[p])
  <2>1. NextClk(p, time) = new
    BY <1>5 DEF NextClk, new
  <2> QED BY <2>1, <1>1, <1>2, <1>3, <1>5
<1> QED BY <1>4, <1>5

-----------------------------------------------------------------------------
(* Type correctness *)

\* A prepared clock is above 0 at Self (UnixNano, or one more than an earlier clock),
\* so handleMatSafeClk can subtract 1.
PositivePrepares == \A p \in Partitions : \A e \in prepClks[p] : e.clk[Self] > 0

TypeInv == TypeOK /\ PositivePrepares

\* What a partition finds at the head of its channel has the type of a request.
LEMMA TakesType ==
    ASSUME MatTypeOK, NEW p \in Partitions, NEW type, Takes(p, type)
    PROVE  /\ channels' \in [Partitions -> Seq(MatRequest)]
           /\ Head(channels[p]) \in MatRequest
           /\ Head(channels[p]).clk \in Clock
           /\ type # "safeClk" => Head(channels[p]).txn \in Txns
<1>1. channels[p] \in Seq(MatRequest) /\ channels[p] # <<>> /\ Head(channels[p]).type = type
  BY DEF MatTypeOK, Takes
<1>2. Head(channels[p]) \in MatRequest /\ Tail(channels[p]) \in Seq(MatRequest)
  BY <1>1
<1>3. channels' \in [Partitions -> Seq(MatRequest)]
  BY <1>2 DEF MatTypeOK, Takes
<1> QED BY <1>1, <1>2, <1>3 DEF MatRequest, TxnReqTypes

\* prepareClock keeps the types, and the prepared clocks above 0.
LEMMA PrepareClockType ==
    ASSUME MatTypeOK, PositivePrepares, NEW p \in Partitions, NEW t \in Txns, NEW time \in Nat,
           PrepareClock(p, t, time)
    PROVE  /\ now' \in Nat
           /\ lastUsedTs' \in [Partitions -> Nat]
           /\ prepClks' \in [Partitions -> SUBSET TxnClkPair]
           /\ replyChan' \in [Txns -> Seq(Clock)]
           /\ PositivePrepares'
<1> DEFINE new == NextClk(p, time)
<1>1. new \in Clock /\ new[Self] \in Nat /\ new[Self] > lastUsedTs[p] /\ lastUsedTs[p] \in Nat
  BY NextClkType, MaterializerConstants DEF MatTypeOK, Clock
<1>2. /\ now' = time
      /\ lastUsedTs' = [lastUsedTs EXCEPT ![p] = new[Self]]
      /\ prepClks' = [prepClks EXCEPT ![p] = @ \cup {[txn |-> t, clk |-> new]}]
      /\ replyChan' = [replyChan EXCEPT ![t] = Append(@, new)]
  BY DEF PrepareClock
<1> HIDE DEF new
<1>3. now' \in Nat /\ lastUsedTs' \in [Partitions -> Nat]
  BY <1>1, <1>2 DEF MatTypeOK
<1>4. prepClks' \in [Partitions -> SUBSET TxnClkPair]
  BY <1>1, <1>2 DEF MatTypeOK, TxnClkPair
<1>5. replyChan' \in [Txns -> Seq(Clock)]
  BY <1>1, <1>2 DEF MatTypeOK
<1>6. PositivePrepares'
  <2> SUFFICES ASSUME NEW q \in Partitions, NEW e \in prepClks'[q]
               PROVE  e.clk[Self] > 0
    BY DEF PositivePrepares
  <2>1. CASE e \in prepClks[q]
    BY <2>1 DEF PositivePrepares
  <2>2. CASE e \notin prepClks[q]
    <3>1. e = [txn |-> t, clk |-> new]
      BY <2>2, <1>2 DEF MatTypeOK
    <3> QED BY <3>1, <1>1
  <2> QED BY <2>1, <2>2
<1> QED BY <1>3, <1>4, <1>5, <1>6

\* applyCommit keeps the types.
LEMMA ApplyCommitType ==
    ASSUME MatTypeOK, NEW p \in Partitions, NEW t \in Txns, NEW clk \in Clock,
           ApplyCommit(p, t, clk)
    PROVE  /\ db' \in [Partitions -> SUBSET Txns]
           /\ stableClk' \in [Partitions -> Clock]
           /\ logChan' \in [Partitions -> Seq(LogRequest)]
           /\ pendingOps' \in [Partitions -> SUBSET Txns]
           /\ commitChan' \in Seq(CommitInfo)
<1>1. db' \in [Partitions -> SUBSET Txns] /\ pendingOps' \in [Partitions -> SUBSET Txns]
  BY DEF MatTypeOK, ApplyCommit
<1>2. stableClk' \in [Partitions -> Clock]
  <2>1. Merge(stableClk[p], clk) \in Clock
    BY MergeType DEF MatTypeOK
  <2> QED BY <2>1 DEF MatTypeOK, ApplyCommit
<1>3. logChan' \in [Partitions -> Seq(LogRequest)]
  <2>1. Request("commit", t, clk) \in LogRequest
    BY DEF Request, LogRequest
  <2> QED BY <2>1 DEF MatTypeOK, ApplyCommit
<1>4. commitChan' \in Seq(CommitInfo)
  <2>1. [type |-> "partReply", txn |-> t, n |-> 0, clk |-> NewTimestamp] \in CommitInfo
    BY NewTimestampType DEF CommitInfo
  <2> QED BY <2>1 DEF MatTypeOK, ApplyCommit
<1> QED BY <1>1, <1>2, <1>3, <1>4

\* Every request handler of a partition keeps the types.
LEMMA PartitionStepType ==
    ASSUME MatTypeOK, PositivePrepares, NEW p \in Partitions, PartitionStep(p)
    PROVE  MatTypeOK' /\ PositivePrepares'
<1> USE MaterializerConstants
<1>0. now \in Nat /\ \A time \in now .. MaxTime : time \in Nat
  BY DEF MatTypeOK
<1>1. CASE HandleMatStaticWrite(p)
  <2>1. Takes(p, "staticWrite")
    BY <1>1 DEF HandleMatStaticWrite
  <2>2. Head(channels[p]).txn \in Txns /\ channels' \in [Partitions -> Seq(MatRequest)]
    BY <2>1, TakesType
  <2>3. PICK time \in now .. MaxTime : PrepareClock(p, Head(channels[p]).txn, time)
    BY <1>1 DEF HandleMatStaticWrite
  <2>4. /\ now' \in Nat
        /\ lastUsedTs' \in [Partitions -> Nat]
        /\ prepClks' \in [Partitions -> SUBSET TxnClkPair]
        /\ replyChan' \in [Txns -> Seq(Clock)]
        /\ PositivePrepares'
    BY <1>0, <2>2, <2>3, PrepareClockType
  <2>5. /\ pendingOps' = [pendingOps EXCEPT ![p] = @ \cup {Head(channels[p]).txn}]
        /\ UNCHANGED <<stableClk, commitsOnHold, checkingHold, db, logChan, readChan, commitChan>>
    BY <1>1 DEF HandleMatStaticWrite
  <2>6. pendingOps' \in [Partitions -> SUBSET Txns]
    BY <2>2, <2>5 DEF MatTypeOK
  <2> QED BY <2>2, <2>4, <2>5, <2>6 DEF MatTypeOK
<1>2. CASE HandleMatWrite(p)
  <2>1. Takes(p, "write")
    BY <1>2 DEF HandleMatWrite
  <2>2. Head(channels[p]).txn \in Txns /\ channels' \in [Partitions -> Seq(MatRequest)]
    BY <2>1, TakesType
  <2>3. pendingOps' \in [Partitions -> SUBSET Txns]
    BY <1>2, <2>2 DEF MatTypeOK, HandleMatWrite
  <2> QED BY <1>2, <2>2, <2>3 DEF MatTypeOK, HandleMatWrite, PositivePrepares
<1>3. CASE HandleMatPrepare(p)
  <2>1. Takes(p, "prepare")
    BY <1>3 DEF HandleMatPrepare
  <2>2. Head(channels[p]).txn \in Txns /\ channels' \in [Partitions -> Seq(MatRequest)]
    BY <2>1, TakesType
  <2>3. PICK time \in now .. MaxTime : PrepareClock(p, Head(channels[p]).txn, time)
    BY <1>3 DEF HandleMatPrepare
  <2>4. /\ now' \in Nat
        /\ lastUsedTs' \in [Partitions -> Nat]
        /\ prepClks' \in [Partitions -> SUBSET TxnClkPair]
        /\ replyChan' \in [Txns -> Seq(Clock)]
        /\ PositivePrepares'
    BY <1>0, <2>2, <2>3, PrepareClockType
  <2>5. UNCHANGED <<stableClk, pendingOps, commitsOnHold, checkingHold, db, logChan,
                    readChan, commitChan>>
    BY <1>3 DEF HandleMatPrepare
  <2> QED BY <2>2, <2>4, <2>5 DEF MatTypeOK
<1>4. CASE HandleMatCommit(p)
  <2> DEFINE t == Head(channels[p]).txn
             clk == Head(channels[p]).clk
  <2>1. Takes(p, "commit")
    BY <1>4 DEF HandleMatCommit
  <2>2. t \in Txns /\ clk \in Clock /\ channels' \in [Partitions -> Seq(MatRequest)]
    BY <2>1, TakesType
  <2>3. PICK lowest \in HeapRoots(prepClks[p]) :
           /\ prepClks' = [prepClks EXCEPT ![p] = RemovePrepare(prepClks[p], t, lowest)]
           /\ \E can \in CanCommit(RemovePrepare(prepClks[p], t, lowest), commitsOnHold[p], clk) :
                 /\ \/ can /\ ApplyCommit(p, t, clk) /\ UNCHANGED commitsOnHold
                    \/ ~can /\ HoldCommit(p, t, clk)
                 /\ checkingHold' = [checkingHold EXCEPT
                       ![p] = CallsCheckHold(t, lowest, can) /\ commitsOnHold'[p] # {}]
    BY <1>4 DEF HandleMatCommit
  <2>4. UNCHANGED <<now, lastUsedTs, replyChan, readChan>>
    BY <1>4 DEF HandleMatCommit
  <2> HIDE DEF t, clk
  <2>5. RemovePrepare(prepClks[p], t, lowest) \subseteq prepClks[p]
    BY DEF RemovePrepare
  <2>6. prepClks' \in [Partitions -> SUBSET TxnClkPair] /\ PositivePrepares'
    BY <2>3, <2>5 DEF MatTypeOK, PositivePrepares
  <2>7. checkingHold' \in [Partitions -> BOOLEAN]
    BY <2>3 DEF MatTypeOK, CallsCheckHold
  <2>8. CASE ApplyCommit(p, t, clk) /\ UNCHANGED commitsOnHold
    <3>1. /\ db' \in [Partitions -> SUBSET Txns]
          /\ stableClk' \in [Partitions -> Clock]
          /\ logChan' \in [Partitions -> Seq(LogRequest)]
          /\ pendingOps' \in [Partitions -> SUBSET Txns]
          /\ commitChan' \in Seq(CommitInfo)
      BY <2>2, <2>8, ApplyCommitType
    <3> QED BY <2>2, <2>4, <2>6, <2>7, <2>8, <3>1 DEF MatTypeOK
  <2>9. CASE HoldCommit(p, t, clk)
    <3>1. commitsOnHold' \in [Partitions -> SUBSET TxnClkPair]
      BY <2>2, <2>9 DEF HoldCommit, MatTypeOK, TxnClkPair
    <3> QED BY <2>2, <2>4, <2>6, <2>7, <2>9, <3>1 DEF MatTypeOK, HoldCommit
  <2> QED BY <2>3, <2>8, <2>9
<1>5. CASE CheckHoldCommits(p)
  <2>1. UNCHANGED <<now, lastUsedTs, prepClks, channels, replyChan, readChan>>
    BY <1>5 DEF CheckHoldCommits
  <2>2. PositivePrepares'
    BY <2>1 DEF PositivePrepares
  <2>3. ASSUME NEW h \in HeapRoots(commitsOnHold[p]),
               commitsOnHold' = [commitsOnHold EXCEPT ![p] = @ \ {h}],
               ApplyCommit(p, h.txn, h.clk), UNCHANGED checkingHold
        PROVE  MatTypeOK'
    <3>1. h.txn \in Txns /\ h.clk \in Clock
      BY DEF HeapRoots, MatTypeOK, TxnClkPair
    <3>2. /\ db' \in [Partitions -> SUBSET Txns]
          /\ stableClk' \in [Partitions -> Clock]
          /\ logChan' \in [Partitions -> Seq(LogRequest)]
          /\ pendingOps' \in [Partitions -> SUBSET Txns]
          /\ commitChan' \in Seq(CommitInfo)
      BY <2>3, <3>1, ApplyCommitType
    <3>3. commitsOnHold' \in [Partitions -> SUBSET TxnClkPair]
      BY <2>3 DEF MatTypeOK
    <3> QED BY <2>1, <2>3, <3>2, <3>3 DEF MatTypeOK
  <2>4. ASSUME checkingHold' = [checkingHold EXCEPT ![p] = FALSE],
               UNCHANGED <<commitsOnHold, db, stableClk, logChan, pendingOps, commitChan>>
        PROVE  MatTypeOK'
    BY <2>1, <2>4 DEF MatTypeOK
  <2> QED BY <1>5, <2>2, <2>3, <2>4 DEF CheckHoldCommits
<1>6. CASE HandleMatAbort(p)
  <2>1. Takes(p, "abort")
    BY <1>6 DEF HandleMatAbort
  <2>2. channels' \in [Partitions -> Seq(MatRequest)]
    BY <2>1, TakesType
  <2>3. pendingOps' \in [Partitions -> SUBSET Txns]
    BY <1>6 DEF MatTypeOK, HandleMatAbort
  <2> QED BY <1>6, <2>2, <2>3 DEF MatTypeOK, HandleMatAbort, PositivePrepares
<1>7. CASE HandleMatRead(p)
  <2>1. Takes(p, "read")
    BY <1>7 DEF HandleMatRead
  <2>2. Head(channels[p]).txn \in Txns /\ channels' \in [Partitions -> Seq(MatRequest)]
    BY <2>1, TakesType
  <2>3. readChan' \in [Txns -> SUBSET ReadReply]
    BY <1>7, <2>2 DEF MatTypeOK, HandleMatRead, ReadReply
  <2> QED BY <1>7, <2>2, <2>3 DEF MatTypeOK, HandleMatRead, PositivePrepares, partVars
<1>8. CASE HandleMatStaticSingleRead(p)
  <2>1. Takes(p, "singleRead")
    BY <1>8 DEF HandleMatStaticSingleRead
  <2>2. Head(channels[p]).txn \in Txns /\ channels' \in [Partitions -> Seq(MatRequest)]
    BY <2>1, TakesType
  <2>3. readChan' \in [Txns -> SUBSET ReadReply] /\ replyChan' \in [Txns -> Seq(Clock)]
    BY <1>8, <2>2 DEF MatTypeOK, HandleMatStaticSingleRead, ReadReply
  <2> QED BY <1>8, <2>2, <2>3 DEF MatTypeOK, HandleMatStaticSingleRead, PositivePrepares, partVars
<1>9. CASE HandleMatSafeClk(p)
  <2>1. Takes(p, "safeClk")
    BY <1>9 DEF HandleMatSafeClk
  <2>2. channels' \in [Partitions -> Seq(MatRequest)]
    BY <2>1, TakesType
  <2>3. UNCHANGED <<stableClk, lastUsedTs, prepClks, pendingOps, commitsOnHold, checkingHold,
                    db, replyChan, readChan, commitChan>>
    BY <1>9 DEF HandleMatSafeClk
  <2>4. PositivePrepares'
    BY <2>3 DEF PositivePrepares
  <2>5. ASSUME NEW c \in Clock,
               logChan' = [logChan EXCEPT ![p] = Append(@, Request("clk", NoTxn, c))]
        PROVE  logChan' \in [Partitions -> Seq(LogRequest)]
    <3>1. Request("clk", NoTxn, c) \in LogRequest
      BY DEF Request, LogRequest
    <3> QED BY <2>5, <3>1 DEF MatTypeOK
  <2>6. ASSUME NEW time \in now .. MaxTime, now' = time,
               logChan' = [logChan EXCEPT ![p] = Append(@,
                              Request("clk", NoTxn, NextTimestamp(stableClk[p], Self, time)))]
        PROVE  MatTypeOK'
    <3>1. NextTimestamp(stableClk[p], Self, time) \in Clock /\ now' \in Nat
      BY <1>0, <2>6, NextTimestampType DEF MatTypeOK
    <3> QED BY <2>2, <2>3, <2>5, <2>6, <3>1 DEF MatTypeOK
  <2>7. ASSUME NEW m \in HeapRoots(prepClks[p]), UNCHANGED now,
               logChan' = [logChan EXCEPT ![p] = Append(@,
                      Request("clk", NoTxn, UpdateForcedPos(m.clk, Self, m.clk[Self] - 1)))]
        PROVE  MatTypeOK'
    <3>1. m.clk \in Clock /\ m.clk[Self] > 0
      BY DEF HeapRoots, MatTypeOK, TxnClkPair, PositivePrepares
    <3>2. UpdateForcedPos(m.clk, Self, m.clk[Self] - 1) \in Clock
      BY <3>1 DEF UpdateForcedPos, Clock
    <3> QED BY <2>2, <2>3, <2>5, <2>7, <3>2 DEF MatTypeOK
  <2> QED BY <1>9, <2>4, <2>6, <2>7 DEF HandleMatSafeClk
<1> QED BY <1>1, <1>2, <1>3, <1>4, <1>5, <1>6, <1>7, <1>8, <1>9 DEF PartitionStep

\* heap.Push on a ClockHeap gives one more entry.
LEMMA HeapPushType ==
    ASSUME NEW heap \in Seq(WaitClock), NEW entry \in WaitClock
    PROVE  HeapPush(heap, entry) \in Seq(WaitClock)
<1> DEFINE n == Len(heap) + 1
<1>1. n \in Nat /\ n >= 1
  OBVIOUS
<1>2. ASSUME NEW i \in 1 .. n, i # 1
      PROVE  i \div 2 \in 1 .. Len(heap)
  BY <1>2
<1>3. \A i \in 1 .. n : i # 1 => heap[i \div 2] \in WaitClock
  BY <1>2
<1>4. \A i \in 1 .. n : i # n => heap[i] \in WaitClock
  OBVIOUS
<1>5. \A i \in 1 .. n : (IF i = 1 THEN entry
                         ELSE IF i \in PathToRoot(n) THEN heap[i \div 2] ELSE heap[i]) \in WaitClock
  BY <1>1, <1>3, <1>4 DEF PathToRoot
<1> QED BY <1>1, <1>5 DEF HeapPush

\* heap.Pop on a ClockHeap that is not empty gives one entry less.
LEMMA HeapPopType ==
    ASSUME NEW heap \in Seq(WaitClock), heap # <<>>
    PROVE  HeapPop(heap) \in Seq(WaitClock)
<1> DEFINE n == Len(heap) - 1
<1>1. n \in Nat /\ Len(heap) = n + 1
  OBVIOUS
<1>2. \A i \in 1 .. n : ChildTaken(i, n) \in Nat /\ ChildTaken(i, n) >= 1
  BY <1>1 DEF ChildTaken
<1>3. \A j \in 1 .. (n + 1) : heap[j] \in WaitClock
  BY <1>1
<1> HIDE DEF n
<1>4. \A i \in 1 .. n : (IF ChildTaken(i, n) <= n THEN heap[ChildTaken(i, n)] ELSE heap[n + 1])
                            \in WaitClock
  BY <1>1, <1>2, <1>3
<1>5. \A i \in 1 .. n : (IF i \notin SiftPath(n) THEN heap[i]
                            ELSE IF ChildTaken(i, n) <= n THEN heap[ChildTaken(i, n)]
                            ELSE heap[n + 1]) \in WaitClock
  BY <1>1, <1>3, <1>4
<1> QED BY <1>1, <1>5 DEF HeapPop, n

\* A request sent to a partition keeps the channels typed.
LEMMA SendRequestType ==
    ASSUME MatTypeOK, NEW p \in Partitions, NEW req \in MatRequest, SendRequest(p, req)
    PROVE  channels' \in [Partitions -> Seq(MatRequest)]
BY DEF MatTypeOK, SendRequest

\* The partitions of a request
LEMMA TargetsType == Targets \subseteq SUBSET Partitions
BY DEF Targets

\* The steps that a transaction takes by itself keep the types.
LEMMA TxnStepType ==
    ASSUME TypeInv, NEW t \in Txns, TxnStep(t)
    PROVE  TypeInv'
<1> USE DEF TypeInv
<1>1. CASE SendWaitClock(t)
  <2>1. [type |-> "wait", txn |-> t, n |-> 0, clk |-> txnClk[t]] \in CommitInfo
    BY DEF TypeOK, CommitInfo
  <2>2. commitChan' \in Seq(CommitInfo)
    BY <1>1, <2>1 DEF SendWaitClock, TypeOK, MatTypeOK
  <2>3. pc' \in [Txns -> Phases]
    BY <1>1 DEF SendWaitClock, TypeOK, Phases
  <2> QED BY <1>1, <2>2, <2>3 DEF SendWaitClock, TypeOK, MatTypeOK, PositivePrepares, partVars, crVars
<1>2. ASSUME NEW p \in Partitions, SendRead(t, p)
      PROVE  TypeInv'
  <2>1. Request("read", t, txnClk[t]) \in MatRequest
    BY DEF TypeOK, MatRequest, Request, TxnReqTypes
  <2>2. channels' \in [Partitions -> Seq(MatRequest)]
    BY <1>2, <2>1, SendRequestType DEF SendRead, TypeOK
  <2>3. toSend' \in [Txns -> SUBSET Partitions]
    BY <1>2 DEF SendRead, TypeOK
  <2> QED BY <1>2, <2>2, <2>3 DEF SendRead, TypeOK, MatTypeOK, PositivePrepares, partVars, crVars
<1>3. ASSUME NEW p \in Partitions, SendToPartition(t, p)
      PROVE  TypeInv'
  <2>1. pc[t] \in {"write", "prepare", "commit", "abort"}
    BY <1>3 DEF SendToPartition
  <2>2. LoopRequest(t) \in MatRequest /\ AfterLoop(t) \in Phases
    <3>1. CASE pc[t] = "write"
      BY <3>1, NewTimestampType DEF LoopRequest, AfterLoop, MatRequest, Request, TxnReqTypes, Phases
    <3>2. CASE pc[t] = "prepare"
      BY <3>2, NewTimestampType DEF LoopRequest, AfterLoop, MatRequest, Request, TxnReqTypes, Phases
    <3>3. CASE pc[t] = "commit"
      BY <3>3 DEF LoopRequest, AfterLoop, MatRequest, Request, TxnReqTypes, Phases, TypeOK
    <3>4. CASE pc[t] = "abort"
      BY <3>4, NewTimestampType DEF LoopRequest, AfterLoop, MatRequest, Request, TxnReqTypes, Phases
    <3> QED BY <2>1, <3>1, <3>2, <3>3, <3>4
  <2>3. channels' \in [Partitions -> Seq(MatRequest)]
    BY <1>3, <2>2, SendRequestType DEF SendToPartition, TypeOK
  <2>4. toSend' \in [Txns -> SUBSET Partitions] /\ pc' \in [Txns -> Phases]
    BY <1>3, <2>2 DEF SendToPartition, TypeOK
  <2> QED BY <1>3, <2>3, <2>4
          DEF SendToPartition, TypeOK, MatTypeOK, PositivePrepares, partVars, crVars
<1>4. CASE EndRead(t)
  <2>1. pc' \in [Txns -> Phases]
    BY <1>4 DEF EndRead, TypeOK, Phases
  <2> QED BY <1>4, <2>1
          DEF EndRead, TypeOK, MatTypeOK, PositivePrepares, partVars, chanVars, crVars
<1>5. CASE EndSingleRead(t)
  <2>1. replyChan[t] \in Seq(Clock) /\ replyChan[t] # <<>>
    BY <1>5 DEF EndSingleRead, TypeOK, MatTypeOK
  <2>2. Head(replyChan[t]) \in Clock /\ Tail(replyChan[t]) \in Seq(Clock)
    BY <2>1
  <2>3. /\ txnClk' \in [Txns -> Clock]
        /\ replyChan' \in [Txns -> Seq(Clock)]
        /\ pc' \in [Txns -> Phases]
    BY <1>5, <2>2 DEF EndSingleRead, TypeOK, MatTypeOK, Phases
  <2> QED BY <1>5, <2>3
          DEF EndSingleRead, TypeOK, MatTypeOK, PositivePrepares, partVars, crVars
<1>6. CASE ReceivePrepareReply(t)
  <2>1. replyChan[t] \in Seq(Clock) /\ replyChan[t] # <<>>
    BY <1>6 DEF ReceivePrepareReply, TypeOK, MatTypeOK
  <2>2. Head(replyChan[t]) \in Clock /\ Tail(replyChan[t]) \in Seq(Clock)
    BY <2>1
  <2>3. MaxTimestamp(maxTs[t], Head(replyChan[t])) \in Clock
    BY <2>2, MaxTimestampType DEF TypeOK
  <2>4. /\ maxTs' \in [Txns -> Clock]
        /\ replyChan' \in [Txns -> Seq(Clock)]
        /\ nReplies' \in [Txns -> Nat]
    BY <1>6, <2>2, <2>3 DEF ReceivePrepareReply, TypeOK, MatTypeOK
  <2> QED BY <1>6, <2>4
          DEF ReceivePrepareReply, TypeOK, MatTypeOK, PositivePrepares, partVars, crVars
<1>7. CASE NotifyCommit(t)
  <2>1. NPartitionsInfo(t) \in CommitInfo
    BY DEF NPartitionsInfo, CommitInfo, TypeOK
  <2>2. commitChan' \in Seq(CommitInfo)
    BY <1>7, <2>1 DEF NotifyCommit, TypeOK, MatTypeOK
  <2>3. toSend' \in [Txns -> SUBSET Partitions] /\ pc' \in [Txns -> Phases]
    BY <1>7 DEF NotifyCommit, TypeOK, Phases
  <2> QED BY <1>7, <2>2, <2>3
          DEF NotifyCommit, TypeOK, MatTypeOK, PositivePrepares, partVars, crVars
<1> QED BY <1>1, <1>2, <1>3, <1>4, <1>5, <1>6, <1>7 DEF TxnStep

\* The requests of the clients keep the types.
LEMMA ClientStepType ==
    ASSUME TypeInv, NEW t \in Txns, ClientStep(t)
    PROVE  TypeInv'
<1> USE DEF TypeInv
<1>1. CASE StartTxn(t)
  <2>1. PICK u \in {NoTxn} \cup {v \in Txns : pc[v] = "done"} :
           after' = [after EXCEPT ![t] = u] /\ GetClockToUse(t, ReplyTs(u))
    BY <1>1 DEF StartTxn
  <2>2. ReplyTs(u) \in Clock
    BY <2>1, NewTimestampType DEF ReplyTs, TypeOK
  <2>3. Merge(localClock, ReplyTs(u)) \in Clock
    BY <2>2, MergeType DEF TypeOK
  <2>4. /\ txnClk' \in [Txns -> Clock]
        /\ pc' \in [Txns -> Phases]
        /\ after' \in [Txns -> Txns \cup {NoTxn}]
    BY <2>1, <2>3 DEF GetClockToUse, TypeOK, Phases
  <2> QED BY <1>1, <2>4
          DEF StartTxn, TypeOK, MatTypeOK, PositivePrepares, partVars, chanVars, crVars
<1>2. CASE SingleRead(t)
  <2>1. PICK p \in Partitions : SendRequest(p, Request("singleRead", t, NewTimestamp))
    BY <1>2 DEF SingleRead
  <2>2. Request("singleRead", t, NewTimestamp) \in MatRequest
    BY NewTimestampType DEF MatRequest, Request, TxnReqTypes
  <2>3. channels' \in [Partitions -> Seq(MatRequest)]
    BY <2>1, <2>2, SendRequestType DEF TypeOK
  <2>4. pc' \in [Txns -> Phases]
    BY <1>2 DEF SingleRead, TypeOK, Phases
  <2> QED BY <1>2, <2>3, <2>4
          DEF SingleRead, TypeOK, MatTypeOK, PositivePrepares, partVars, crVars
<1>3. CASE StaticUpdate(t)
  <2>1. /\ parts' \in [Txns -> SUBSET Partitions]
        /\ toSend' \in [Txns -> SUBSET Partitions]
        /\ pc' \in [Txns -> Phases]
    BY <1>3, TargetsType DEF StaticUpdate, TypeOK, Phases
  <2> QED BY <1>3, <2>1
          DEF StaticUpdate, TypeOK, MatTypeOK, PositivePrepares, partVars, chanVars, crVars
<1>4. CASE Read(t)
  <2>1. /\ reading' \in [Txns -> SUBSET Partitions]
        /\ toSend' \in [Txns -> SUBSET Partitions]
        /\ pc' \in [Txns -> Phases]
        /\ nOps' \in [Txns -> Nat]
    BY <1>4, TargetsType DEF Read, TypeOK, Phases
  <2>2. readChan' \in [Txns -> SUBSET ReadReply]
    BY <1>4 DEF Read, TypeOK, MatTypeOK
  <2> QED BY <1>4, <2>1, <2>2
          DEF Read, TypeOK, MatTypeOK, PositivePrepares, partVars, crVars
<1>5. CASE Update(t)
  <2>1. /\ parts' \in [Txns -> SUBSET Partitions]
        /\ toSend' \in [Txns -> SUBSET Partitions]
        /\ pc' \in [Txns -> Phases]
        /\ nOps' \in [Txns -> Nat]
    BY <1>5, TargetsType DEF Update, TypeOK, Phases
  <2> QED BY <1>5, <2>1
          DEF Update, TypeOK, MatTypeOK, PositivePrepares, partVars, chanVars, crVars
<1>6. CASE Commit(t)
  <2>1. toSend' \in [Txns -> SUBSET Partitions] /\ pc' \in [Txns -> Phases]
    BY <1>6 DEF Commit, TypeOK, Phases
  <2> QED BY <1>6, <2>1
          DEF Commit, TypeOK, MatTypeOK, PositivePrepares, partVars, chanVars, crVars
<1>7. CASE Abort(t)
  <2>1. toSend' \in [Txns -> SUBSET Partitions] /\ pc' \in [Txns -> Phases]
    BY <1>7 DEF Abort, TypeOK, Phases
  <2> QED BY <1>7, <2>1
          DEF Abort, TypeOK, MatTypeOK, PositivePrepares, partVars, chanVars, crVars
<1>8. CASE LostConn(t)
  <2>1. pc' \in [Txns -> Phases]
    BY <1>8 DEF LostConn, TypeOK, Phases
  <2> QED BY <1>8, <2>1
          DEF LostConn, TypeOK, MatTypeOK, PositivePrepares, partVars, chanVars, crVars
<1> QED BY <1>1, <1>2, <1>3, <1>4, <1>5, <1>6, <1>7, <1>8 DEF ClientStep

\* A message taken from commitChan
LEMMA TakesInfoType ==
    ASSUME MatTypeOK, NEW type, TakesInfo(type)
    PROVE  /\ Head(commitChan) \in CommitInfo
           /\ commitChan' \in Seq(CommitInfo)
BY DEF MatTypeOK, TakesInfo

\* The steps of handleCommitReplies keep the types.
LEMMA CommitRepliesType ==
    ASSUME TypeInv, CommitReplies
    PROVE  TypeInv'
<1> USE DEF TypeInv
<1> DEFINE CrPhases == {"recv", "notify", "flush", "notifyFlushed"}
<1>0. \A n \in Nat : NextCr(n) \in CrPhases
  BY DEF NextCr
<1>1. CASE HandleCommitNPartitions
  <2>1. Head(commitChan) \in CommitInfo /\ commitChan' \in Seq(CommitInfo)
    BY <1>1, TakesInfoType DEF HandleCommitNPartitions, TypeOK
  <2>2. /\ tracked' \subseteq Txns
        /\ txnToClk' \in [Txns -> Clock]
        /\ txnWaitFor' \in [Txns -> Int]
        /\ crPc' \in CrPhases
    BY <1>0, <1>1, <2>1 DEF HandleCommitNPartitions, TypeOK, CommitInfo
  <2> QED BY <1>1, <2>1, <2>2
          DEF HandleCommitNPartitions, TypeOK, MatTypeOK, PositivePrepares, partVars, txnVars
<1>2. CASE HandlePartCommitReply
  <2> DEFINE t == Head(commitChan).txn
  <2>1. Head(commitChan) \in CommitInfo /\ commitChan' \in Seq(CommitInfo)
    BY <1>2, TakesInfoType DEF HandlePartCommitReply, TypeOK
  <2>2. t \in Txns /\ txnToClk[t] \in Clock
    BY <2>1 DEF CommitInfo, TypeOK
  <2>3. Merge(stackedClk, txnToClk[t]) \in Clock /\ Merge(localClock, txnToClk[t]) \in Clock
    BY <2>2, MergeType DEF TypeOK
  <2>4. txnWaitFor' \in [Txns -> Int]
    BY <1>2, <2>2 DEF HandlePartCommitReply, TypeOK
  <2>5. /\ tracked' \subseteq Txns
        /\ localClock' \in Clock
        /\ notifyClk' \in Clock
        /\ stackedClk' \in Clock
        /\ nStacked' \in Nat
        /\ crPc' \in CrPhases
    BY <1>0, <1>2, <2>2, <2>3 DEF HandlePartCommitReply, AdvanceLocalClock, TypeOK
  <2> QED BY <1>2, <2>1, <2>4, <2>5
          DEF HandlePartCommitReply, TypeOK, MatTypeOK, PositivePrepares, partVars, txnVars
<1>3. CASE HandleWaitClock
  <2>1. Head(commitChan) \in CommitInfo /\ commitChan' \in Seq(CommitInfo)
    BY <1>3, TakesInfoType DEF HandleWaitClock, TypeOK
  <2>2. [txn |-> Head(commitChan).txn, clk |-> Head(commitChan).clk] \in WaitClock
    BY <2>1 DEF CommitInfo, WaitClock
  <2>3. waitingTMs' \in Seq(WaitClock)
    BY <1>3, <2>2, HeapPushType DEF HandleWaitClock, TypeOK
  <2>4. crPc' \in CrPhases
    BY <1>0, <1>3 DEF HandleWaitClock, TypeOK
  <2> QED BY <1>3, <2>1, <2>3, <2>4
          DEF HandleWaitClock, TypeOK, MatTypeOK, PositivePrepares, partVars, txnVars
<1>4. CASE NotifyWaiting
  <2>1. UNCHANGED <<partVars, chanVars, parts, toSend, reading, nOps, nReplies, maxTs, after,
                    localClock, tracked, txnToClk, txnWaitFor, notifyClk, stackedClk, nStacked,
                    nSafeClk>>
    BY <1>4 DEF NotifyWaiting
  <2>2. /\ waitingTMs' \in Seq(WaitClock)
        /\ txnClk' \in [Txns -> Clock]
        /\ pc' \in [Txns -> Phases]
        /\ crPc' \in CrPhases
    <3>1. CASE FirstIsReady
      <4>1. /\ waitingTMs' = HeapPop(waitingTMs)
            /\ txnClk' = [txnClk EXCEPT ![waitingTMs[1].txn] = notifyClk]
            /\ pc' = [pc EXCEPT ![waitingTMs[1].txn] = "active"]
            /\ UNCHANGED crPc
        BY <1>4, <3>1 DEF NotifyWaiting
      <4>2. waitingTMs \in Seq(WaitClock) /\ waitingTMs # <<>>
        BY <3>1 DEF FirstIsReady, TypeOK
      <4> QED BY <4>1, <4>2, HeapPopType DEF TypeOK, Phases
    <3>2. CASE ~FirstIsReady
      BY <1>0, <1>4, <3>2 DEF NotifyWaiting, TypeOK
    <3> QED BY <3>1, <3>2
  <2> QED BY <2>1, <2>2 DEF TypeOK, MatTypeOK, PositivePrepares, partVars, chanVars
<1>5. CASE FlushStacked
  <2>1. Merge(localClock, stackedClk) \in Clock
    BY MergeType DEF TypeOK
  <2>2. /\ localClock' \in Clock
        /\ notifyClk' \in Clock
        /\ nStacked' \in Nat
        /\ crPc' \in CrPhases
    BY <1>5, <2>1 DEF FlushStacked, AdvanceLocalClock, TypeOK
  <2> QED BY <1>5, <2>2
          DEF FlushStacked, TypeOK, MatTypeOK, PositivePrepares, partVars, chanVars, txnVars
<1> QED BY <1>1, <1>2, <1>3, <1>4, <1>5 DEF CommitReplies

\* A logger's request for the safe clock keeps the types.
LEMMA RequestSafeClkType ==
    ASSUME TypeInv, NEW p \in Partitions, RequestSafeClk(p)
    PROVE  TypeInv'
<1>1. Request("safeClk", NoTxn, NewTimestamp) \in MatRequest
  BY NewTimestampType DEF MatRequest, Request
<1>2. channels' \in [Partitions -> Seq(MatRequest)]
  BY <1>1, SendRequestType DEF RequestSafeClk, TypeInv, TypeOK
<1>3. nSafeClk' \in Nat
  BY DEF RequestSafeClk, TypeInv, TypeOK
<1> QED BY <1>2, <1>3
        DEF RequestSafeClk, TypeInv, TypeOK, MatTypeOK, PositivePrepares, partVars, txnVars, crVars

\* The initial state has the types.
LEMMA InitType == Init => TypeInv
<1> SUFFICES ASSUME Init PROVE TypeInv
  OBVIOUS
<1>1. MatTypeOK
  BY NewTimestampType DEF Init, MatInit, MatTypeOK
<1>2. TypeOK
  BY <1>1, NewTimestampType DEF Init, TypeOK, Phases
<1> QED BY <1>2 DEF Init, MatInit, TypeInv, PositivePrepares

\* Every step keeps the types.
LEMMA NextType == TypeInv /\ [Next]_vars => TypeInv'
<1> SUFFICES ASSUME TypeInv, [Next]_vars PROVE TypeInv'
  OBVIOUS
<1>1. ASSUME NEW p \in Partitions, Partition(p)
      PROVE  TypeInv'
  <2>1. MatTypeOK' /\ PositivePrepares'
    BY <1>1, PartitionStepType DEF Partition, TypeInv, TypeOK
  <2> QED BY <1>1, <2>1 DEF Partition, TypeInv, TypeOK, txnVars, crVars
<1>2. CASE UNCHANGED vars
  BY <1>2 DEF TypeInv, TypeOK, MatTypeOK, PositivePrepares, vars, partVars, chanVars, txnVars, crVars
<1> QED BY <1>1, <1>2, TxnStepType, ClientStepType, CommitRepliesType, RequestSafeClkType DEF Next

\* Every variable always has its type, whatever the interleaving: the clocks stay
\* naturals (handleMatSafeClk subtracts 1 from a prepared clock) and what is taken from a
\* channel or from the heap of waiting requests is a message of the right kind.
THEOREM TypeCorrect == Spec => []TypeOK
<1>1. Spec => []TypeInv
  BY InitType, NextType, PTL DEF Spec
<1>2. TypeInv => TypeOK
  BY DEF TypeInv
<1> QED BY <1>1, <1>2, PTL

-----------------------------------------------------------------------------
(* The order of the prepared clocks *)

\* The clocks a partition has prepared are at most its last one at Self and at most its
\* stable clock elsewhere; a new one is above lastUsedTs and equal to stableClk there.
PreparesBounded ==
    \A p \in Partitions : \A e \in prepClks[p] :
        /\ e.clk[Self] <= lastUsedTs[p]
        /\ \A r \in Replicas \ {Self} : e.clk[r] <= stableClk[p][r]

OrderInv == PreparesBounded /\ PreparesAreOrdered

\* Only the goroutine of a partition changes the state of a partition.
LEMMA OtherSteps ==
    ASSUME \/ \E p \in Partitions : RequestSafeClk(p)
           \/ \E t \in Txns : TxnStep(t) \/ ClientStep(t)
           \/ CommitReplies
    PROVE  UNCHANGED partVars
<1>1. ASSUME NEW t \in Txns, TxnStep(t) PROVE UNCHANGED partVars
  BY <1>1 DEF TxnStep, SendWaitClock, SendRead, SendToPartition, EndRead, EndSingleRead,
              ReceivePrepareReply, NotifyCommit
<1>2. ASSUME NEW t \in Txns, ClientStep(t) PROVE UNCHANGED partVars
  BY <1>2 DEF ClientStep, StartTxn, SingleRead, StaticUpdate, Read, Update, Commit, Abort, LostConn
<1>3. CommitReplies => UNCHANGED partVars
  BY DEF CommitReplies, HandleCommitNPartitions, HandlePartCommitReply, HandleWaitClock,
         NotifyWaiting, FlushStacked
<1>4. (\E p \in Partitions : RequestSafeClk(p)) => UNCHANGED partVars
  BY DEF RequestSafeClk
<1> QED BY <1>1, <1>2, <1>3, <1>4

\* What a request handler does to the clocks of the partitions: it prepares a clock at p,
\* or it drops prepared clocks and moves the stable clock of p forward.
LEMMA PartitionStepClocks ==
    ASSUME MatTypeOK, NEW p \in Partitions, PartitionStep(p)
    PROVE  \/ /\ UNCHANGED stableClk
              /\ \E t \in Txns, time \in Nat : PrepareClock(p, t, time)
           \/ /\ UNCHANGED lastUsedTs
              /\ \A q \in Partitions : prepClks'[q] \subseteq prepClks[q]
              /\ \A q \in Partitions : IsLowerOrEqual(stableClk[q], stableClk'[q])
<1> USE MaterializerConstants
<1>0. /\ \A time \in now .. MaxTime : time \in Nat
      /\ \A q \in Partitions : IsLowerOrEqual(stableClk[q], stableClk[q])
  BY DEF MatTypeOK, IsLowerOrEqual, Clock
<1>1. CASE HandleMatStaticWrite(p)
  <2>1. Head(channels[p]).txn \in Txns
    BY <1>1, TakesType DEF HandleMatStaticWrite
  <2> QED BY <1>0, <1>1, <2>1 DEF HandleMatStaticWrite
<1>2. CASE HandleMatPrepare(p)
  <2>1. Head(channels[p]).txn \in Txns
    BY <1>2, TakesType DEF HandleMatPrepare
  <2> QED BY <1>0, <1>2, <2>1 DEF HandleMatPrepare
<1>3. ASSUME NEW t \in Txns, NEW clk \in Clock, ApplyCommit(p, t, clk)
      PROVE  \A q \in Partitions : IsLowerOrEqual(stableClk[q], stableClk'[q])
  <2>1. IsLowerOrEqual(stableClk[p], Merge(stableClk[p], clk))
    BY MergeType DEF MatTypeOK
  <2> QED BY <1>0, <1>3, <2>1 DEF ApplyCommit, MatTypeOK
<1>4. CASE HandleMatCommit(p)
  <2>1. Head(channels[p]).txn \in Txns /\ Head(channels[p]).clk \in Clock
    BY <1>4, TakesType DEF HandleMatCommit
  <2>2. \A q \in Partitions : IsLowerOrEqual(stableClk[q], stableClk'[q])
    BY <1>0, <1>3, <1>4, <2>1 DEF HandleMatCommit, HoldCommit
  <2>3. \A q \in Partitions : prepClks'[q] \subseteq prepClks[q]
    BY <1>4 DEF HandleMatCommit, RemovePrepare, MatTypeOK
  <2> QED BY <1>4, <2>2, <2>3 DEF HandleMatCommit
<1>5. CASE CheckHoldCommits(p)
  <2>1. \A h \in HeapRoots(commitsOnHold[p]) : h.txn \in Txns /\ h.clk \in Clock
    BY DEF HeapRoots, MatTypeOK, TxnClkPair
  <2>2. \A q \in Partitions : IsLowerOrEqual(stableClk[q], stableClk'[q])
    BY <1>0, <1>3, <1>5, <2>1, SMTT(60) DEF CheckHoldCommits
  <2> QED BY <1>5, <2>2 DEF CheckHoldCommits
<1>6. CASE HandleMatWrite(p) \/ HandleMatAbort(p) \/ HandleMatRead(p)
           \/ HandleMatStaticSingleRead(p) \/ HandleMatSafeClk(p)
  BY <1>0, <1>6 DEF HandleMatWrite, HandleMatAbort, HandleMatRead, HandleMatStaticSingleRead,
                    HandleMatSafeClk, partVars
<1> QED BY <1>1, <1>2, <1>4, <1>5, <1>6 DEF PartitionStep

\* prepareClock keeps the order: the new clock is above all the prepared ones.
LEMMA PrepareKeepsOrder ==
    ASSUME TypeInv, OrderInv, NEW p \in Partitions, NEW t \in Txns, NEW time \in Nat,
           PrepareClock(p, t, time), UNCHANGED stableClk
    PROVE  OrderInv'
<1> USE MaterializerConstants
<1> DEFINE new == NextClk(p, time)
           pair == [txn |-> t, clk |-> new]
<1>1. /\ new \in Clock /\ new[Self] > lastUsedTs[p]
      /\ \A r \in Replicas \ {Self} : new[r] = stableClk[p][r]
  BY NextClkType DEF TypeInv, TypeOK
<1>2. /\ lastUsedTs' = [lastUsedTs EXCEPT ![p] = new[Self]]
      /\ prepClks' = [prepClks EXCEPT ![p] = @ \cup {pair}]
  BY DEF PrepareClock
<1>3. /\ prepClks \in [Partitions -> SUBSET TxnClkPair]
      /\ lastUsedTs \in [Partitions -> Nat]
      /\ stableClk \in [Partitions -> Clock]
  BY DEF TypeInv, TypeOK, MatTypeOK
<1> HIDE DEF new
<1>4. new[Self] \in Nat /\ \A r \in Replicas : new[r] \in Nat
  BY <1>1 DEF Clock
<1>5. PreparesBounded'
  <2> SUFFICES ASSUME NEW q \in Partitions, NEW e \in prepClks'[q]
               PROVE  /\ e.clk[Self] <= lastUsedTs'[q]
                      /\ \A r \in Replicas \ {Self} : e.clk[r] <= stableClk'[q][r]
    BY DEF PreparesBounded
  <2>1. CASE e \in prepClks[q]
    <3>1. /\ e.clk \in Clock
          /\ e.clk[Self] <= lastUsedTs[q]
          /\ \A r \in Replicas \ {Self} : e.clk[r] <= stableClk[q][r]
      BY <2>1, <1>3 DEF OrderInv, PreparesBounded, TxnClkPair
    <3>2. e.clk[Self] \in Nat /\ lastUsedTs[q] \in Nat /\ lastUsedTs[q] <= lastUsedTs'[q]
      BY <3>1, <1>1, <1>2, <1>3, <1>4 DEF Clock
    <3> QED BY <3>1, <3>2, <1>2, <1>3, <1>4
  <2>2. CASE e \notin prepClks[q]
    <3>1. q = p /\ e.clk = new
      BY <2>2, <1>2, <1>3
    <3> QED BY <3>1, <1>1, <1>2, <1>3, <1>4
  <2> QED BY <2>1, <2>2
<1>6. \A e \in prepClks[p] : IsLower(e.clk, new)
  <2> SUFFICES ASSUME NEW e \in prepClks[p] PROVE IsLower(e.clk, new)
    OBVIOUS
  <2>1. /\ e.clk \in Clock
        /\ e.clk[Self] <= lastUsedTs[p]
        /\ \A r \in Replicas \ {Self} : e.clk[r] <= new[r]
    BY <1>1, <1>3 DEF OrderInv, PreparesBounded, TxnClkPair
  <2>2. e.clk[Self] < new[Self]
    BY <2>1, <1>1, <1>3, <1>4 DEF Clock
  <2>3. \A r \in Replicas : e.clk[r] <= new[r]
    BY <2>1, <2>2, <1>4 DEF Clock
  <2> QED BY <2>2, <2>3 DEF IsLower
<1>7. PreparesAreOrdered'
  <2> SUFFICES ASSUME NEW q \in Partitions, NEW e \in prepClks'[q], NEW f \in prepClks'[q], e # f
               PROVE  IsLower(e.clk, f.clk) \/ IsLower(f.clk, e.clk)
    BY DEF PreparesAreOrdered
  <2>1. CASE e \in prepClks[q] /\ f \in prepClks[q]
    BY <2>1 DEF OrderInv, PreparesAreOrdered
  <2>2. CASE e \notin prepClks[q]
    <3>1. q = p /\ e = pair /\ f \in prepClks[p]
      BY <2>2, <1>2, <1>3
    <3> QED BY <3>1, <1>6
  <2>3. CASE f \notin prepClks[q]
    <3>1. q = p /\ f = pair /\ e \in prepClks[p]
      BY <2>3, <1>2, <1>3
    <3> QED BY <3>1, <1>6
  <2> QED BY <2>1, <2>2, <2>3
<1> QED BY <1>5, <1>7 DEF OrderInv

\* Every step keeps the order of the prepared clocks.
LEMMA NextOrder == TypeInv /\ TypeInv' /\ OrderInv /\ [Next]_vars => OrderInv'
<1> SUFFICES ASSUME TypeInv, TypeInv', OrderInv, [Next]_vars PROVE OrderInv'
  OBVIOUS
<1> USE MaterializerConstants
<1>1. CASE UNCHANGED partVars
  BY <1>1 DEF partVars, OrderInv, PreparesBounded, PreparesAreOrdered
<1>2. ASSUME NEW p \in Partitions, Partition(p)
      PROVE  OrderInv'
  <2>1. CASE UNCHANGED stableClk /\ \E t \in Txns, time \in Nat : PrepareClock(p, t, time)
    BY <2>1, PrepareKeepsOrder
  <2>2. CASE /\ UNCHANGED lastUsedTs
             /\ \A q \in Partitions : prepClks'[q] \subseteq prepClks[q]
             /\ \A q \in Partitions : IsLowerOrEqual(stableClk[q], stableClk'[q])
    <3>1. PreparesBounded'
      <4> SUFFICES ASSUME NEW q \in Partitions, NEW e \in prepClks'[q], NEW r \in Replicas \ {Self}
                   PROVE  e.clk[Self] <= lastUsedTs'[q] /\ e.clk[r] <= stableClk'[q][r]
        BY <2>2 DEF OrderInv, PreparesBounded
      <4>1. e.clk[Self] <= lastUsedTs[q] /\ e.clk[r] <= stableClk[q][r]
        BY <2>2 DEF OrderInv, PreparesBounded
      <4>2. stableClk[q][r] <= stableClk'[q][r]
        BY <2>2 DEF IsLowerOrEqual
      <4>3. e.clk[r] \in Nat /\ stableClk[q][r] \in Nat /\ stableClk'[q][r] \in Nat
        BY <2>2 DEF TypeInv, TypeOK, MatTypeOK, TxnClkPair, Clock
      <4> QED BY <2>2, <4>1, <4>2, <4>3
    <3>2. PreparesAreOrdered'
      BY <2>2 DEF OrderInv, PreparesAreOrdered
    <3> QED BY <3>1, <3>2 DEF OrderInv
  <2> QED BY <1>2, <2>1, <2>2, PartitionStepClocks DEF Partition, TypeInv, TypeOK
<1>3. CASE UNCHANGED vars
  BY <1>1, <1>3 DEF vars
<1> QED BY <1>1, <1>2, <1>3, OtherSteps DEF Next

\* handleMatPrepare always replies the clock it has just prepared, and the lowest prepare
\* that commits are compared with is unique: for every number of partitions, transactions
\* and replicas, the prepared clocks of a partition are totally ordered.
THEOREM PreparesOrdered == Spec => []PreparesAreOrdered
<1>1. Init => OrderInv
  BY DEF Init, MatInit, OrderInv, PreparesBounded, PreparesAreOrdered
<1>2. Spec => [](TypeInv /\ OrderInv)
  BY <1>1, InitType, NextType, NextOrder, PTL DEF Spec
<1>3. OrderInv => PreparesAreOrdered
  BY DEF OrderInv
<1> QED BY <1>2, <1>3, PTL

-----------------------------------------------------------------------------
(* No clock goes back *)

\* Every step moves the clocks forward.
LEMMA NextClocks == TypeInv /\ [Next]_vars => ClocksStep
<1> SUFFICES ASSUME TypeInv, [Next]_vars PROVE ClocksStep
  OBVIOUS
<1> USE MaterializerConstants
<1>1. /\ IsLowerOrEqual(localClock, localClock)
      /\ \A p \in Partitions : IsLowerOrEqual(stableClk[p], stableClk[p])
      /\ \A p \in Partitions : lastUsedTs[p] <= lastUsedTs[p]
  BY DEF TypeInv, TypeOK, MatTypeOK, IsLowerOrEqual, Clock
<1>2. ASSUME NEW p \in Partitions, Partition(p)
      PROVE  ClocksStep
  <2>1. UNCHANGED localClock /\ PartitionStep(p)
    BY <1>2 DEF Partition
  <2>2. ASSUME UNCHANGED stableClk, NEW t \in Txns, NEW time \in Nat, PrepareClock(p, t, time)
        PROVE  ClocksStep
    <3>1. NextClk(p, time) \in Clock /\ NextClk(p, time)[Self] > lastUsedTs[p]
      BY NextClkType DEF TypeInv, TypeOK
    <3>2. NextClk(p, time)[Self] \in Nat
      BY <3>1 DEF Clock
    <3>3. \A q \in Partitions : lastUsedTs[q] <= lastUsedTs'[q]
      BY <1>1, <2>2, <3>1, <3>2 DEF PrepareClock, TypeInv, TypeOK, MatTypeOK
    <3> QED BY <1>1, <2>1, <2>2, <3>3 DEF ClocksStep
  <2>3. CASE /\ UNCHANGED lastUsedTs
             /\ \A q \in Partitions : IsLowerOrEqual(stableClk[q], stableClk'[q])
    BY <1>1, <2>1, <2>3 DEF ClocksStep
  <2> QED BY <2>1, <2>2, <2>3, PartitionStepClocks DEF TypeInv, TypeOK
<1>3. CASE UNCHANGED <<stableClk, lastUsedTs, localClock>>
  BY <1>1, <1>3 DEF ClocksStep
<1>4. CASE CommitReplies
  <2>1. UNCHANGED <<stableClk, lastUsedTs>>
    BY <1>4, OtherSteps DEF partVars
  <2>2. \A c \in Clock : IsLowerOrEqual(localClock, Merge(localClock, c))
    BY MergeType DEF TypeInv, TypeOK
  <2>3. CASE HandlePartCommitReply
    <3>1. Head(commitChan) \in CommitInfo
      BY <2>3, TakesInfoType DEF HandlePartCommitReply, TypeInv, TypeOK
    <3>2. txnToClk[Head(commitChan).txn] \in Clock
      BY <3>1 DEF CommitInfo, TypeInv, TypeOK
    <3> QED BY <1>1, <2>1, <2>2, <2>3, <3>2
            DEF HandlePartCommitReply, AdvanceLocalClock, ClocksStep
  <2>4. CASE FlushStacked
    BY <1>1, <2>1, <2>2, <2>4 DEF FlushStacked, AdvanceLocalClock, ClocksStep, TypeInv, TypeOK
  <2>5. CASE HandleCommitNPartitions \/ HandleWaitClock \/ NotifyWaiting
    BY <1>3, <2>1, <2>5 DEF HandleCommitNPartitions, HandleWaitClock, NotifyWaiting
  <2> QED BY <1>4, <2>3, <2>4, <2>5 DEF CommitReplies
<1>5. ASSUME NEW t \in Txns, TxnStep(t) \/ ClientStep(t)
      PROVE  UNCHANGED <<stableClk, lastUsedTs, localClock>>
  BY <1>5 DEF TxnStep, SendWaitClock, SendRead, SendToPartition, EndRead, EndSingleRead,
     ReceivePrepareReply, NotifyCommit, ClientStep, StartTxn, SingleRead, StaticUpdate, Read,
     Update, Commit, Abort, LostConn, partVars
<1>6. ASSUME NEW p \in Partitions, RequestSafeClk(p)
      PROVE  UNCHANGED <<stableClk, lastUsedTs, localClock>>
  BY <1>6 DEF RequestSafeClk, partVars
<1>7. CASE UNCHANGED vars
  BY <1>3, <1>7 DEF vars, partVars
<1> QED BY <1>2, <1>3, <1>4, <1>5, <1>6, <1>7 DEF Next

\* A client that sends back the timestamp it was given never makes the server or a
\* partition step back: localClock, stableClk and lastUsedTs only move forward, although
\* handleCommitReplies merges the commits in the order they complete.
THEOREM ClocksOnlyAdvance == Spec => ClocksAdvance
<1>1. TypeInv /\ [Next]_vars => [ClocksStep]_vars
  BY NextClocks
<1>2. Spec => [][ClocksStep]_vars
  BY <1>1, InitType, NextType, PTL DEF Spec
<1> QED BY <1>2 DEF ClocksAdvance

-----------------------------------------------------------------------------
(***************************************************************************)
(* The heap of the requests that wait for a clock (ClockHeap).  Its Less   *)
(* is always true, so it keeps no order; these lemmas say that it still    *)
(* keeps every request exactly once, and the theorem that no request that  *)
(* waits is lost between the channel and the heap.                         *)
(***************************************************************************)

-----------------------------------------------------------------------------
(* heap.Push *)

\* A set of naturals that is not empty has a least element.
LEMMA LeastElement ==
    ASSUME NEW T \in SUBSET Nat, T # {}
    PROVE  \E x \in T : \A y \in T : x <= y
<1> DEFINE R == OpToRel(<, Nat)
<1>1. IsWellFoundedOn(R, Nat)
  BY NatLessThanWellFounded
<1>2. \A x, y \in Nat : x < y => <<x, y>> \in R
  BY DEF OpToRel
<1> HIDE DEF R
<1>3. PICK x \in T : \A y \in T : ~(<<y, x>> \in R)
  BY <1>1, WFMin
<1>4. \A y \in T : ~(y < x)
  BY <1>2, <1>3
<1> QED BY <1>4

\* The path to the root is such a least set: it holds the last slot and the parent of
\* each of its slots, and every set that does holds it.
LEMMA PathToRootLeast ==
    ASSUME NEW n \in Nat, n >= 1
    PROVE  /\ PathToRoot(n) \subseteq 1 .. n
           /\ n \in PathToRoot(n)
           /\ \A j \in PathToRoot(n) \ {1} : j \div 2 \in PathToRoot(n)
           /\ \A S \in SUBSET (1 .. n) :
                 n \in S /\ (\A j \in S \ {1} : j \div 2 \in S) => PathToRoot(n) \subseteq S
<1>1. \A j \in 1 .. n : j # 1 => j \div 2 \in 1 .. n
  OBVIOUS
<1> QED BY <1>1 DEF PathToRoot

\* On the path to the root, a slot is an ancestor of every slot behind it.
LEMMA PathToRootChain ==
    ASSUME NEW n \in Nat, n >= 1, NEW i \in PathToRoot(n), NEW j \in PathToRoot(n), i < j
    PROVE  i <= j \div 2
<1> DEFINE P == PathToRoot(n)
           Apart(a, b) == a < b => a <= b \div 2
           T == {a \in P : \A b \in P : Apart(a, b) /\ Apart(b, a)}
<1>1. /\ P \subseteq 1 .. n /\ n \in P
      /\ \A a \in P \ {1} : a \div 2 \in P
      /\ \A S \in SUBSET (1 .. n) : n \in S /\ (\A a \in S \ {1} : a \div 2 \in S) => P \subseteq S
  BY PathToRootLeast
<1> HIDE DEF P
<1>2. n \in T
  <2> DEFINE S == {b \in P : b = n \/ b <= n \div 2}
  <2>1. n \in S /\ \A b \in S \ {1} : b \div 2 \in S
    BY <1>1
  <2>2. S \in SUBSET (1 .. n)
    BY <1>1
  <2>3. P \subseteq S
    BY <1>1, <2>1, <2>2
  <2> QED BY <1>1, <2>3
<1>3. ASSUME NEW a \in T, a # 1
      PROVE  a \div 2 \in T
  <2> DEFINE k == a \div 2
             S == {b \in P : b >= k \/ b <= k \div 2}
  <2>1. a \in P /\ k \in P /\ a \in Nat /\ k \in Nat /\ k < a /\ \A b \in P : b \in Nat /\ b <= n
    BY <1>1, <1>3
  <2>2. \A b \in P : (a < b => a <= b \div 2) /\ (b < a => b <= k)
    OBVIOUS
  <2> HIDE DEF T
  <2>3. \A b \in P : k < b => k <= b \div 2
    BY <2>1, <2>2
  <2>4. n \in S /\ \A b \in S \ {1} : b \div 2 \in S
    BY <1>1, <2>1, <2>3
  <2>5. S \in SUBSET (1 .. n)
    BY <1>1
  <2>6. P \subseteq S
    BY <1>1, <2>4, <2>5
  <2>7. \A b \in P : b < k => b <= k \div 2
    BY <2>1, <2>6
  <2> QED BY <2>1, <2>3, <2>7 DEF T
<1>4. T \in SUBSET (1 .. n)
  BY <1>1
<1> HIDE DEF T
<1>5. P \subseteq T
  BY <1>1, <1>2, <1>3, <1>4
<1> QED BY <1>5 DEF T, P

\* Every slot of the path but the last has the next one as a child.
LEMMA PathToRootChild ==
    ASSUME NEW n \in Nat, n >= 1, NEW i \in PathToRoot(n), i # n
    PROVE  \E j \in PathToRoot(n) : j # 1 /\ j \div 2 = i
<1> DEFINE S == {a \in PathToRoot(n) : a = n \/ \E j \in PathToRoot(n) : j # 1 /\ j \div 2 = a}
<1>1. n \in S /\ \A a \in S \ {1} : a \div 2 \in S
  BY PathToRootLeast
<1>2. S \in SUBSET (1 .. n)
  BY PathToRootLeast
<1> QED BY <1>1, <1>2, PathToRootLeast

\* Requests of different transactions
Distinct(heap) == \A i, j \in 1 .. Len(heap) : heap[i].txn = heap[j].txn => i = j

\* heap.Push keeps what the heap has, adds the new request, and nothing twice.
LEMMA HeapPushKeeps ==
    ASSUME NEW heap \in Seq(WaitClock), NEW entry \in WaitClock
    PROVE  LET pushed == HeapPush(heap, entry)
           IN  /\ \A k \in 1 .. Len(pushed) :
                     pushed[k] = entry \/ \E i \in 1 .. Len(heap) : pushed[k] = heap[i]
               /\ \E k \in 1 .. Len(pushed) : pushed[k] = entry
               /\ \A i \in 1 .. Len(heap) : \E k \in 1 .. Len(pushed) : pushed[k] = heap[i]
               /\ Distinct(heap) /\ (\A i \in 1 .. Len(heap) : heap[i].txn # entry.txn)
                     => Distinct(pushed)
<1> DEFINE n == Len(heap) + 1
           P == PathToRoot(n)
           pushed == HeapPush(heap, entry)
           from(k) == IF k \in P THEN k \div 2 ELSE k
<1>1. n \in Nat /\ n >= 1 /\ Len(heap) = n - 1
  OBVIOUS
<1>2. /\ P \subseteq 1 .. n /\ n \in P
      /\ \A k \in P \ {1} : k \div 2 \in P
      /\ \A i, j \in P : i < j => i <= j \div 2
      /\ \A i \in P : i # n => \E j \in P : j # 1 /\ j \div 2 = i
  BY <1>1, PathToRootLeast, PathToRootChain, PathToRootChild
<1>3. pushed = [i \in 1 .. n |-> IF i = 1 THEN entry ELSE heap[from(i)]]
  BY DEF HeapPush
<1> HIDE DEF P, n
<1>4. Len(pushed) = n
  BY <1>1, <1>3
<1> HIDE DEF pushed
<1>5. \A k \in 1 .. n : k # 1 => from(k) \in 1 .. Len(heap)
  BY <1>1, <1>2
<1>6. ASSUME NEW i \in 1 .. n, NEW j \in 1 .. n, i # 1, j # 1, from(i) = from(j)
      PROVE  i = j
  <2>1. CASE i \in P /\ j \in P
    <3>1. i \in Nat /\ j \in Nat /\ i \div 2 < i /\ j \div 2 < j /\ i \div 2 = j \div 2
      BY <1>6, <2>1
    <3>2. (i < j => i <= j \div 2) /\ (j < i => j <= i \div 2)
      BY <1>2, <2>1
    <3> QED BY <3>1, <3>2
  <2>2. CASE i \notin P \/ j \notin P
    BY <1>1, <1>2, <1>6, <2>2
  <2> QED BY <2>1, <2>2
<1>7. \A i \in 1 .. Len(heap) : \E k \in 1 .. n : k # 1 /\ from(k) = i
  <2> SUFFICES ASSUME NEW i \in 1 .. Len(heap) PROVE \E k \in 1 .. n : k # 1 /\ from(k) = i
    OBVIOUS
  <2>1. CASE i \in P
    BY <1>1, <1>2, <2>1
  <2>2. CASE i \notin P
    <3>1. 1 \in P
      <4>1. PICK x \in P : \A y \in P : x <= y
        <5>1. P \in SUBSET Nat /\ P # {}
          BY <1>1, <1>2
        <5> QED BY <5>1, LeastElement
      <4> QED BY <1>1, <1>2, <4>1, SMTT(60)
    <3> QED BY <1>1, <2>2, <3>1
  <2> QED BY <2>1, <2>2
<1> HIDE DEF from
<1>8. \A k \in 1 .. n : k # 1 => pushed[k] = heap[from(k)]
  BY <1>3
<1>9. pushed[1] = entry /\ 1 \in 1 .. n
  BY <1>1, <1>3
<1>10. ASSUME Distinct(heap), \A i \in 1 .. Len(heap) : heap[i].txn # entry.txn
       PROVE  Distinct(pushed)
  BY <1>4, <1>5, <1>6, <1>8, <1>9, <1>10 DEF Distinct
<1>11. \A k \in 1 .. Len(pushed) : pushed[k] = entry \/ \E i \in 1 .. Len(heap) : pushed[k] = heap[i]
  BY <1>4, <1>5, <1>8, <1>9
<1>12. \A i \in 1 .. Len(heap) : \E k \in 1 .. Len(pushed) : pushed[k] = heap[i]
  BY <1>4, <1>7, <1>8
<1>13. \E k \in 1 .. Len(pushed) : pushed[k] = entry
  BY <1>4, <1>9
<1> QED BY <1>10, <1>11, <1>12, <1>13, Zenon DEF pushed

-----------------------------------------------------------------------------
(* heap.Pop *)

\* The path of a sifted entry is such a least set too.
LEMMA SiftPathLeast ==
    ASSUME NEW n \in Nat, n >= 1
    PROVE  /\ SiftPath(n) \subseteq 1 .. n
           /\ 1 \in SiftPath(n)
           /\ \A j \in SiftPath(n) : ChildTaken(j, n) <= n => ChildTaken(j, n) \in SiftPath(n)
           /\ \A S \in SUBSET (1 .. n) :
                 1 \in S /\ (\A j \in S : ChildTaken(j, n) <= n => ChildTaken(j, n) \in S)
                    => SiftPath(n) \subseteq S
<1>1. \A j \in 1 .. n : ChildTaken(j, n) <= n => ChildTaken(j, n) \in 1 .. n
  BY DEF ChildTaken
<1> QED BY <1>1 DEF SiftPath

\* On the path of a sifted entry, the child taken from a slot is not behind any later slot.
LEMMA SiftPathChain ==
    ASSUME NEW n \in Nat, n >= 1, NEW i \in SiftPath(n), NEW j \in SiftPath(n), i < j
    PROVE  ChildTaken(i, n) <= j
<1> DEFINE P == SiftPath(n)
           C(a) == ChildTaken(a, n)
           Apart(a, b) == a < b => C(a) <= b
           T == {a \in P : \A b \in P : Apart(a, b) /\ Apart(b, a)}
<1>1. /\ P \subseteq 1 .. n /\ 1 \in P
      /\ \A a \in P : C(a) <= n => C(a) \in P
      /\ \A S \in SUBSET (1 .. n) : 1 \in S /\ (\A a \in S : C(a) <= n => C(a) \in S) => P \subseteq S
  BY SiftPathLeast
<1>2. \A a \in 1 .. n : C(a) \in Nat /\ C(a) > a
  BY DEF ChildTaken
<1> HIDE DEF P, C
<1>3. 1 \in T
  <2> DEFINE S == {b \in P : b = 1 \/ b >= C(1)}
  <2>1. 1 \in S /\ \A b \in S : C(b) <= n => C(b) \in S
    BY <1>1, <1>2
  <2>2. S \in SUBSET (1 .. n)
    BY <1>1
  <2>3. P \subseteq S
    BY <1>1, <2>1, <2>2
  <2> QED BY <1>1, <2>3
<1>4. ASSUME NEW a \in T, C(a) <= n
      PROVE  C(a) \in T
  <2> DEFINE k == C(a)
             S == {b \in P : b <= k \/ b >= C(k)}
  <2>1. a \in P /\ k \in P /\ a \in Nat /\ k \in Nat /\ a < k /\ \A b \in P : b \in Nat /\ b >= 1
    BY <1>1, <1>2, <1>4
  <2>2. \A b \in P : (a < b => k <= b) /\ (b < a => C(b) <= a)
    OBVIOUS
  <2> HIDE DEF T
  <2>3. \A b \in P : b < k => C(b) <= k
    BY <1>1, <1>2, <2>1, <2>2
  <2>4. 1 \in S /\ \A b \in S : C(b) <= n => C(b) \in S
    BY <1>1, <1>2, <2>1, <2>3
  <2>5. S \in SUBSET (1 .. n)
    BY <1>1
  <2>6. P \subseteq S
    BY <1>1, <2>4, <2>5
  <2>7. \A b \in P : k < b => C(k) <= b
    BY <2>1, <2>6
  <2> QED BY <2>1, <2>3, <2>7 DEF T
<1>5. T \in SUBSET (1 .. n)
  BY <1>1
<1> HIDE DEF T
<1>6. P \subseteq T
  BY <1>1, <1>3, <1>4, <1>5
<1> QED BY <1>6 DEF T, P, C

\* Every slot of the path but the root is the child taken from another one.
LEMMA SiftPathParent ==
    ASSUME NEW n \in Nat, n >= 1, NEW j \in SiftPath(n), j # 1
    PROVE  \E i \in SiftPath(n) : ChildTaken(i, n) = j
<1> DEFINE S == {a \in SiftPath(n) : a = 1 \/ \E i \in SiftPath(n) : ChildTaken(i, n) = a}
<1>1. 1 \in S /\ \A a \in S : ChildTaken(a, n) <= n => ChildTaken(a, n) \in S
  BY SiftPathLeast
<1>2. S \in SUBSET (1 .. n)
  BY SiftPathLeast
<1> QED BY <1>1, <1>2, SiftPathLeast

\* The path ends: one of its slots has no child.
LEMMA SiftPathEnd ==
    ASSUME NEW n \in Nat, n >= 1
    PROVE  \E i \in SiftPath(n) : ChildTaken(i, n) > n
<1> DEFINE T == {n - a : a \in SiftPath(n)}
<1>1. SiftPath(n) \subseteq 1 .. n /\ 1 \in SiftPath(n)
  BY SiftPathLeast
<1>2. T \in SUBSET Nat /\ T # {}
  BY <1>1
<1>3. PICK x \in T : \A y \in T : x <= y
  BY <1>2, LeastElement
<1>4. PICK i \in SiftPath(n) : x = n - i
  BY <1>3
<1>5. \A b \in SiftPath(n) : b <= i
  BY <1>1, <1>3, <1>4
<1>6. ChildTaken(i, n) \in Nat /\ ChildTaken(i, n) > i
  BY <1>1 DEF ChildTaken
<1> QED BY <1>1, <1>5, <1>6, SiftPathLeast

\* heap.Pop takes the root out and keeps every other request, none of them twice.
LEMMA HeapPopKeeps ==
    ASSUME NEW heap \in Seq(WaitClock), heap # <<>>
    PROVE  LET popped == HeapPop(heap)
           IN  /\ \A k \in 1 .. Len(popped) : \E i \in 2 .. Len(heap) : popped[k] = heap[i]
               /\ \A i \in 2 .. Len(heap) : \E k \in 1 .. Len(popped) : popped[k] = heap[i]
               /\ Distinct(heap) => Distinct(popped)
<1> DEFINE n == Len(heap) - 1
           P == SiftPath(n)
           C(k) == ChildTaken(k, n)
           popped == HeapPop(heap)
           from(k) == IF k \notin P THEN k ELSE IF C(k) <= n THEN C(k) ELSE n + 1
<1>1. n \in Nat /\ Len(heap) = n + 1
  OBVIOUS
<1>2. popped = [i \in 1 .. n |-> heap[from(i)]]
  BY DEF HeapPop
<1>3. Len(popped) = n
  BY <1>1, <1>2
<1> HIDE DEF popped
<1>4. \A k \in 1 .. n : popped[k] = heap[from(k)]
  BY <1>2
<1>5. CASE n = 0
  <2> HIDE DEF n
  <2>1. Len(popped) = 0 /\ Len(heap) = 1
    BY <1>1, <1>3, <1>5
  <2>2. (\A k \in 1 .. Len(popped) : FALSE) /\ (\A k \in 2 .. Len(heap) : FALSE)
    BY <2>1
  <2> QED BY <2>2 DEF Distinct, popped
<1>6. CASE n >= 1
  <2>1. \A k \in 1 .. n : C(k) \in Nat /\ C(k) > k
    BY <1>1 DEF ChildTaken
  <2>2. /\ P \subseteq 1 .. n /\ 1 \in P
        /\ \A k \in P : C(k) <= n => C(k) \in P
        /\ \A i, j \in P : i < j => C(i) <= j
        /\ \A j \in P : j # 1 => \E i \in P : C(i) = j
        /\ \E i \in P : C(i) > n
    BY <1>1, <1>6, SiftPathLeast, SiftPathChain, SiftPathParent, SiftPathEnd
  <2> HIDE DEF P, n, C
  <2>3. \A k \in 1 .. n : from(k) \in 2 .. Len(heap)
    BY <1>1, <2>1, <2>2
  <2>4. ASSUME NEW i \in 1 .. n, NEW j \in 1 .. n, from(i) = from(j)
        PROVE  i = j
    <3>1. CASE i \in P /\ j \in P
      <4>1. i \in Nat /\ j \in Nat /\ C(i) \in Nat /\ C(j) \in Nat /\ C(i) > i /\ C(j) > j
        BY <2>1, <2>2, <3>1
      <4>2. (i < j => C(i) <= j) /\ (j < i => C(j) <= i)
        BY <2>2, <3>1
      <4> QED BY <1>1, <2>4, <3>1, <4>1, <4>2
    <3>2. CASE i \notin P \/ j \notin P
      BY <1>1, <2>1, <2>2, <2>4, <3>2
    <3> QED BY <3>1, <3>2
  <2>5. \A i \in 2 .. Len(heap) : \E k \in 1 .. n : from(k) = i
    <3> SUFFICES ASSUME NEW i \in 2 .. Len(heap) PROVE \E k \in 1 .. n : from(k) = i
      OBVIOUS
    <3>1. CASE i = n + 1
      BY <1>1, <2>1, <2>2, <3>1
    <3>2. CASE i # n + 1 /\ i \in P
      BY <1>1, <2>1, <2>2, <3>2
    <3>3. CASE i # n + 1 /\ i \notin P
      BY <1>1, <3>3
    <3> QED BY <3>1, <3>2, <3>3
  <2> HIDE DEF from
  <2>6. Distinct(heap) => Distinct(popped)
    BY <1>3, <1>4, <2>3, <2>4, SMTT(60) DEF Distinct
  <2> QED BY <1>3, <1>4, <2>3, <2>5, <2>6 DEF popped
<1> QED BY <1>1, <1>5, <1>6

-----------------------------------------------------------------------------
(* The requests that wait for a clock *)

IsWait(m) == m.type = "wait"

\* A request that waits is in the heap or still in the channel, in one place only.
WaitersOnce ==
    /\ Distinct(waitingTMs)
    /\ \A i \in 1 .. Len(waitingTMs) : pc[waitingTMs[i].txn] = "blocked"
    /\ \A i \in 1 .. Len(commitChan) : IsWait(commitChan[i]) =>
          /\ pc[commitChan[i].txn] = "blocked"
          /\ \A k \in 1 .. Len(waitingTMs) : waitingTMs[k].txn # commitChan[i].txn
          /\ \A j \in 1 .. Len(commitChan) :
                IsWait(commitChan[j]) /\ commitChan[j].txn = commitChan[i].txn => i = j

\* A transaction that has asked handleCommitReplies for a clock is known to it, with the
\* clock it asked for: TMWaitClock is not lost, although ClockHeap keeps no order.
NoWaiterLost ==
    \A t \in Txns : pc[t] = "blocked" =>
        \/ \E k \in 1 .. Len(waitingTMs) : waitingTMs[k] = [txn |-> t, clk |-> txnClk[t]]
        \/ \E i \in 1 .. Len(commitChan) : /\ IsWait(commitChan[i])
                                           /\ commitChan[i].txn = t
                                           /\ commitChan[i].clk = txnClk[t]

WaitInv == WaitersOnce /\ NoWaiterLost

\* What waits for handleCommitReplies is about transactions.
LEMMA WaitersType ==
    ASSUME TypeInv
    PROVE  /\ commitChan \in Seq(CommitInfo) /\ waitingTMs \in Seq(WaitClock)
           /\ \A i \in 1 .. Len(commitChan) : commitChan[i] \in CommitInfo /\ commitChan[i].txn \in Txns
           /\ \A i \in 1 .. Len(waitingTMs) : waitingTMs[i] \in WaitClock /\ waitingTMs[i].txn \in Txns
<1>1. commitChan \in Seq(CommitInfo) /\ waitingTMs \in Seq(WaitClock)
  BY DEF TypeInv, TypeOK, MatTypeOK
<1>2. /\ \A i \in 1 .. Len(commitChan) : commitChan[i] \in CommitInfo
      /\ \A i \in 1 .. Len(waitingTMs) : waitingTMs[i] \in WaitClock
  BY <1>1
<1>3. (\A m \in CommitInfo : m.txn \in Txns) /\ (\A m \in WaitClock : m.txn \in Txns)
  BY DEF CommitInfo, WaitClock
<1> QED BY <1>1, <1>2, <1>3

\* What a step leaves alone that neither makes a request wait nor answers one
WaitersAlone ==
    /\ \A t \in Txns : pc[t] = "blocked" <=> pc'[t] = "blocked"
    /\ \A t \in Txns : pc[t] = "blocked" => txnClk'[t] = txnClk[t]
    /\ UNCHANGED waitingTMs

\* Most steps are of that kind and send handleCommitReplies nothing or another message.
LEMMA StepsWithoutWait ==
    ASSUME TypeInv,
           \/ \E p \in Partitions : Partition(p) \/ RequestSafeClk(p)
           \/ \E t \in Txns : ClientStep(t)
           \/ \E t \in Txns : TxnStep(t) /\ ~SendWaitClock(t)
    PROVE  /\ WaitersAlone
           /\ \/ UNCHANGED commitChan
              \/ \E m \in CommitInfo : ~IsWait(m) /\ commitChan' = Append(commitChan, m)
<1> USE DEF TypeInv, TypeOK, WaitersAlone
<1>1. ASSUME NEW p \in Partitions, Partition(p)
      PROVE  /\ WaitersAlone
             /\ \/ UNCHANGED commitChan
                \/ \E m \in CommitInfo : ~IsWait(m) /\ commitChan' = Append(commitChan, m)
  <2>1. WaitersAlone
    BY <1>1 DEF Partition, txnVars, crVars
  <2>2. ASSUME NEW t \in Txns, NEW clk, ApplyCommit(p, t, clk)
        PROVE  \E m \in CommitInfo : ~IsWait(m) /\ commitChan' = Append(commitChan, m)
    <3> DEFINE m == [type |-> "partReply", txn |-> t, n |-> 0, clk |-> NewTimestamp]
    <3>1. m \in CommitInfo /\ ~IsWait(m)
      BY NewTimestampType DEF CommitInfo, IsWait
    <3> QED BY <2>2, <3>1 DEF ApplyCommit
  <2>3. CASE HandleMatCommit(p)
    <3>1. Head(channels[p]).txn \in Txns
      BY <2>3, TakesType DEF HandleMatCommit
    <3> QED BY <2>1, <2>2, <2>3, <3>1 DEF HandleMatCommit, HoldCommit
  <2>4. CASE CheckHoldCommits(p)
    <3>1. \A h \in HeapRoots(commitsOnHold[p]) : h.txn \in Txns
      BY SMTT(60) DEF HeapRoots, MatTypeOK, TxnClkPair
    <3> QED BY <2>1, <2>2, <2>4, <3>1 DEF CheckHoldCommits
  <2>5. CASE HandleMatStaticWrite(p) \/ HandleMatWrite(p) \/ HandleMatPrepare(p) \/ HandleMatAbort(p)
             \/ HandleMatRead(p) \/ HandleMatStaticSingleRead(p) \/ HandleMatSafeClk(p)
    BY <2>1, <2>5 DEF HandleMatStaticWrite, HandleMatWrite, HandleMatPrepare, HandleMatAbort,
                      HandleMatRead, HandleMatStaticSingleRead, HandleMatSafeClk
  <2> QED BY <1>1, <2>3, <2>4, <2>5 DEF Partition, PartitionStep
<1>2. ASSUME NEW p \in Partitions, RequestSafeClk(p)
      PROVE  WaitersAlone /\ UNCHANGED commitChan
  BY <1>2 DEF RequestSafeClk, txnVars, crVars
<1>3. ASSUME NEW t \in Txns, ClientStep(t)
      PROVE  WaitersAlone /\ UNCHANGED commitChan
  BY <1>3, SMTT(60) DEF ClientStep, StartTxn, GetClockToUse, SingleRead, StaticUpdate, Read, Update, Commit,
              Abort, LostConn, chanVars, crVars
<1>4. ASSUME NEW t \in Txns, NotifyCommit(t)
      PROVE  /\ WaitersAlone
             /\ \E m \in CommitInfo : ~IsWait(m) /\ commitChan' = Append(commitChan, m)
  <2>1. NPartitionsInfo(t) \in CommitInfo /\ ~IsWait(NPartitionsInfo(t))
    BY DEF NPartitionsInfo, CommitInfo, IsWait
  <2>2. WaitersAlone
    BY <1>4 DEF NotifyCommit, crVars
  <2> QED BY <1>4, <2>1, <2>2 DEF NotifyCommit
<1>5. ASSUME NEW t \in Txns, NEW p \in Partitions, SendToPartition(t, p)
      PROVE  WaitersAlone /\ UNCHANGED commitChan
  BY <1>5 DEF SendToPartition, AfterLoop, crVars
<1>6. ASSUME NEW t \in Txns, TxnStep(t), ~SendWaitClock(t)
      PROVE  /\ WaitersAlone
             /\ \/ UNCHANGED commitChan
                \/ \E m \in CommitInfo : ~IsWait(m) /\ commitChan' = Append(commitChan, m)
  BY <1>4, <1>5, <1>6, SMTT(60) DEF TxnStep, SendRead, EndRead, EndSingleRead, ReceivePrepareReply,
                          chanVars, crVars
<1> QED BY <1>1, <1>2, <1>3, <1>6

\* Such a step keeps the invariant.
LEMMA WaitersAloneKeep ==
    ASSUME TypeInv, WaitInv, WaitersAlone,
           \/ UNCHANGED commitChan
           \/ \E m \in CommitInfo : ~IsWait(m) /\ commitChan' = Append(commitChan, m)
           \/ commitChan # <<>> /\ ~IsWait(Head(commitChan)) /\ commitChan' = Tail(commitChan)
    PROVE  WaitInv'
<1>1. commitChan \in Seq(CommitInfo) /\ waitingTMs \in Seq(WaitClock)
  BY DEF TypeInv, TypeOK, MatTypeOK
<1>2. /\ \A i \in 1 .. Len(commitChan) : commitChan[i].txn \in Txns
      /\ \A i \in 1 .. Len(waitingTMs) : waitingTMs[i].txn \in Txns
  BY WaitersType
<1>3. /\ waitingTMs' = waitingTMs
      /\ \A t \in Txns : pc'[t] = "blocked" <=> pc[t] = "blocked"
      /\ \A t \in Txns : pc[t] = "blocked" => txnClk'[t] = txnClk[t]
      /\ WaitersOnce /\ NoWaiterLost
  BY DEF WaitersAlone, WaitInv
<1>4. CASE UNCHANGED commitChan
  <2>1. WaitersOnce'
    BY <1>2, <1>3, <1>4 DEF WaitersOnce, Distinct
  <2>2. NoWaiterLost'
    BY <1>2, <1>3, <1>4 DEF NoWaiterLost
  <2> QED BY <2>1, <2>2 DEF WaitInv
<1>5. ASSUME NEW m \in CommitInfo, ~IsWait(m), commitChan' = Append(commitChan, m)
      PROVE  WaitInv'
  <2>1. /\ Len(commitChan) \in Nat /\ Len(commitChan') = Len(commitChan) + 1
        /\ \A i \in 1 .. Len(commitChan) : commitChan'[i] = commitChan[i]
        /\ commitChan'[Len(commitChan) + 1] = m
    BY <1>1, <1>5
  <2>2. \A i \in 1 .. Len(commitChan') :
           IsWait(commitChan'[i]) => i \in 1 .. Len(commitChan) /\ commitChan'[i] = commitChan[i]
    BY <1>5, <2>1
  <2>3. WaitersOnce'
    BY <1>2, <1>3, <2>2, SMTT(60) DEF WaitersOnce, Distinct
  <2>4. NoWaiterLost'
    BY <1>3, <2>1 DEF NoWaiterLost
  <2> QED BY <2>3, <2>4 DEF WaitInv
<1>6. ASSUME commitChan # <<>>, ~IsWait(Head(commitChan)), commitChan' = Tail(commitChan)
      PROVE  WaitInv'
  <2>1. /\ Len(commitChan) \in Nat /\ Len(commitChan') = Len(commitChan) - 1
        /\ \A i \in 1 .. Len(commitChan') : commitChan'[i] = commitChan[i + 1]
        /\ ~IsWait(commitChan[1])
    BY <1>1, <1>6
  <2>2. \A i \in 1 .. Len(commitChan) :
           IsWait(commitChan[i]) => i - 1 \in 1 .. Len(commitChan') /\ commitChan'[i - 1] = commitChan[i]
    BY <2>1
  <2>3. \A i \in 1 .. Len(commitChan') : i + 1 \in 1 .. Len(commitChan) /\ i \in Nat
    BY <2>1
  <2>4. WaitersOnce'
    <3>1. Distinct(waitingTMs)' /\ \A i \in 1 .. Len(waitingTMs') : pc'[waitingTMs'[i].txn] = "blocked"
      BY <1>2, <1>3 DEF WaitersOnce, Distinct
    <3>2. \A i \in 1 .. Len(commitChan') : IsWait(commitChan'[i]) =>
             /\ pc'[commitChan'[i].txn] = "blocked"
             /\ \A k \in 1 .. Len(waitingTMs') : waitingTMs'[k].txn # commitChan'[i].txn
      BY <1>2, <1>3, <2>1, <2>3 DEF WaitersOnce
    <3>3. \A i, j \in 1 .. Len(commitChan') :
             IsWait(commitChan'[i]) /\ IsWait(commitChan'[j])
                /\ commitChan'[j].txn = commitChan'[i].txn => i = j
      <4> SUFFICES ASSUME NEW i \in 1 .. Len(commitChan'), NEW j \in 1 .. Len(commitChan'),
                          IsWait(commitChan'[i]), IsWait(commitChan'[j]),
                          commitChan'[j].txn = commitChan'[i].txn
                   PROVE  i = j
        OBVIOUS
      <4>1. /\ i + 1 \in 1 .. Len(commitChan) /\ j + 1 \in 1 .. Len(commitChan)
            /\ commitChan'[i] = commitChan[i + 1] /\ commitChan'[j] = commitChan[j + 1]
        BY <2>1, <2>3
      <4>2. \A k, l \in 1 .. Len(commitChan) :
               IsWait(commitChan[k]) /\ IsWait(commitChan[l])
                  /\ commitChan[l].txn = commitChan[k].txn => k = l
        BY <1>3 DEF WaitersOnce
      <4>3. i + 1 = j + 1
        BY <4>1, <4>2
      <4> QED BY <2>3, <4>3
    <3> QED BY <3>1, <3>2, <3>3 DEF WaitersOnce
  <2>5. NoWaiterLost'
    BY <1>3, <2>2 DEF NoWaiterLost
  <2> QED BY <2>4, <2>5 DEF WaitInv
<1> QED BY <1>4, <1>5, <1>6

\* SendWaitClock: the request joins the channel.
LEMMA SendWaitClockKeeps ==
    ASSUME TypeInv, WaitInv, NEW t \in Txns, SendWaitClock(t)
    PROVE  WaitInv'
<1> DEFINE m == [type |-> "wait", txn |-> t, n |-> 0, clk |-> txnClk[t]]
<1>1. /\ commitChan \in Seq(CommitInfo) /\ waitingTMs \in Seq(WaitClock)
      /\ pc \in [Txns -> Phases] /\ txnClk \in [Txns -> Clock]
  BY DEF TypeInv, TypeOK, MatTypeOK
<1>2. /\ \A i \in 1 .. Len(commitChan) : commitChan[i].txn \in Txns
      /\ \A i \in 1 .. Len(waitingTMs) : waitingTMs[i].txn \in Txns
  BY WaitersType
<1>3. /\ pc[t] = "wait" /\ pc' = [pc EXCEPT ![t] = "blocked"]
      /\ commitChan' = Append(commitChan, m)
      /\ waitingTMs' = waitingTMs /\ txnClk' = txnClk
      /\ WaitersOnce /\ NoWaiterLost
  BY DEF SendWaitClock, crVars, WaitInv
<1>4. m \in CommitInfo /\ IsWait(m) /\ m.txn = t /\ m.clk = txnClk[t]
  BY <1>1 DEF CommitInfo, IsWait
<1> HIDE DEF m
<1>5. /\ Len(commitChan) \in Nat /\ Len(commitChan') = Len(commitChan) + 1
      /\ \A i \in 1 .. Len(commitChan) : commitChan'[i] = commitChan[i]
      /\ commitChan'[Len(commitChan) + 1] = m
  BY <1>1, <1>3, <1>4
<1>6. \A i \in 1 .. Len(commitChan') :
         \/ i \in 1 .. Len(commitChan) /\ commitChan'[i] = commitChan[i]
         \/ i = Len(commitChan) + 1 /\ commitChan'[i] = m
  BY <1>5
<1>7. /\ \A i \in 1 .. Len(waitingTMs) : waitingTMs[i].txn # t
      /\ \A i \in 1 .. Len(commitChan) : IsWait(commitChan[i]) => commitChan[i].txn # t
  BY <1>3 DEF WaitersOnce
<1>8. \A u \in Txns : pc'[u] = IF u = t THEN "blocked" ELSE pc[u]
  BY <1>1, <1>3
<1>9. WaitersOnce'
  BY <1>2, <1>3, <1>4, <1>6, <1>7, <1>8, SMTT(60) DEF WaitersOnce, Distinct
<1>10. NoWaiterLost'
  <2>1. Len(commitChan) + 1 \in 1 .. Len(commitChan')
    BY <1>5
  <2>2. \A i \in 1 .. Len(commitChan) : i \in 1 .. Len(commitChan')
    BY <1>5
  <2> QED BY <1>3, <1>4, <1>5, <1>8, <2>1, <2>2 DEF NoWaiterLost
<1> QED BY <1>9, <1>10 DEF WaitInv

\* HandleWaitClock: the request moves from the channel to the heap.
LEMMA HandleWaitClockKeeps ==
    ASSUME TypeInv, WaitInv, HandleWaitClock
    PROVE  WaitInv'
<1> DEFINE entry == [txn |-> Head(commitChan).txn, clk |-> Head(commitChan).clk]
<1>1. commitChan \in Seq(CommitInfo) /\ waitingTMs \in Seq(WaitClock)
  BY DEF TypeInv, TypeOK, MatTypeOK
<1>2. /\ commitChan # <<>> /\ IsWait(Head(commitChan)) /\ commitChan' = Tail(commitChan)
      /\ waitingTMs' = HeapPush(waitingTMs, entry)
      /\ pc' = pc /\ txnClk' = txnClk
      /\ WaitersOnce /\ NoWaiterLost
  BY DEF HandleWaitClock, TakesInfo, IsWait, txnVars, WaitInv
<1>3. /\ Len(commitChan) \in Nat /\ Len(commitChan') = Len(commitChan) - 1
      /\ \A i \in 1 .. Len(commitChan') : commitChan'[i] = commitChan[i + 1]
      /\ 1 \in 1 .. Len(commitChan) /\ Head(commitChan) = commitChan[1]
  BY <1>1, <1>2
<1>4. commitChan[1] \in CommitInfo
  BY <1>1, <1>3
<1>5. entry \in WaitClock /\ entry.txn = commitChan[1].txn /\ entry.clk = commitChan[1].clk
  BY <1>3, <1>4 DEF CommitInfo, WaitClock
<1>6. entry = [txn |-> entry.txn, clk |-> entry.clk]
  OBVIOUS
<1> HIDE DEF entry
<1>7. /\ \A k \in 1 .. Len(waitingTMs') :
            waitingTMs'[k] = entry \/ \E i \in 1 .. Len(waitingTMs) : waitingTMs'[k] = waitingTMs[i]
      /\ \E k \in 1 .. Len(waitingTMs') : waitingTMs'[k] = entry
      /\ \A i \in 1 .. Len(waitingTMs) :
            \E k \in 1 .. Len(waitingTMs') : waitingTMs'[k] = waitingTMs[i]
      /\ Distinct(waitingTMs) /\ (\A i \in 1 .. Len(waitingTMs) : waitingTMs[i].txn # entry.txn)
            => Distinct(waitingTMs)'
  BY <1>1, <1>2, <1>5, HeapPushKeeps, ZenonT(60)
<1>8. /\ \A i \in 1 .. Len(waitingTMs) : waitingTMs[i].txn # entry.txn
      /\ \A i \in 1 .. Len(commitChan) :
            IsWait(commitChan[i]) /\ commitChan[i].txn = entry.txn => i = 1
      /\ pc[entry.txn] = "blocked"
  BY <1>2, <1>3, <1>5 DEF WaitersOnce
<1>9. \A i \in 1 .. Len(commitChan') : i + 1 \in 1 .. Len(commitChan) /\ i + 1 # 1 /\ i \in Nat
  BY <1>3
<1>10. WaitersOnce'
  <2>1. Distinct(waitingTMs)'
    BY <1>2, <1>7, <1>8 DEF WaitersOnce
  <2>2. \A k \in 1 .. Len(waitingTMs') : pc'[waitingTMs'[k].txn] = "blocked"
    BY <1>2, <1>7, <1>8, SMTT(60) DEF WaitersOnce
  <2>3. \A i \in 1 .. Len(commitChan') : IsWait(commitChan'[i]) =>
           /\ pc'[commitChan'[i].txn] = "blocked"
           /\ \A k \in 1 .. Len(waitingTMs') : waitingTMs'[k].txn # commitChan'[i].txn
    BY <1>2, <1>3, <1>7, <1>8, <1>9, SMTT(60) DEF WaitersOnce
  <2>4. \A i, j \in 1 .. Len(commitChan') :
           IsWait(commitChan'[i]) /\ IsWait(commitChan'[j])
              /\ commitChan'[j].txn = commitChan'[i].txn => i = j
    BY <1>2, <1>3, <1>9 DEF WaitersOnce
  <2> QED BY <2>1, <2>2, <2>3, <2>4 DEF WaitersOnce
<1>11. NoWaiterLost'
  <2> SUFFICES ASSUME NEW t \in Txns, pc'[t] = "blocked"
               PROVE  \/ \E k \in 1 .. Len(waitingTMs') :
                            waitingTMs'[k] = [txn |-> t, clk |-> txnClk'[t]]
                      \/ \E i \in 1 .. Len(commitChan') : /\ IsWait(commitChan'[i])
                                                          /\ commitChan'[i].txn = t
                                                          /\ commitChan'[i].clk = txnClk'[t]
    BY DEF NoWaiterLost
  <2>1. CASE \E k \in 1 .. Len(waitingTMs) : waitingTMs[k] = [txn |-> t, clk |-> txnClk[t]]
    BY <1>2, <1>7, <2>1
  <2>2. ASSUME NEW i \in 1 .. Len(commitChan), IsWait(commitChan[i]), commitChan[i].txn = t,
               commitChan[i].clk = txnClk[t]
        PROVE  \/ \E k \in 1 .. Len(waitingTMs') : waitingTMs'[k] = [txn |-> t, clk |-> txnClk[t]]
               \/ \E j \in 1 .. Len(commitChan') : /\ IsWait(commitChan'[j])
                                                   /\ commitChan'[j].txn = t
                                                   /\ commitChan'[j].clk = txnClk[t]
    <3>1. CASE i = 1
      BY <1>5, <1>6, <1>7, <2>2, <3>1
    <3>2. CASE i # 1
      <4>1. i - 1 \in 1 .. Len(commitChan') /\ commitChan'[i - 1] = commitChan[i]
        BY <1>3, <3>2
      <4> QED BY <2>2, <4>1
    <3> QED BY <3>1, <3>2
  <2> QED BY <1>2, <2>1, <2>2 DEF NoWaiterLost
<1> QED BY <1>10, <1>11 DEF WaitInv

\* NotifyWaiting: the request that is answered, and no other, leaves the heap.
LEMMA NotifyWaitingKeeps ==
    ASSUME TypeInv, WaitInv, NotifyWaiting
    PROVE  WaitInv'
<1>1. /\ commitChan \in Seq(CommitInfo) /\ waitingTMs \in Seq(WaitClock)
      /\ pc \in [Txns -> Phases] /\ txnClk \in [Txns -> Clock]
  BY DEF TypeInv, TypeOK, MatTypeOK
<1>2. commitChan' = commitChan /\ WaitersOnce /\ NoWaiterLost
  BY DEF NotifyWaiting, chanVars, WaitInv
<1>3. CASE ~FirstIsReady
  BY <1>2, <1>3, WaitersAloneKeep DEF NotifyWaiting, WaitersAlone
<1>4. CASE FirstIsReady
  <2> DEFINE t == waitingTMs[1].txn
  <2>1. /\ waitingTMs # <<>> /\ waitingTMs' = HeapPop(waitingTMs)
        /\ txnClk' = [txnClk EXCEPT ![t] = notifyClk]
        /\ pc' = [pc EXCEPT ![t] = "active"]
    BY <1>4 DEF NotifyWaiting, FirstIsReady
  <2>2. 1 \in 1 .. Len(waitingTMs) /\ \A i \in 2 .. Len(waitingTMs) : i \in 1 .. Len(waitingTMs) /\ i # 1
    BY <1>1, <2>1
  <2>3. \A i \in 1 .. Len(waitingTMs) : i = 1 \/ i \in 2 .. Len(waitingTMs)
    BY <1>1
  <2>4. t \in Txns
    BY <2>2, WaitersType
  <2>5. /\ \A k \in 1 .. Len(waitingTMs') :
              \E i \in 2 .. Len(waitingTMs) : waitingTMs'[k] = waitingTMs[i]
        /\ \A i \in 2 .. Len(waitingTMs) :
              \E k \in 1 .. Len(waitingTMs') : waitingTMs'[k] = waitingTMs[i]
        /\ Distinct(waitingTMs) => Distinct(waitingTMs)'
    BY <1>1, <2>1, HeapPopKeeps
  <2>6. /\ \A i \in 2 .. Len(waitingTMs) : waitingTMs[i].txn # t
        /\ \A i \in 1 .. Len(commitChan) : IsWait(commitChan[i]) => commitChan[i].txn # t
        /\ Distinct(waitingTMs)'
    <3>1. Distinct(waitingTMs)
      BY <1>2 DEF WaitersOnce
    <3>2. \A i \in 2 .. Len(waitingTMs) : waitingTMs[i].txn # t
      BY <2>2, <3>1 DEF Distinct
    <3>3. \A i \in 1 .. Len(commitChan) : IsWait(commitChan[i]) => commitChan[i].txn # t
      BY <1>2, <2>2 DEF WaitersOnce
    <3> QED BY <2>5, <3>1, <3>2, <3>3
  <2>7. \A u \in Txns : u # t => pc'[u] = pc[u] /\ txnClk'[u] = txnClk[u]
    BY <1>1, <2>1, <2>4
  <2>8. pc'[t] = "active"
    BY <1>1, <2>1, <2>4
  <2>9. /\ \A i \in 1 .. Len(commitChan) : commitChan[i].txn \in Txns
        /\ \A i \in 1 .. Len(waitingTMs) : waitingTMs[i].txn \in Txns
    BY WaitersType
  <2> HIDE DEF t
  <2>10. WaitersOnce'
    <3>1. ASSUME NEW k \in 1 .. Len(waitingTMs') PROVE pc'[waitingTMs'[k].txn] = "blocked"
      <4>1. PICK i \in 2 .. Len(waitingTMs) : waitingTMs'[k] = waitingTMs[i]
        BY <2>5
      <4>2. i \in 1 .. Len(waitingTMs) /\ waitingTMs[i].txn \in Txns /\ waitingTMs[i].txn # t
        BY <2>2, <2>6, <2>9
      <4>3. pc[waitingTMs[i].txn] = "blocked"
        BY <1>2, <4>2 DEF WaitersOnce
      <4> QED BY <2>7, <4>1, <4>2, <4>3
    <3>2. \A i \in 1 .. Len(commitChan') : IsWait(commitChan'[i]) =>
             /\ pc'[commitChan'[i].txn] = "blocked"
             /\ \A k \in 1 .. Len(waitingTMs') : waitingTMs'[k].txn # commitChan'[i].txn
      <4>1. \A i \in 1 .. Len(commitChan) : IsWait(commitChan[i]) =>
               /\ pc[commitChan[i].txn] = "blocked"
               /\ \A k \in 1 .. Len(waitingTMs) : waitingTMs[k].txn # commitChan[i].txn
        BY <1>2 DEF WaitersOnce
      <4>2. \A i \in 1 .. Len(commitChan) : IsWait(commitChan[i]) =>
               pc'[commitChan[i].txn] = "blocked"
        BY <2>6, <2>7, <2>9, <4>1
      <4>3. \A k \in 1 .. Len(waitingTMs') : \E i \in 1 .. Len(waitingTMs) : waitingTMs'[k] = waitingTMs[i]
        BY <2>2, <2>5
      <4> SUFFICES ASSUME NEW i \in 1 .. Len(commitChan), IsWait(commitChan[i])
                   PROVE  /\ pc'[commitChan[i].txn] = "blocked"
                          /\ \A k \in 1 .. Len(waitingTMs') : waitingTMs'[k].txn # commitChan[i].txn
        BY <1>2
      <4>4. ASSUME NEW k \in 1 .. Len(waitingTMs') PROVE waitingTMs'[k].txn # commitChan[i].txn
        <5>1. PICK j \in 1 .. Len(waitingTMs) : waitingTMs'[k] = waitingTMs[j]
          BY <4>3
        <5>2. waitingTMs[j].txn # commitChan[i].txn
          BY <4>1
        <5> QED BY <5>1, <5>2
      <4> QED BY <4>2, <4>4
    <3>3. \A i, j \in 1 .. Len(commitChan') :
             IsWait(commitChan'[i]) /\ IsWait(commitChan'[j])
                /\ commitChan'[j].txn = commitChan'[i].txn => i = j
      BY <1>2 DEF WaitersOnce
    <3> QED BY <2>6, <3>1, <3>2, <3>3 DEF WaitersOnce
  <2>11. NoWaiterLost'
    <3> SUFFICES ASSUME NEW u \in Txns, pc'[u] = "blocked"
                 PROVE  \/ \E k \in 1 .. Len(waitingTMs') :
                              waitingTMs'[k] = [txn |-> u, clk |-> txnClk'[u]]
                        \/ \E i \in 1 .. Len(commitChan') : /\ IsWait(commitChan'[i])
                                                            /\ commitChan'[i].txn = u
                                                            /\ commitChan'[i].clk = txnClk'[u]
      BY DEF NoWaiterLost
    <3>1. u # t /\ pc[u] = "blocked" /\ txnClk'[u] = txnClk[u]
      BY <2>7, <2>8
    <3>2. ASSUME NEW k \in 1 .. Len(waitingTMs), waitingTMs[k] = [txn |-> u, clk |-> txnClk[u]]
          PROVE  \E j \in 1 .. Len(waitingTMs') : waitingTMs'[j] = [txn |-> u, clk |-> txnClk[u]]
      <4>1. k # 1
        BY <3>1, <3>2 DEF t
      <4>2. k \in 2 .. Len(waitingTMs)
        BY <2>3, <4>1
      <4>3. PICK j \in 1 .. Len(waitingTMs') : waitingTMs'[j] = waitingTMs[k]
        BY <2>5, <4>2
      <4> QED BY <3>2, <4>3
    <3> QED BY <1>2, <3>1, <3>2 DEF NoWaiterLost
  <2> QED BY <2>10, <2>11 DEF WaitInv
<1> QED BY <1>3, <1>4

\* Every step keeps the invariant.
LEMMA NextWait == TypeInv /\ WaitInv /\ [Next]_vars => WaitInv'
<1> SUFFICES ASSUME TypeInv, WaitInv, [Next]_vars PROVE WaitInv'
  OBVIOUS
<1>1. ASSUME \/ \E p \in Partitions : Partition(p) \/ RequestSafeClk(p)
             \/ \E t \in Txns : ClientStep(t)
             \/ \E t \in Txns : TxnStep(t) /\ ~SendWaitClock(t)
      PROVE  WaitInv'
  BY <1>1, StepsWithoutWait, WaitersAloneKeep
<1>2. ASSUME HandleCommitNPartitions \/ HandlePartCommitReply \/ FlushStacked
      PROVE  WaitInv'
  <2>1. WaitersAlone
    BY <1>2 DEF HandleCommitNPartitions, HandlePartCommitReply, FlushStacked, txnVars, WaitersAlone
  <2>2. \/ UNCHANGED commitChan
        \/ commitChan # <<>> /\ ~IsWait(Head(commitChan)) /\ commitChan' = Tail(commitChan)
    BY <1>2 DEF HandleCommitNPartitions, HandlePartCommitReply, FlushStacked, TakesInfo, IsWait,
                chanVars
  <2> QED BY <2>1, <2>2, WaitersAloneKeep
<1>3. CASE UNCHANGED vars
  <2>1. WaitersAlone /\ UNCHANGED commitChan
    BY <1>3 DEF vars, txnVars, crVars, chanVars, WaitersAlone
  <2> QED BY <2>1, WaitersAloneKeep
<1> QED BY <1>1, <1>2, <1>3, SendWaitClockKeeps, HandleWaitClockKeeps, NotifyWaitingKeeps
        DEF Next, CommitReplies

\* Initially no request waits.
LEMMA InitWait == Init => WaitInv
BY DEF Init, MatInit, WaitInv, WaitersOnce, NoWaiterLost, Distinct

\* A request that waits for a clock is never lost: handleCommitReplies has it, with the clock
\* it asked for, in its channel or in the heap, however many requests wait and in whichever
\* order they come and are answered.
THEOREM WaitersKept == Spec => []NoWaiterLost
<1>1. Spec => [](TypeInv /\ WaitInv)
  BY InitType, NextType, InitWait, NextWait, PTL DEF Spec
<1>2. WaitInv => NoWaiterLost
  BY DEF WaitInv
<1> QED BY <1>1, <1>2, PTL

=============================================================================
