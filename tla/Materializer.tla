----------------------------- MODULE Materializer -----------------------------
(***************************************************************************)
(* The partitions of the materializer (components/materializer.go).  Each  *)
(* partition is one goroutine that owns a range of the keys and serves the *)
(* requests of its channel in order.  This module has the state of the     *)
(* partitions and one action per request handler; TransactionManager       *)
(* composes them with the goroutines that send the requests.               *)
(*                                                                         *)
(* A transaction's updates to a partition are represented by the id of the *)
(* transaction: db[p] is the set of the transactions whose updates have    *)
(* been applied to the objects of p.                                       *)
(***************************************************************************)
EXTENDS ClockSI, Sequences, FiniteSets

CONSTANTS
    Self,        \* replicaID of this server
    NParts,      \* nGoRoutines, the number of partitions
    Txns,        \* transaction ids
    NoTxn,       \* the txn field of a request that is not about a transaction
    NoEffect,    \* transactions whose updates generate nothing to replicate
    MaxTime      \* bound: the largest value the wall clock reaches

ASSUME MaterializerConstants ==
    /\ Self \in Replicas
    /\ NParts \in Nat \ {0}
    /\ NoTxn \notin Txns
    /\ NoEffect \subseteq Txns
    /\ MaxTime \in Nat
    /\ IsFiniteSet(Txns)

Partitions == 0 .. (NParts - 1)

VARIABLES
    now,            \* the last value read from the wall clock
    channels,       \* Materializer.channels: the requests waiting at each partition
    stableClk,      \* partitionClock.stableClk
    lastUsedTs,     \* partitionClock.lastUsedTs
    prepClks,       \* partitionClock.prepClks: the prepared transactions
    pendingOps,     \* partition.pendingOps: transactions with updates not yet applied
    commitsOnHold,  \* partition.commitsOnHold
    checkingHold,   \* the partition is inside checkHoldCommits
    db,             \* partition.db
    logChan,        \* what the partition has sent to its logger
    replyChan,      \* the ReplyChan of each transaction's prepare requests
    readChan,       \* the ReplyChan of each transaction's read requests
    commitChan      \* TransactionManager.commitChan, read by handleCommitReplies

partVars == <<now, stableClk, lastUsedTs, prepClks, pendingOps, commitsOnHold,
              checkingHold, db, logChan>>
chanVars == <<channels, replyChan, readChan, commitChan>>

TxnReqTypes == {"staticWrite", "write", "prepare", "commit", "abort", "read", "singleRead"}

TxnClkPair == [txn: Txns, clk: Clock]
MatRequest == [type: TxnReqTypes, txn: Txns, clk: Clock]
                \cup [type: {"safeClk"}, txn: {NoTxn}, clk: Clock]
LogRequest == [type: {"commit"}, txn: Txns, clk: Clock]
                \cup [type: {"clk"}, txn: {NoTxn}, clk: Clock]
ReadReply  == [part: Partitions, seen: SUBSET Txns]
CommitInfo == [type: {"nPartitions", "partReply", "wait"}, txn: Txns, n: Nat, clk: Clock]

MatTypeOK ==
    /\ now \in Nat
    /\ channels \in [Partitions -> Seq(MatRequest)]
    /\ stableClk \in [Partitions -> Clock]
    /\ lastUsedTs \in [Partitions -> Nat]
    /\ prepClks \in [Partitions -> SUBSET TxnClkPair]
    /\ pendingOps \in [Partitions -> SUBSET Txns]
    /\ commitsOnHold \in [Partitions -> SUBSET TxnClkPair]
    /\ checkingHold \in [Partitions -> BOOLEAN]
    /\ db \in [Partitions -> SUBSET Txns]
    /\ logChan \in [Partitions -> Seq(LogRequest)]
    /\ replyChan \in [Txns -> Seq(Clock)]
    /\ readChan \in [Txns -> SUBSET ReadReply]
    /\ commitChan \in Seq(CommitInfo)

MatInit ==
    /\ now = 1
    /\ channels = [p \in Partitions |-> <<>>]
    /\ stableClk = [p \in Partitions |-> NewTimestamp]
    /\ lastUsedTs = [p \in Partitions |-> 0]
    /\ prepClks = [p \in Partitions |-> {}]
    /\ pendingOps = [p \in Partitions |-> {}]
    /\ commitsOnHold = [p \in Partitions |-> {}]
    /\ checkingHold = [p \in Partitions |-> FALSE]
    /\ db = [p \in Partitions |-> {}]
    /\ logChan = [p \in Partitions |-> <<>>]
    /\ replyChan = [t \in Txns |-> <<>>]
    /\ readChan = [t \in Txns |-> {}]
    /\ commitChan = <<>>

-----------------------------------------------------------------------------
(* Requests and replies *)

Request(type, t, clk) == [type |-> type, txn |-> t, clk |-> clk]

\* SendRequestToChannel
SendRequest(p, req) == channels' = [channels EXCEPT ![p] = Append(@, req)]

\* listenToTM: the partition takes its next request, one of the given type.
\* It serves no request while it is still inside a handler (checkHoldCommits).
Takes(p, type) ==
    /\ ~checkingHold[p]
    /\ channels[p] # <<>>
    /\ Head(channels[p]).type = type
    /\ channels' = [channels EXCEPT ![p] = Tail(@)]

-----------------------------------------------------------------------------
(* The clocks of a partition *)

\* The entries that can be at the root of a heap ordered by IsLower: the
\* minimal ones.  The clocks prepared by a partition are totally ordered
\* (PreparesAreOrdered) and have one; several held commits that are concurrent or
\* equal have one each.
HeapRoots(entries) == {e \in entries : \A f \in entries : ~IsLower(f.clk, e.clk)}

\* Mutant of NextClk: two clocks taken at the same time are equal.
NextClkIgnoringLast(p, time) == NextTimestamp(stableClk[p], Self, time)

\* getNextClk, with NextTimestamp reading "time" from the wall clock
NextClk(p, time) ==
    LET new == NextTimestamp(stableClk[p], Self, time)
    IN  IF new[Self] <= lastUsedTs[p] THEN UpdatePos(new, Self, lastUsedTs[p] + 1) ELSE new

\* prepareClock.  A new clock is higher than all the prepared ones, so pushing it
\* leaves it in the last slot of the heap, the one PeekMax returns.
PrepareClock(p, t, time) ==
    LET new == NextClk(p, time)
    IN  /\ now' = time
        /\ lastUsedTs' = [lastUsedTs EXCEPT ![p] = new[Self]]
        /\ prepClks' = [prepClks EXCEPT ![p] = @ \cup {[txn |-> t, clk |-> new]}]
        /\ replyChan' = [replyChan EXCEPT ![t] = Append(@, new)]

\* Mutant of RemovePrepare: removeLowestPrepare is called instead.
RemoveLowestPrepare(prepared, t, root) == prepared \ {root}

\* removePrepare: innerMap gives position 0, the root, to a transaction that is
\* not there.
RemovePrepare(prepared, t, root) ==
    IF \E e \in prepared : e.txn = t THEN {e \in prepared : e.txn # t} ELSE prepared \ {root}

-----------------------------------------------------------------------------
(* Commits *)

\* Mutant of CanCommit: the held commits only are looked at.
CanCommitAmongHeld(prepared, held, clk) ==
    IF held = {} THEN {TRUE} ELSE {IsHigher(h.clk, clk) : h \in HeapRoots(held)}

\* canCommit, as the set of its possible answers (one for each possible root of
\* the heap of held commits); prepared excludes the transaction itself.
CanCommit(prepared, held, clk) ==
    LET afterPrepares == prepared = {} \/ \E m \in HeapRoots(prepared) : ~IsLower(m.clk, clk)
    IN  IF held = {} THEN {afterPrepares}
        ELSE {afterPrepares /\ IsHigher(h.clk, clk) : h \in HeapRoots(held)}

\* applyCommit and updatePartitionWithCommit
ApplyCommit(p, t, clk) ==
    /\ db' = [db EXCEPT ![p] = @ \cup ({t} \cap pendingOps[p])]
    /\ stableClk' = [stableClk EXCEPT ![p] = Merge(@, clk)]
    /\ logChan' = IF t \in pendingOps[p] \ NoEffect
                  THEN [logChan EXCEPT ![p] = Append(@, Request("commit", t, clk))]
                  ELSE logChan
    /\ pendingOps' = [pendingOps EXCEPT ![p] = @ \ {t}]
    /\ commitChan' = Append(commitChan, [type |-> "partReply", txn |-> t, n |-> 0,
                                         clk |-> NewTimestamp])

HoldCommit(p, t, clk) ==
    /\ commitsOnHold' = [commitsOnHold EXCEPT ![p] = @ \cup {[txn |-> t, clk |-> clk]}]
    /\ UNCHANGED <<db, stableClk, logChan, pendingOps, commitChan>>

\* Mutant of CallsCheckHold: nothing is checked when this commit has been held.
CallsCheckHoldIfApplied(t, lowest, applied) == lowest.txn = t /\ applied

\* "Was the lowest prepare, so some commit on hold may be appliable now - even if
\* this transaction's commit was put on hold."
CallsCheckHold(t, lowest, applied) == lowest.txn = t

HandleMatCommit(p) ==
    /\ Takes(p, "commit")
    /\ LET t == Head(channels[p]).txn
           clk == Head(channels[p]).clk
       IN  \E lowest \in HeapRoots(prepClks[p]) :
              LET prepared == RemovePrepare(prepClks[p], t, lowest)
              IN  /\ prepClks' = [prepClks EXCEPT ![p] = prepared]
                  /\ \E can \in CanCommit(prepared, commitsOnHold[p], clk) :
                        /\ \/ can /\ ApplyCommit(p, t, clk) /\ UNCHANGED commitsOnHold
                           \/ ~can /\ HoldCommit(p, t, clk)
                        /\ checkingHold' = [checkingHold EXCEPT
                              ![p] = CallsCheckHold(t, lowest, can) /\ commitsOnHold'[p] # {}]
    /\ UNCHANGED <<now, lastUsedTs, replyChan, readChan>>

\* One iteration of the loops of checkHoldCommits: apply the lowest held commit
\* if no prepared transaction is below it, or leave.
CheckHoldCommits(p) ==
    /\ checkingHold[p]
    /\ \/ \E h \in HeapRoots(commitsOnHold[p]) :
             /\ \/ prepClks[p] = {}
                \/ \E m \in HeapRoots(prepClks[p]) : IsLowerOrEqual(h.clk, m.clk)
             /\ commitsOnHold' = [commitsOnHold EXCEPT ![p] = @ \ {h}]
             /\ ApplyCommit(p, h.txn, h.clk)
             /\ UNCHANGED checkingHold
       \/ /\ \/ commitsOnHold[p] = {}
             \/ \E h \in HeapRoots(commitsOnHold[p]), m \in HeapRoots(prepClks[p]) :
                   ~IsLowerOrEqual(h.clk, m.clk)
          /\ checkingHold' = [checkingHold EXCEPT ![p] = FALSE]
          /\ UNCHANGED <<commitsOnHold, db, stableClk, logChan, pendingOps, commitChan>>
    /\ UNCHANGED <<now, lastUsedTs, prepClks, channels, replyChan, readChan>>

-----------------------------------------------------------------------------
(* The other handlers *)

HandleMatStaticWrite(p) ==
    /\ Takes(p, "staticWrite")
    /\ \E time \in now .. MaxTime : PrepareClock(p, Head(channels[p]).txn, time)
    /\ pendingOps' = [pendingOps EXCEPT ![p] = @ \cup {Head(channels[p]).txn}]
    /\ UNCHANGED <<stableClk, commitsOnHold, checkingHold, db, logChan, readChan, commitChan>>

HandleMatWrite(p) ==
    /\ Takes(p, "write")
    /\ pendingOps' = [pendingOps EXCEPT ![p] = @ \cup {Head(channels[p]).txn}]
    /\ UNCHANGED <<now, stableClk, lastUsedTs, prepClks, commitsOnHold, checkingHold, db,
                   logChan, replyChan, readChan, commitChan>>

HandleMatPrepare(p) ==
    /\ Takes(p, "prepare")
    /\ \E time \in now .. MaxTime : PrepareClock(p, Head(channels[p]).txn, time)
    /\ UNCHANGED <<stableClk, pendingOps, commitsOnHold, checkingHold, db, logChan,
                   readChan, commitChan>>

HandleMatAbort(p) ==
    /\ Takes(p, "abort")
    /\ pendingOps' = [pendingOps EXCEPT ![p] = @ \ {Head(channels[p]).txn}]
    /\ UNCHANGED <<now, stableClk, lastUsedTs, prepClks, commitsOnHold, checkingHold, db,
                   logChan, replyChan, readChan, commitChan>>

\* Mutant of HandleMatRead: the transaction's own pending updates are left out.
HandleMatReadCommitted(p) ==
    /\ Takes(p, "read")
    /\ LET t == Head(channels[p]).txn
       IN  readChan' = [readChan EXCEPT ![t] = @ \cup {[part |-> p, seen |-> db[p]]}]
    /\ UNCHANGED <<partVars, replyChan, commitChan>>

\* handleMatRead and handleMatStaticRead.  With IsVMDisabled set, as it is in the
\* repository, ReadOld is ReadLatest, so canReadLatest makes no difference: the
\* reply is the current state with the transaction's own pending updates.
HandleMatRead(p) ==
    /\ Takes(p, "read")
    /\ LET t == Head(channels[p]).txn
       IN  readChan' = [readChan EXCEPT ![t] = @ \cup
                          {[part |-> p, seen |-> db[p] \cup ({t} \cap pendingOps[p])]}]
    /\ UNCHANGED <<partVars, replyChan, commitChan>>

\* The reply carries the partition's own clock instead of taking one.
HandleMatStaticSingleRead(p) ==
    /\ Takes(p, "singleRead")
    /\ LET t == Head(channels[p]).txn
       IN  /\ readChan' = [readChan EXCEPT ![t] = {[part |-> p, seen |-> db[p]]}]
           /\ replyChan' = [replyChan EXCEPT ![t] = Append(@, stableClk[p])]
    /\ UNCHANGED <<partVars, commitChan>>

\* Mutant of HandleMatSafeClk: the prepared transactions are not looked at.
HandleMatNextClk(p) ==
    /\ Takes(p, "safeClk")
    /\ \E time \in now .. MaxTime :
          /\ now' = time
          /\ logChan' = [logChan EXCEPT ![p] = Append(@,
                Request("clk", NoTxn, NextTimestamp(stableClk[p], Self, time)))]
    /\ UNCHANGED <<stableClk, lastUsedTs, prepClks, pendingOps, commitsOnHold, checkingHold,
                   db, replyChan, readChan, commitChan>>

\* handleMatSafeClk: tells the logger up to which clock its log is complete.  The
\* clock is not recorded in lastUsedTs.
HandleMatSafeClk(p) ==
    /\ Takes(p, "safeClk")
    /\ \/ /\ prepClks[p] = {}
          /\ \E time \in now .. MaxTime :
                /\ now' = time
                /\ logChan' = [logChan EXCEPT ![p] = Append(@,
                      Request("clk", NoTxn, NextTimestamp(stableClk[p], Self, time)))]
       \/ /\ \E m \in HeapRoots(prepClks[p]) :
                logChan' = [logChan EXCEPT ![p] = Append(@,
                      Request("clk", NoTxn, UpdateForcedPos(m.clk, Self, m.clk[Self] - 1)))]
          /\ UNCHANGED now
    /\ UNCHANGED <<stableClk, lastUsedTs, prepClks, pendingOps, commitsOnHold, checkingHold,
                   db, replyChan, readChan, commitChan>>

\* handleRequest
PartitionStep(p) ==
    \/ HandleMatStaticWrite(p)
    \/ HandleMatWrite(p)
    \/ HandleMatPrepare(p)
    \/ HandleMatCommit(p)
    \/ CheckHoldCommits(p)
    \/ HandleMatAbort(p)
    \/ HandleMatRead(p)
    \/ HandleMatStaticSingleRead(p)
    \/ HandleMatSafeClk(p)

=============================================================================
