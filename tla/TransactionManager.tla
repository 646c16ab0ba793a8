-------------------------- MODULE TransactionManager --------------------------
(***************************************************************************)
(* The transaction manager of one PotionDB server                          *)
(* (components/transactionManager.go) over the partitions of Materializer, *)
(* in single server mode: no transaction arrives from another replica.     *)
(*                                                                         *)
(* Every client connection has a goroutine that runs its transactions (the *)
(* actions with a parameter t) and one goroutine, handleCommitReplies,     *)
(* advances the server's clock.  They share localClock, which a mutex      *)
(* protects, and the FIFO channels.  Updates commit in two phases: each    *)
(* involved partition proposes a clock, the highest one is the commit      *)
(* timestamp and is sent back to the partitions.                           *)
(***************************************************************************)
EXTENDS Materializer

CONSTANTS
    StaticUpdaters,   \* transactions that are one static update
    Interactive,      \* transactions with start, reads, updates and commit or abort
    StaticReaders,    \* transactions that are one static read
    FastSingleRead,   \* FAST_SINGLE_READ: static reads of one object take no clock
    MaxObjects,       \* bound: objects a request reads or updates
    MaxOps,           \* bound: reads and updates of an interactive transaction
    MaxSafeClk        \* bound: requests of the loggers for the safe clock

ASSUME ManagerConstants ==
    /\ Txns = StaticUpdaters \cup Interactive \cup StaticReaders
    /\ StaticUpdaters \cap Interactive = {}
    /\ StaticReaders \cap (StaticUpdaters \cup Interactive) = {}
    /\ FastSingleRead \in BOOLEAN
    /\ MaxObjects \in Nat /\ MaxOps \in Nat /\ MaxSafeClk \in Nat

VARIABLES
    pc,          \* what the goroutine of each transaction is doing
    parts,       \* the partitions a transaction writes (ongoingTxn.partitions)
    toSend,      \* the partitions the current loop over them has yet to send to
    reading,     \* the partitions of the current read
    nOps,        \* reads and updates requested so far
    nReplies,    \* prepare replies received so far
    maxTs,       \* maxTimestamp, the commit timestamp once all have replied
    after,       \* the transaction whose timestamp the client sent with its first request
    txnClk,      \* the clock the transaction reads at
    localClock,  \* TransactionManager.localClock
    crPc,        \* where handleCommitReplies is
    tracked,     \* the keys of txnToClk and of txnWaitFor
    txnToClk,
    txnWaitFor,
    waitingTMs,  \* waitingTMs.entries: the requests that wait for a clock
    notifyClk,   \* copyClk, the clock the waiting requests are compared with
    stackedClk,  \* stackedClk, nil when nStacked is 0
    nStacked,
    nSafeClk     \* safe clock requests so far

txnVars  == <<pc, parts, toSend, reading, nOps, nReplies, maxTs, after, txnClk>>
crVars   == <<crPc, tracked, txnToClk, txnWaitFor, waitingTMs, notifyClk, stackedClk, nStacked>>
vars     == <<partVars, chanVars, txnVars, localClock, crVars, nSafeClk>>

\* "wait" is about to send a TMWaitClock, "blocked" waits for its answer
Phases == {"idle", "wait", "blocked", "active", "write", "read", "single", "prepare",
           "commit", "abort", "done", "aborted", "lost"}

WaitClock == [txn: Txns, clk: Clock]

\* Every variable has its type.
TypeOK ==
    /\ MatTypeOK
    /\ pc \in [Txns -> Phases]
    /\ parts \in [Txns -> SUBSET Partitions]
    /\ toSend \in [Txns -> SUBSET Partitions]
    /\ reading \in [Txns -> SUBSET Partitions]
    /\ nOps \in [Txns -> Nat]
    /\ nReplies \in [Txns -> Nat]
    /\ maxTs \in [Txns -> Clock]
    /\ after \in [Txns -> Txns \cup {NoTxn}]
    /\ txnClk \in [Txns -> Clock]
    /\ localClock \in Clock
    /\ crPc \in {"recv", "notify", "flush", "notifyFlushed"}
    /\ tracked \subseteq Txns
    /\ txnToClk \in [Txns -> Clock]
    /\ txnWaitFor \in [Txns -> Int]
    /\ waitingTMs \in Seq(WaitClock)
    /\ notifyClk \in Clock
    /\ stackedClk \in Clock
    /\ nStacked \in Nat
    /\ nSafeClk \in Nat

Init ==
    /\ MatInit
    /\ pc = [t \in Txns |-> "idle"]
    /\ parts = [t \in Txns |-> {}]
    /\ toSend = [t \in Txns |-> {}]
    /\ reading = [t \in Txns |-> {}]
    /\ nOps = [t \in Txns |-> 0]
    /\ nReplies = [t \in Txns |-> 0]
    /\ maxTs = [t \in Txns |-> NewTimestamp]
    /\ after = [t \in Txns |-> NoTxn]
    /\ txnClk = [t \in Txns |-> NewTimestamp]
    /\ localClock = NewTimestamp
    /\ crPc = "recv"
    /\ tracked = {}
    /\ txnToClk = [t \in Txns |-> NewTimestamp]
    /\ txnWaitFor = [t \in Txns |-> 0]
    /\ waitingTMs = <<>>
    /\ notifyClk = NewTimestamp
    /\ stackedClk = NewTimestamp
    /\ nStacked = 0
    /\ nSafeClk = 0

\* groupWrites: the partitions of the objects of a request
Targets == {P \in SUBSET Partitions : P # {} /\ Cardinality(P) <= MaxObjects}

-----------------------------------------------------------------------------
(* The clock a transaction reads at *)

\* A client sends no timestamp, or the one of an earlier reply: the commit
\* timestamp of a finished update or the clock of a finished read.
ReplyTs(u) == IF u = NoTxn THEN NewTimestamp
              ELSE IF u \in StaticReaders THEN txnClk[u] ELSE maxTs[u]

\* getClockToUse: the transaction goes on at once if the server's clock includes
\* the client's; it reads localClock and later sends TMWaitClock.
GetClockToUse(t, client) ==
    LET tsToUse == Merge(localClock, client)
    IN  /\ txnClk' = [txnClk EXCEPT ![t] = tsToUse]
        /\ pc' = [pc EXCEPT ![t] = IF IsEqual(tsToUse, localClock) THEN "active" ELSE "wait"]

\* handleTMStartTxn and the first half of handleStaticTMRead
StartTxn(t) ==
    /\ t \in Interactive \cup StaticReaders
    /\ pc[t] = "idle"
    /\ \E u \in {NoTxn} \cup {v \in Txns : pc[v] = "done"} :
          /\ after' = [after EXCEPT ![t] = u]
          /\ GetClockToUse(t, ReplyTs(u))
    /\ UNCHANGED <<partVars, chanVars, parts, toSend, reading, nOps, nReplies, maxTs,
                   localClock, crVars, nSafeClk>>

SendWaitClock(t) ==
    /\ pc[t] = "wait"
    /\ commitChan' = Append(commitChan, [type |-> "wait", txn |-> t, n |-> 0, clk |-> txnClk[t]])
    /\ pc' = [pc EXCEPT ![t] = "blocked"]
    /\ UNCHANGED <<partVars, channels, replyChan, readChan, parts, toSend, reading, nOps,
                   nReplies, maxTs, after, txnClk, localClock, crVars, nSafeClk>>

-----------------------------------------------------------------------------
(* Reads *)

\* handleTMRead, and handleStaticTMRead after it has its clock
Read(t) ==
    /\ pc[t] = "active"
    /\ nOps[t] < MaxOps
    /\ \E P \in Targets :
          /\ toSend' = [toSend EXCEPT ![t] = P]
          /\ reading' = [reading EXCEPT ![t] = P]
    /\ readChan' = [readChan EXCEPT ![t] = {}]
    /\ nOps' = [nOps EXCEPT ![t] = @ + 1]
    /\ pc' = [pc EXCEPT ![t] = "read"]
    /\ UNCHANGED <<partVars, channels, replyChan, commitChan, parts, nReplies, maxTs, after,
                   txnClk, localClock, crVars, nSafeClk>>

\* The keys of a read, and so the partitions, come in the order of the client.
SendRead(t, p) ==
    /\ pc[t] = "read"
    /\ p \in toSend[t]
    /\ SendRequest(p, Request("read", t, txnClk[t]))
    /\ toSend' = [toSend EXCEPT ![t] = @ \ {p}]
    /\ UNCHANGED <<partVars, replyChan, readChan, commitChan, pc, parts, reading, nOps, nReplies,
                   maxTs, after, txnClk, localClock, crVars, nSafeClk>>

EndRead(t) ==
    /\ pc[t] = "read"
    /\ toSend[t] = {}
    /\ {r.part : r \in readChan[t]} = reading[t]
    /\ pc' = [pc EXCEPT ![t] = IF t \in StaticReaders THEN "done" ELSE "active"]
    /\ UNCHANGED <<partVars, chanVars, parts, toSend, reading, nOps, nReplies, maxTs, after,
                   txnClk, localClock, crVars, nSafeClk>>

\* handleSingleRead
SingleRead(t) ==
    /\ FastSingleRead
    /\ t \in StaticReaders
    /\ pc[t] = "idle"
    /\ \E p \in Partitions : SendRequest(p, Request("singleRead", t, NewTimestamp))
    /\ pc' = [pc EXCEPT ![t] = "single"]
    /\ UNCHANGED <<partVars, replyChan, readChan, commitChan, parts, toSend, reading, nOps,
                   nReplies, maxTs, after, txnClk, localClock, crVars, nSafeClk>>

EndSingleRead(t) ==
    /\ pc[t] = "single"
    /\ replyChan[t] # <<>>
    /\ txnClk' = [txnClk EXCEPT ![t] = Head(replyChan[t])]
    /\ replyChan' = [replyChan EXCEPT ![t] = Tail(@)]
    /\ pc' = [pc EXCEPT ![t] = "done"]
    /\ UNCHANGED <<partVars, channels, readChan, commitChan, parts, toSend, reading, nOps,
                   nReplies, maxTs, after, localClock, crVars, nSafeClk>>

-----------------------------------------------------------------------------
(* Updates *)

\* handleTMUpdate: the updates go to the partitions of their keys.
Update(t) ==
    /\ t \in Interactive
    /\ pc[t] = "active"
    /\ nOps[t] < MaxOps
    /\ \E P \in Targets :
          /\ parts' = [parts EXCEPT ![t] = @ \cup P]
          /\ toSend' = [toSend EXCEPT ![t] = P]
    /\ nOps' = [nOps EXCEPT ![t] = @ + 1]
    /\ pc' = [pc EXCEPT ![t] = "write"]
    /\ UNCHANGED <<partVars, chanVars, reading, nReplies, maxTs, after, txnClk, localClock,
                   crVars, nSafeClk>>

\* handleStaticTMUpdate
StaticUpdate(t) ==
    /\ t \in StaticUpdaters
    /\ pc[t] = "idle"
    /\ \E P \in Targets :
          /\ parts' = [parts EXCEPT ![t] = P]
          /\ toSend' = [toSend EXCEPT ![t] = P]
    /\ pc' = [pc EXCEPT ![t] = "prepare"]
    /\ UNCHANGED <<partVars, chanVars, reading, nOps, nReplies, maxTs, after, txnClk,
                   localClock, crVars, nSafeClk>>

\* handleTMCommit.  A transaction that wrote nothing involves no partition.
Commit(t) ==
    /\ t \in Interactive
    /\ pc[t] = "active"
    /\ toSend' = [toSend EXCEPT ![t] = parts[t]]
    /\ pc' = [pc EXCEPT ![t] = "prepare"]
    /\ UNCHANGED <<partVars, chanVars, parts, reading, nOps, nReplies, maxTs, after, txnClk,
                   localClock, crVars, nSafeClk>>

\* Mutant of Abort: the partitions are not told.
AbortSilently(t) ==
    /\ t \in Interactive
    /\ pc[t] = "active"
    /\ pc' = [pc EXCEPT ![t] = "aborted"]
    /\ UNCHANGED <<partVars, chanVars, parts, toSend, reading, nOps, nReplies, maxTs, after,
                   txnClk, localClock, crVars, nSafeClk>>

\* handleTMAbort
Abort(t) ==
    /\ t \in Interactive
    /\ pc[t] = "active"
    /\ toSend' = [toSend EXCEPT ![t] = parts[t]]
    /\ pc' = [pc EXCEPT ![t] = IF parts[t] = {} THEN "aborted" ELSE "abort"]
    /\ UNCHANGED <<partVars, chanVars, parts, reading, nOps, nReplies, maxTs, after, txnClk,
                   localClock, crVars, nSafeClk>>

\* lostConnRequest: the goroutine ends and tells the partitions nothing.
LostConn(t) ==
    /\ t \in Interactive
    /\ pc[t] = "active"
    /\ pc' = [pc EXCEPT ![t] = "lost"]
    /\ UNCHANGED <<partVars, chanVars, parts, toSend, reading, nOps, nReplies, maxTs, after,
                   txnClk, localClock, crVars, nSafeClk>>

\* What each loop over the involved partitions sends, and what follows it.
LoopRequest(t) ==
    CASE pc[t] = "write"   -> Request("write", t, NewTimestamp)
      [] pc[t] = "prepare" -> Request(IF t \in StaticUpdaters THEN "staticWrite" ELSE "prepare",
                                      t, NewTimestamp)
      [] pc[t] = "commit"  -> Request("commit", t, maxTs[t])
      [] pc[t] = "abort"   -> Request("abort", t, NewTimestamp)

AfterLoop(t) ==
    CASE pc[t] = "write"   -> "active"
      [] pc[t] = "prepare" -> "prepare"
      [] pc[t] = "commit"  -> "done"
      [] pc[t] = "abort"   -> "aborted"

\* One iteration of a loop, which goes through the partitions in order.
SendToPartition(t, p) ==
    /\ pc[t] \in {"write", "prepare", "commit", "abort"}
    /\ p \in toSend[t]
    /\ \A q \in toSend[t] : p <= q
    /\ SendRequest(p, LoopRequest(t))
    /\ toSend' = [toSend EXCEPT ![t] = @ \ {p}]
    /\ pc' = [pc EXCEPT ![t] = IF toSend[t] = {p} THEN AfterLoop(t) ELSE @]
    /\ UNCHANGED <<partVars, replyChan, readChan, commitChan, parts, reading, nOps, nReplies,
                   maxTs, after, txnClk, localClock, crVars, nSafeClk>>

\* The clock kept while the prepare replies come in
MaxTimestamp(max, reply) == IF IsHigherOrEqual(reply, max) THEN reply ELSE max

ReceivePrepareReply(t) ==
    /\ pc[t] = "prepare"
    /\ toSend[t] = {}
    /\ replyChan[t] # <<>>
    /\ maxTs' = [maxTs EXCEPT ![t] = MaxTimestamp(@, Head(replyChan[t]))]
    /\ replyChan' = [replyChan EXCEPT ![t] = Tail(@)]
    /\ nReplies' = [nReplies EXCEPT ![t] = @ + 1]
    /\ UNCHANGED <<partVars, channels, readChan, commitChan, pc, parts, toSend, reading, nOps,
                   after, txnClk, localClock, crVars, nSafeClk>>

\* Mutants of NPartitionsInfo: one partition too few; all the partitions.
NPartitionsInfoShort(t) == [type |-> "nPartitions", txn |-> t, n |-> nReplies[t] - 1,
                            clk |-> maxTs[t]]
NPartitionsInfoAll(t) == [type |-> "nPartitions", txn |-> t, n |-> NParts, clk |-> maxTs[t]]

\* TMCommitNPartitions
NPartitionsInfo(t) == [type |-> "nPartitions", txn |-> t, n |-> nReplies[t], clk |-> maxTs[t]]

\* All have replied: handleCommitReplies is told how many partitions will commit.
NotifyCommit(t) ==
    /\ pc[t] = "prepare"
    /\ toSend[t] = {}
    /\ nReplies[t] = Cardinality(parts[t])
    /\ commitChan' = Append(commitChan, NPartitionsInfo(t))
    /\ toSend' = [toSend EXCEPT ![t] = parts[t]]
    /\ pc' = [pc EXCEPT ![t] = IF parts[t] = {} THEN "done" ELSE "commit"]
    /\ UNCHANGED <<partVars, channels, replyChan, readChan, parts, reading, nOps, nReplies,
                   maxTs, after, txnClk, localClock, crVars, nSafeClk>>

-----------------------------------------------------------------------------
(* handleCommitReplies: the goroutine that advances localClock *)

StackLimit == 10

\* ClockHeap.  Its Less compares an entry with itself and is always true, so
\* container/heap moves a pushed entry up to the root, and sifts the entry that
\* replaces a popped root down along the right children.  The slots on the way:
\* the least set that holds the last slot of n and, with a slot, its parent ...
PathToRoot(n) ==
    {i \in 1 .. n : \A S \in SUBSET (1 .. n) :
                       n \in S /\ (\A j \in S \ {1} : j \div 2 \in S) => i \in S}

HeapPush(heap, entry) ==
    LET n == Len(heap) + 1
    IN  [i \in 1 .. n |-> IF i = 1 THEN entry
                          ELSE IF i \in PathToRoot(n) THEN heap[i \div 2] ELSE heap[i]]

ChildTaken(i, n) == IF 2 * i + 1 <= n THEN 2 * i + 1 ELSE 2 * i

\* ... and the least set that holds the root and, with a slot, the child taken.
SiftPath(n) ==
    {i \in 1 .. n : \A S \in SUBSET (1 .. n) :
                       1 \in S /\ (\A j \in S : ChildTaken(j, n) <= n => ChildTaken(j, n) \in S)
                       => i \in S}

\* Mutant of HeapPop: the last slot is emptied but nEntries is not decremented.
HeapPopKeepingSlot(heap) ==
    [i \in 1 .. Len(heap) |-> IF i < Len(heap) THEN heap[i + 1]
                              ELSE [txn |-> NoTxn, clk |-> NewTimestamp]]

HeapPop(heap) ==
    LET n == Len(heap) - 1
    IN  [i \in 1 .. n |-> IF i \notin SiftPath(n) THEN heap[i]
                          ELSE IF ChildTaken(i, n) <= n THEN heap[ChildTaken(i, n)]
                          ELSE heap[n + 1]]

TakesInfo(type) ==
    /\ crPc = "recv"
    /\ commitChan # <<>>
    /\ Head(commitChan).type = type
    /\ commitChan' = Tail(commitChan)

\* After a message: stacked clocks may have to be flushed.
NextCr(stacked) == IF stacked > 0 THEN "flush" ELSE "recv"

HandleCommitNPartitions ==
    /\ TakesInfo("nPartitions")
    /\ LET m == Head(commitChan)
       IN  /\ tracked' = tracked \cup {m.txn}
           /\ txnToClk' = [txnToClk EXCEPT ![m.txn] = m.clk]
           /\ txnWaitFor' = [txnWaitFor EXCEPT ![m.txn] = m.n]
    /\ crPc' = NextCr(nStacked)
    /\ UNCHANGED <<partVars, channels, replyChan, readChan, txnVars, localClock, waitingTMs,
                   notifyClk, stackedClk, nStacked, nSafeClk>>

\* Mutant of AdvanceLocalClock: the clock is copied, not merged.
OverwriteLocalClock(clk, notify, otherwise) ==
    /\ localClock' = clk
    /\ IF waitingTMs = <<>>
       THEN crPc' = otherwise /\ UNCHANGED notifyClk
       ELSE crPc' = notify /\ notifyClk' = localClock'

\* MergeInto(clk), then the waiting requests are compared with a copy of localClock.
AdvanceLocalClock(clk, notify, otherwise) ==
    /\ localClock' = Merge(localClock, clk)
    /\ IF waitingTMs = <<>>
       THEN crPc' = otherwise /\ UNCHANGED notifyClk
       ELSE crPc' = notify /\ notifyClk' = localClock'

\* The last partition to reply completes the transaction.  Its clock is merged at
\* once or, when more messages wait, stacked with others to be merged later.
HandlePartCommitReply ==
    /\ TakesInfo("partReply")
    /\ LET t == Head(commitChan).txn
       IN  /\ t \in tracked
           /\ txnWaitFor' = [txnWaitFor EXCEPT ![t] = @ - 1]
           /\ \/ /\ txnWaitFor[t] # 1
                 /\ crPc' = NextCr(nStacked)
                 /\ UNCHANGED <<tracked, localClock, notifyClk, stackedClk, nStacked>>
              \/ /\ txnWaitFor[t] = 1
                 /\ Len(commitChan) - 1 > 2 * NParts
                 /\ tracked' = tracked \ {t}
                 /\ stackedClk' = IF nStacked = 0 THEN txnToClk[t]
                                  ELSE Merge(stackedClk, txnToClk[t])
                 /\ nStacked' = nStacked + 1
                 /\ crPc' = "flush"
                 /\ UNCHANGED <<localClock, notifyClk>>
              \/ /\ txnWaitFor[t] = 1
                 /\ Len(commitChan) - 1 <= 2 * NParts
                 /\ tracked' = tracked \ {t}
                 /\ AdvanceLocalClock(txnToClk[t], "notify", NextCr(nStacked))
                 /\ UNCHANGED <<stackedClk, nStacked>>
    /\ UNCHANGED <<partVars, channels, replyChan, readChan, txnVars, txnToClk, waitingTMs,
                   nSafeClk>>

HandleWaitClock ==
    /\ TakesInfo("wait")
    /\ waitingTMs' = HeapPush(waitingTMs, [txn |-> Head(commitChan).txn,
                                           clk |-> Head(commitChan).clk])
    /\ crPc' = NextCr(nStacked)
    /\ UNCHANGED <<partVars, channels, replyChan, readChan, txnVars, localClock, tracked,
                   txnToClk, txnWaitFor, notifyClk, stackedClk, nStacked, nSafeClk>>

FirstIsReady == waitingTMs # <<>> /\ IsLowerOrEqual(waitingTMs[1].clk, notifyClk)

\* One iteration of the loop that answers the waiting requests.
NotifyWaiting ==
    /\ crPc \in {"notify", "notifyFlushed"}
    /\ \/ /\ FirstIsReady
          /\ waitingTMs' = HeapPop(waitingTMs)
          /\ txnClk' = [txnClk EXCEPT ![waitingTMs[1].txn] = notifyClk]
          /\ pc' = [pc EXCEPT ![waitingTMs[1].txn] = "active"]
          /\ UNCHANGED crPc
       \/ /\ ~FirstIsReady
          /\ crPc' = IF crPc = "notify" THEN NextCr(nStacked) ELSE "recv"
          /\ UNCHANGED <<waitingTMs, txnClk, pc>>
    /\ UNCHANGED <<partVars, chanVars, parts, toSend, reading, nOps, nReplies, maxTs, after,
                   localClock, tracked, txnToClk, txnWaitFor, notifyClk, stackedClk, nStacked,
                   nSafeClk>>

\* When the stacked clocks are merged into localClock
MustFlush == nStacked > StackLimit \/ Len(commitChan) < NParts \div 2

FlushStacked ==
    /\ crPc = "flush"
    /\ \/ /\ MustFlush
          /\ AdvanceLocalClock(stackedClk, "notifyFlushed", "recv")
          /\ nStacked' = 0
       \/ /\ ~MustFlush
          /\ crPc' = "recv"
          /\ UNCHANGED <<localClock, notifyClk, nStacked>>
    /\ UNCHANGED <<partVars, chanVars, txnVars, tracked, txnToClk, txnWaitFor, waitingTMs,
                   stackedClk, nSafeClk>>

-----------------------------------------------------------------------------
(* handleTxnLogRequest of p's logger asks for the safe clock. *)
RequestSafeClk(p) ==
    /\ nSafeClk < MaxSafeClk
    /\ nSafeClk' = nSafeClk + 1
    /\ SendRequest(p, Request("safeClk", NoTxn, NewTimestamp))
    /\ UNCHANGED <<partVars, replyChan, readChan, commitChan, txnVars, localClock, crVars>>

Partition(p) == PartitionStep(p) /\ UNCHANGED <<txnVars, localClock, crVars, nSafeClk>>

\* What the goroutine of a transaction does by itself, without the client
TxnStep(t) ==
    \/ SendWaitClock(t)
    \/ \E p \in Partitions : SendRead(t, p) \/ SendToPartition(t, p)
    \/ EndRead(t)
    \/ EndSingleRead(t)
    \/ ReceivePrepareReply(t)
    \/ NotifyCommit(t)

\* The requests of the clients
ClientStep(t) ==
    \/ StartTxn(t) \/ SingleRead(t) \/ StaticUpdate(t)
    \/ Read(t) \/ Update(t) \/ Commit(t) \/ Abort(t) \/ LostConn(t)

CommitReplies ==
    \/ HandleCommitNPartitions \/ HandlePartCommitReply \/ HandleWaitClock
    \/ NotifyWaiting \/ FlushStacked

Next ==
    \/ \E p \in Partitions : Partition(p) \/ RequestSafeClk(p)
    \/ \E t \in Txns : TxnStep(t) \/ ClientStep(t)
    \/ CommitReplies

Spec == Init /\ [][Next]_vars

\* The Go scheduler runs every goroutine that can proceed; nothing makes a client
\* send a request, except that it reads or ends what it has started.
Fairness ==
    /\ \A p \in Partitions : WF_vars(Partition(p))
    /\ \A t \in Txns : WF_vars(TxnStep(t))
    /\ WF_vars(CommitReplies)

FairSpec == Spec /\ Fairness


-----------------------------------------------------------------------------
(* Properties *)

\* Messages about t that a channel still holds
Waiting(p, t) == {i \in 1 .. Len(channels[p]) : channels[p][i].txn = t}
InCommitChan(type, t) ==
    \E i \in 1 .. Len(commitChan) : commitChan[i].type = type /\ commitChan[i].txn = t

IsPrepared(p, t) == \E e \in prepClks[p] : e.txn = t
IsHeld(p, t) == \E h \in commitsOnHold[p] : h.txn = t

\* The clocks a partition has prepared are totally ordered whatever the wall clock
\* returns and whichever commits and aborts happen in between: the reply of
\* handleMatPrepare (PeekMax, the last slot of the heap) is the clock just prepared,
\* and the lowest prepare that commits are compared with is unique.
PreparesAreOrdered ==
    \A p \in Partitions : \A e, f \in prepClks[p] :
        e # f => IsLower(e.clk, f.clk) \/ IsLower(f.clk, e.clk)

\* A commit reaches a partition that has prepared the transaction and still has its
\* updates.  Otherwise removePrepare would take the prepare of another transaction
\* out of the heap (innerMap gives 0 for an unknown id) and applyCommit would apply
\* nothing.
CommitFindsPrepare ==
    \A p \in Partitions : \A i \in 1 .. Len(channels[p]) :
        channels[p][i].type = "commit" =>
            /\ IsPrepared(p, channels[p][i].txn)
            /\ channels[p][i].txn \in pendingOps[p]

\* No commit is stranded: a partition that is done with a request only holds commits
\* that some prepared transaction is below.  The commit of that transaction will call
\* checkHoldCommits; nothing else would.
HeldBehindPrepare ==
    \A p \in Partitions : ~checkingHold[p] =>
        \A h \in commitsOnHold[p] : \E e \in prepClks[p] : IsLower(e.clk, h.clk)

\* Each partition logs, and so applies, commits in the order of their timestamps,
\* although the coordinators choose timestamps and deliver commits in any order.
LogInCommitOrder ==
    \A p \in Partitions : \A i, j \in 1 .. Len(logChan[p]) :
        i < j /\ logChan[p][i].type = "commit" /\ logChan[p][j].type = "commit" =>
            IsLowerOrEqual(logChan[p][i].clk, logChan[p][j].clk)

\* "no commit will be < than minimum prepare" (handleMatSafeClk): after a partition
\* has announced a clock to its logger it logs no commit below it, so the replicator
\* may ship everything up to that clock.
SafeClkIsSafe ==
    \A p \in Partitions : \A i, j \in 1 .. Len(logChan[p]) :
        i < j /\ logChan[p][i].type = "clk" /\ logChan[p][j].type = "commit" =>
            IsLowerOrEqual(logChan[p][i].clk, logChan[p][j].clk)

\* handleCommitReplies has received the number of partitions of a transaction before
\* any of them confirms its commit (txnWaitFor would give a nil pointer otherwise).
ReplyIsTracked ==
    \A j \in 1 .. Len(commitChan) : commitChan[j].type = "partReply" =>
        \/ commitChan[j].txn \in tracked
        \/ \E i \in 1 .. (j - 1) : /\ commitChan[i].type = "nPartitions"
                                   /\ commitChan[i].txn = commitChan[j].txn

\* The server's clock advances for a transaction only when all the partitions it
\* involves have applied it: a transaction that handleCommitReplies has counted down
\* is in the database of each.
CompletedIsApplied ==
    \A t \in Txns :
        pc[t] \in {"commit", "done"} /\ t \notin tracked /\ ~InCommitChan("nPartitions", t) =>
            \A p \in parts[t] : t \in db[p]

\* A transaction that has ended, by an abort or by a commit all its partitions have
\* confirmed, leaves no pending update, no prepare (which would hold back all later
\* commits of the partition) and no held commit behind.
NothingLeftBehind ==
    \A p \in Partitions, t \in Txns :
        /\ Waiting(p, t) = {}
        /\ \/ pc[t] = "aborted"
           \/ pc[t] = "done" /\ t \notin tracked /\ ~InCommitChan("nPartitions", t)
        => t \notin pendingOps[p] /\ ~IsPrepared(p, t) /\ ~IsHeld(p, t)

\* A static read of one object returns a snapshot of its partition at the clock it
\* replies: it has seen no transaction above that clock and every committed one below
\* it, although handleMatStaticSingleRead takes no part in the commit protocol.
SingleReadIsSnapshot ==
    \A t \in StaticReaders : \A r \in readChan[t] :
        pc[t] = "done" /\ reading[t] = {} =>
            \A u \in Txns : r.part \in parts[u] =>
                /\ u \in r.seen => IsLowerOrEqual(maxTs[u], txnClk[t])
                /\ pc[u] \in {"commit", "done"} /\ IsLower(maxTs[u], txnClk[t]) => u \in r.seen

\* A transaction reads its own updates, which wait in pendingOps until it commits.
ReadsOwnUpdates ==
    \A t \in Interactive : pc[t] = "read" =>
        \A r \in readChan[t] : r.part \in parts[t] => t \in r.seen

\* A read whose client sent the commit timestamp of u sees u (read your writes):
\* canReadLatest assumes that the TM's clock reaches a timestamp only after all the
\* partitions have.
ReadYourWrites ==
    \A t \in Txns : \A r \in readChan[t] :
        after[t] # NoTxn /\ r.part \in parts[after[t]] => after[t] \in r.seen

\* handleCommitReplies loses no completed transaction: its clock is in localClock or
\* in the stacked clock that waits to be merged.
CompletedIsInClock ==
    \A t \in Txns :
        (pc[t] \in {"commit", "done"} /\ t \notin tracked /\ ~InCommitChan("nPartitions", t)) =>
            \/ IsLowerOrEqual(maxTs[t], localClock)
            \/ nStacked > 0 /\ IsLowerOrEqual(maxTs[t], stackedClk)

\* No clock goes back: the one the clients read at, the one the commits of a partition
\* have reached and the last one a partition has proposed.
ClocksStep ==
    /\ IsLowerOrEqual(localClock, localClock')
    /\ \A p \in Partitions : /\ IsLowerOrEqual(stableClk[p], stableClk'[p])
                              /\ lastUsedTs[p] <= lastUsedTs'[p]

\* ClocksStep holds of every step, although handleCommitReplies merges the commits in the
\* order they complete and a partition in the order it applies them.
ClocksAdvance == [][ClocksStep]_vars

\* What PartitionLog sees of a transaction: it is decided when handleCommitReplies is
\* told, and its partitions log it unless it has no effect.
IsDecided(t) == t \notin NoEffect /\ pc[t] \in {"commit", "done"}
LogInvolved == [t \in Txns |-> IF IsDecided(t) THEN parts[t] ELSE {}]
LogCommitTs == [t \in Txns |-> IF IsDecided(t) THEN maxTs[t] ELSE NewTimestamp]

\* A transaction that has begun to prepare is applied by all its partitions: no
\* prepare, held commit or lost notification keeps it waiting for ever.
CommitCompletes ==
    \A t \in Txns : (pc[t] = "prepare") ~> (\A p \in parts[t] : t \in db[p])

\* After a commit the server's clock reaches the commit timestamp ("to make sure
\* clients have access to recent clocks", handleCommitReplies).
ClockCatchesUp ==
    \A t \in Txns : (pc[t] = "done") ~> IsHigherOrEqual(localClock, maxTs[t])

\* A request that waits for a clock the server has reached is answered ("Replies with
\* the actual clock of TM", TMWaitClock).
WaitersAnswered ==
    \A t \in Txns :
        (pc[t] = "blocked" /\ IsHigherOrEqual(localClock, txnClk[t])) ~> (pc[t] # "blocked")

=============================================================================
