------------------------------- MODULE LogShip -------------------------------
(***************************************************************************)
(* The loggers (components/logger.go), one goroutine per partition, and    *)
(* the sending half of the replicator (components/replicator.go), over     *)
(* partitions that keep the promise of PartitionLog.                       *)
(*                                                                         *)
(* In every cycle the replicator asks each logger for its new              *)
(* transactions.  The logger asks its partition for a safe clock and       *)
(* answers when it has one, or with the clock of its last transaction when *)
(* the partition takes too long.  The replicator merges the logs by clock, *)
(* stops at the lowest stable clock and sends what is below it.            *)
(***************************************************************************)
EXTENDS PartitionLog

CONSTANTS
    Self,             \* replicaID
    KeepWholeLog,     \* keepWholeLog: FALSE in the repository
    MinTxnsToGroup,   \* minTxnsToGroup
    MaxTxnsPerGroup,  \* maxTxnsPerGroup
    MaxCycles,        \* bound: cycles of the replicator
    MaxTimeouts       \* bound: timers that fire

ASSUME LogShipConstants ==
    /\ Self \in Replicas
    /\ KeepWholeLog \in BOOLEAN
    /\ MinTxnsToGroup \in Nat \ {0} /\ MaxTxnsPerGroup \in Nat \ {0}
    /\ MaxCycles \in Nat /\ MaxTimeouts \in Nat

VARIABLES
    inbox,          \* MemLogger.logChan: the requests that wait at each logger
    safeReqs,       \* requests for the safe clock on their way to the partition
    log,            \* MemLogger.log: the slots of the array written so far
    lastSharedPos,
    currentTxnPos,
    replWaits,      \* replReplyChan # nil: the replicator waits for this logger
    timerOn,        \* the logger's timer runs
    fired,          \* timers that have fired and whose message is not yet sent
    rpc,            \* what replicateCycle is doing
    asked,          \* partitions asked in this cycle
    received,       \* replies received in this cycle
    partsChan,      \* the loggers' replies; a reply's updates are a slice of log
    copying,        \* the reply whose slice is being appended to the cache
    txnCache,       \* what each partition has still to replicate
    toSend,         \* the transactions to send in this cycle
    sent,           \* what has been given to remoteConn, in order
    nMsgs,          \* number of messages given to remoteConn
    nCycles,        \* cycles so far
    nTimeouts       \* timers fired so far

loggerVars == <<inbox, safeReqs, log, lastSharedPos, currentTxnPos, replWaits, timerOn, fired>>
replVars   == <<rpc, asked, received, copying, txnCache, toSend, sent, nMsgs, nCycles>>
vars       == <<logVars, loggerVars, partsChan, replVars, nTimeouts>>

Entry == [txn: Txns \cup {NoTxn}, clk: Clock]     \* PairClockUpdates, NoTxn without updates
Upd   == [part: Partitions, txn: Txns]
Reply == [part: Partitions, from: Nat, to: Nat, clk: Clock]
LoggerMsg == LogRequest \cup {[type |-> "txnLog", txn |-> NoTxn, clk |-> NewTimestamp],
                              [type |-> "timeout", txn |-> NoTxn, clk |-> NewTimestamp]}
RemoteTxn == [clk: Clock, upds: SUBSET Upd]
\* What remoteConn sends: msg numbers the messages, so that the transactions of a
\* group have the same number; a stable clock has this replica's position only.
SentItem == [kind: {"txn", "group", "clk"}, msg: Nat, clk: Clock, upds: SUBSET Upd]

\* Every variable has its type.
TypeOK ==
    /\ LogTypeOK
    /\ inbox \in [Partitions -> Seq(LoggerMsg)]
    /\ safeReqs \in [Partitions -> Nat]
    /\ log \in [Partitions -> Seq(Entry)]
    /\ lastSharedPos \in [Partitions -> Nat]
    /\ currentTxnPos \in [Partitions -> Nat]
    /\ replWaits \in [Partitions -> BOOLEAN]
    /\ timerOn \in [Partitions -> BOOLEAN]
    /\ fired \in [Partitions -> Nat]
    /\ rpc \in {"ask", "collect", "copy", "prepare", "single", "group", "stable", "sleep"}
    /\ asked \in 0 .. NParts
    /\ received \in 0 .. NParts
    /\ partsChan \in Seq(Reply)
    /\ copying \in Reply
    /\ txnCache \in [Partitions -> Seq(Entry)]
    /\ toSend \in Seq(RemoteTxn)
    /\ sent \in Seq(SentItem)
    /\ nMsgs \in Nat
    /\ nCycles \in Nat
    /\ nTimeouts \in Nat

NoReply == [part |-> 0, from |-> 0, to |-> 0, clk |-> NewTimestamp]

Init ==
    /\ LogInit
    /\ inbox = [p \in Partitions |-> <<>>]
    /\ safeReqs = [p \in Partitions |-> 0]
    /\ log = [p \in Partitions |-> <<>>]
    /\ lastSharedPos = [p \in Partitions |-> 0]
    /\ currentTxnPos = [p \in Partitions |-> 0]
    /\ replWaits = [p \in Partitions |-> FALSE]
    /\ timerOn = [p \in Partitions |-> FALSE]
    /\ fired = [p \in Partitions |-> 0]
    /\ rpc = "ask"
    /\ asked = 0
    /\ received = 0
    /\ partsChan = <<>>
    /\ copying = NoReply
    /\ txnCache = [p \in Partitions |-> <<[txn |-> NoTxn, clk |-> NewTimestamp]>>]
    /\ toSend = <<>>
    /\ sent = <<>>
    /\ nMsgs = 0
    /\ nCycles = 0
    /\ nTimeouts = 0

-----------------------------------------------------------------------------
(* The partitions *)

\* A coordinator decides a transaction.
DecideTxn(t) ==
    /\ \E P \in (SUBSET Partitions) \ {{}}, clk \in Timestamps : Decide(t, P, clk)
    /\ UNCHANGED <<loggerVars, partsChan, replVars, nTimeouts>>

\* updatePartitionWithCommit sends the transaction to the logger.
PartitionCommits(p, t) ==
    /\ LogCommit(p, t)
    /\ inbox' = [inbox EXCEPT ![p] = Append(@, CommitEntry(t))]
    /\ UNCHANGED <<safeReqs, log, lastSharedPos, currentTxnPos, replWaits, timerOn, fired,
                   partsChan, replVars, nTimeouts>>

\* handleMatSafeClk, once the logger's request has arrived
PartitionAnswers(p) ==
    /\ safeReqs[p] > 0
    /\ safeReqs' = [safeReqs EXCEPT ![p] = @ - 1]
    /\ \E clk \in Timestamps :
          /\ AnnounceClk(p, clk)
          /\ inbox' = [inbox EXCEPT ![p] = Append(@, ClkEntry(clk))]
    /\ UNCHANGED <<log, lastSharedPos, currentTxnPos, replWaits, timerOn, fired, partsChan,
                   replVars, nTimeouts>>

-----------------------------------------------------------------------------
(* A logger *)

\* handleRequests: the logger takes its next request, one of the given type.
Handles(p, type) ==
    /\ inbox[p] # <<>>
    /\ Head(inbox[p]).type = type
    /\ inbox' = [inbox EXCEPT ![p] = Tail(@)]

HandleCommitLogRequest(p) ==
    /\ Handles(p, "commit")
    /\ LET entry == [txn |-> Head(inbox[p]).txn, clk |-> Head(inbox[p]).clk]
       IN  log' = [log EXCEPT ![p] = IF currentTxnPos[p] = Len(@) THEN Append(@, entry)
                                     ELSE [@ EXCEPT ![currentTxnPos[p] + 1] = entry]]
    /\ currentTxnPos' = [currentTxnPos EXCEPT ![p] = @ + 1]
    /\ UNCHANGED <<logVars, safeReqs, lastSharedPos, replWaits, timerOn, fired, partsChan,
                   replVars, nTimeouts>>

\* The safe clock is asked for from another goroutine, so that the logger never waits
\* for the partition's channel.
HandleTxnLogRequest(p) ==
    /\ Handles(p, "txnLog")
    /\ replWaits' = [replWaits EXCEPT ![p] = TRUE]
    /\ timerOn' = [timerOn EXCEPT ![p] = TRUE]
    /\ safeReqs' = [safeReqs EXCEPT ![p] = @ + 1]
    /\ UNCHANGED <<logVars, log, lastSharedPos, currentTxnPos, fired, partsChan, replVars,
                   nTimeouts>>

\* Mutant of NextShared: the transactions that were sent are not marked as sent.
NextSharedUnchanged(p) == UNCHANGED <<lastSharedPos, currentTxnPos>>

\* After a reply the logger goes on behind what it has sent, or writes its array again
\* from the start.
NextShared(p) ==
    LET restart == ~KeepWholeLog /\ lastSharedPos[p] # currentTxnPos[p]
    IN  /\ lastSharedPos' = [lastSharedPos EXCEPT ![p] = IF restart THEN 0 ELSE currentTxnPos[p]]
        /\ currentTxnPos' = [currentTxnPos EXCEPT ![p] = IF restart THEN 0 ELSE @]

ReplyToReplicator(p, clk) ==
    /\ partsChan' = Append(partsChan, [part |-> p, from |-> lastSharedPos[p],
                                       to |-> currentTxnPos[p], clk |-> clk])
    /\ NextShared(p)
    /\ replWaits' = [replWaits EXCEPT ![p] = FALSE]

\* A safe clock answers the replicator, unless the timeout has.  It may be the late
\* answer to an earlier request.
HandleMatClkRequest(p) ==
    /\ Handles(p, "clk")
    /\ timerOn' = [timerOn EXCEPT ![p] = FALSE]
    /\ \/ replWaits[p] /\ ReplyToReplicator(p, Head(inbox[p]).clk)
       \/ ~replWaits[p] /\ UNCHANGED <<partsChan, lastSharedPos, currentTxnPos, replWaits>>
    /\ UNCHANGED <<logVars, safeReqs, log, fired, replVars, nTimeouts>>

\* The timeout answers with the clock of the last transaction, if there is a new one.
HandleClkTimeoutRequest(p) ==
    /\ Handles(p, "timeout")
    /\ \/ /\ replWaits[p] /\ lastSharedPos[p] # currentTxnPos[p]
          /\ ReplyToReplicator(p, log[p][currentTxnPos[p]].clk)
       \/ /\ ~replWaits[p] \/ lastSharedPos[p] = currentTxnPos[p]
          /\ UNCHANGED <<partsChan, lastSharedPos, currentTxnPos, replWaits>>
    /\ UNCHANGED <<logVars, safeReqs, log, timerOn, fired, replVars, nTimeouts>>

TimerFires(p) ==
    /\ timerOn[p]
    /\ nTimeouts < MaxTimeouts
    /\ nTimeouts' = nTimeouts + 1
    /\ timerOn' = [timerOn EXCEPT ![p] = FALSE]
    /\ fired' = [fired EXCEPT ![p] = @ + 1]
    /\ UNCHANGED <<logVars, inbox, safeReqs, log, lastSharedPos, currentTxnPos, replWaits,
                   partsChan, replVars>>

SendTimeout(p) ==
    /\ fired[p] > 0
    /\ fired' = [fired EXCEPT ![p] = @ - 1]
    /\ inbox' = [inbox EXCEPT ![p] = Append(@, [type |-> "timeout", txn |-> NoTxn,
                                                clk |-> NewTimestamp])]
    /\ UNCHANGED <<logVars, safeReqs, log, lastSharedPos, currentTxnPos, replWaits, timerOn,
                   partsChan, replVars, nTimeouts>>

-----------------------------------------------------------------------------
(* The replicator *)

\* getNewTxns asks the loggers one after the other,
AskPartition ==
    /\ rpc = "ask"
    /\ inbox' = [inbox EXCEPT ![asked] = Append(@, [type |-> "txnLog", txn |-> NoTxn,
                                                    clk |-> NewTimestamp])]
    /\ asked' = asked + 1
    /\ rpc' = IF asked + 1 = NParts THEN "collect" ELSE "ask"
    /\ UNCHANGED <<logVars, safeReqs, log, lastSharedPos, currentTxnPos, replWaits, timerOn,
                   fired, partsChan, received, copying, txnCache, toSend, sent, nMsgs, nCycles,
                   nTimeouts>>

WithoutLast(s) == SubSeq(s, 1, Len(s) - 1)

\* then receives a reply from each: the previous stable clock leaves the cache,
ReceiveReply ==
    /\ rpc = "collect"
    /\ partsChan # <<>>
    /\ copying' = Head(partsChan)
    /\ partsChan' = Tail(partsChan)
    /\ txnCache' = [txnCache EXCEPT ![Head(partsChan).part] = WithoutLast(@)]
    /\ rpc' = "copy"
    /\ UNCHANGED <<logVars, loggerVars, asked, received, toSend, sent, nMsgs, nCycles, nTimeouts>>

\* the transactions of the slice, which are still in the logger's array, are copied to
\* it, and the new stable clock goes last.
CopyEntry ==
    /\ rpc = "copy"
    /\ LET p == copying.part
       IN  \/ /\ copying.from < copying.to
              /\ txnCache' = [txnCache EXCEPT ![p] = Append(@, log[p][copying.from + 1])]
              /\ copying' = [copying EXCEPT !.from = @ + 1]
              /\ UNCHANGED <<received, rpc>>
           \/ /\ copying.from = copying.to
              /\ txnCache' = [txnCache EXCEPT ![p] =
                                 Append(@, [txn |-> NoTxn, clk |-> copying.clk])]
              /\ copying' = NoReply
              /\ received' = received + 1
              /\ rpc' = IF received + 1 = NParts THEN "prepare" ELSE "collect"
    /\ UNCHANGED <<logVars, loggerVars, partsChan, asked, toSend, sent, nMsgs, nCycles, nTimeouts>>

\* Mutants of ScanEntry: a lower clock does not clear what was found for a higher one; a
\* transaction with the lowest clock lets the merge go past a stable clock equal to it.
ScanEntryWithoutReset(s, p, e) ==
    LET upd == [part |-> p, txn |-> e.txn]
    IN  IF Compare(e.clk, s.min) \in {"LowerTs", "EqualTs"}
        THEN [min |-> e.clk, upds |-> s.upds \cup {upd}, stop |-> s.stop \/ e.txn = NoTxn]
        ELSE s

ScanEntryResuming(s, p, e) ==
    LET upd == [part |-> p, txn |-> e.txn]
    IN  IF Compare(e.clk, s.min) = "LowerTs"
        THEN [min |-> e.clk, upds |-> {upd}, stop |-> e.txn = NoTxn]
        ELSE IF Compare(e.clk, s.min) = "EqualTs"
        THEN [s EXCEPT !.upds = @ \cup {upd}, !.stop = e.txn = NoTxn]
        ELSE s

\* The body of the inner loop of preparateDataToSend, for the first entry e of p's cache.
\* Its clock is lower than, equal to, or else above or concurrent with the lowest so far.
ScanEntry(s, p, e) ==
    LET upd == [part |-> p, txn |-> e.txn]
    IN  IF Compare(e.clk, s.min) = "LowerTs"
        THEN [min |-> e.clk, upds |-> {upd}, stop |-> e.txn = NoTxn]
        ELSE IF Compare(e.clk, s.min) = "EqualTs"
        THEN [s EXCEPT !.upds = @ \cup {upd}, !.stop = @ \/ e.txn = NoTxn]
        ELSE s

\* The inner loop after n partitions
Scan[n \in 0 .. NParts] ==
    IF n = 0 THEN [min |-> txnCache[0][1].clk, upds |-> {}, stop |-> FALSE]
    ELSE ScanEntry(Scan[n - 1], n - 1, txnCache[n - 1][1])

\* One iteration of the outer loop: the entries with the lowest clock are one transaction
\* to send, unless one of them is a stable clock.
PrepareDataToSend ==
    /\ rpc = "prepare"
    /\ LET s == Scan[NParts]
           updated == {u.part : u \in s.upds}
       IN  \/ /\ ~s.stop
              /\ toSend' = Append(toSend, [clk |-> s.min, upds |-> s.upds])
              /\ txnCache' = [p \in Partitions |->
                                 IF p \in updated THEN Tail(txnCache[p]) ELSE txnCache[p]]
              /\ UNCHANGED rpc
           \/ /\ s.stop
              /\ rpc' = IF toSend = <<>> THEN "sleep"
                        ELSE IF Len(toSend) < MinTxnsToGroup THEN "single" ELSE "group"
              /\ UNCHANGED <<toSend, txnCache>>
    /\ UNCHANGED <<logVars, loggerVars, partsChan, asked, received, copying, sent, nMsgs, nCycles,
                   nTimeouts>>

IsEqualExceptForSelf(ts, other) == \A r \in Replicas \ {Self} : ts[r] = other[r]

\* Mutant of GroupEnd: the dependencies are not compared.
GroupEndUnchecked == IF Len(toSend) < MaxTxnsPerGroup THEN Len(toSend) ELSE MaxTxnsPerGroup

\* sendGroupTxns: how many of the transactions to send next have the clock of the first at
\* the positions of the other replicas
GroupEnd ==
    LET most == IF Len(toSend) < MaxTxnsPerGroup THEN Len(toSend) ELSE MaxTxnsPerGroup
        differs == {i \in 1 .. most : ~IsEqualExceptForSelf(toSend[i].clk, toSend[1].clk)}
    IN  IF differs = {} THEN most ELSE (CHOOSE i \in differs : \A j \in differs : i <= j) - 1

Individually(n) == [i \in 1 .. n |-> [kind |-> "txn", msg |-> nMsgs + i, clk |-> toSend[i].clk,
                                      upds |-> toSend[i].upds]]
InGroup(n) == [i \in 1 .. n |-> [kind |-> "group", msg |-> nMsgs + 1, clk |-> toSend[i].clk,
                                 upds |-> toSend[i].upds]]

\* SendTxnsIndividually
SendTxnsIndividually ==
    /\ rpc = "single"
    /\ sent' = sent \o Individually(Len(toSend))
    /\ nMsgs' = nMsgs + Len(toSend)
    /\ toSend' = <<>>
    /\ rpc' = "stable"
    /\ UNCHANGED <<logVars, loggerVars, partsChan, asked, received, copying, txnCache, nCycles,
                   nTimeouts>>

\* One iteration of sendGroupTxns: too few transactions are sent individually after all.
SendGroupTxns ==
    /\ rpc = "group"
    /\ \/ /\ GroupEnd < MinTxnsToGroup \div 2
          /\ sent' = sent \o Individually(GroupEnd)
          /\ nMsgs' = nMsgs + GroupEnd
       \/ /\ GroupEnd >= MinTxnsToGroup \div 2
          /\ sent' = sent \o InGroup(GroupEnd)
          /\ nMsgs' = nMsgs + 1
    /\ toSend' = SubSeq(toSend, GroupEnd + 1, Len(toSend))
    /\ rpc' = IF GroupEnd = Len(toSend) THEN "stable" ELSE "group"
    /\ UNCHANGED <<logVars, loggerVars, partsChan, asked, received, copying, txnCache, nCycles,
                   nTimeouts>>

\* sendTxns ends with this replica's position of the clock of the last transaction.
SendStableClk ==
    /\ rpc = "stable"
    /\ LET ts == UpdateForcedPos(NewTimestamp, Self, sent[Len(sent)].clk[Self])
       IN  sent' = Append(sent, [kind |-> "clk", msg |-> nMsgs + 1, clk |-> ts, upds |-> {}])
    /\ nMsgs' = nMsgs + 1
    /\ rpc' = "sleep"
    /\ UNCHANGED <<logVars, loggerVars, partsChan, asked, received, copying, txnCache, toSend,
                   nCycles, nTimeouts>>

\* replicateCycle starts again after a pause.
NextCycle ==
    /\ rpc = "sleep"
    /\ nCycles + 1 < MaxCycles
    /\ nCycles' = nCycles + 1
    /\ asked' = 0
    /\ received' = 0
    /\ rpc' = "ask"
    /\ UNCHANGED <<logVars, loggerVars, partsChan, copying, txnCache, toSend, sent, nMsgs,
                   nTimeouts>>

Logger(p) ==
    \/ HandleCommitLogRequest(p) \/ HandleTxnLogRequest(p)
    \/ HandleMatClkRequest(p) \/ HandleClkTimeoutRequest(p)

Replicator ==
    \/ AskPartition \/ ReceiveReply \/ CopyEntry \/ PrepareDataToSend
    \/ SendTxnsIndividually \/ SendGroupTxns \/ SendStableClk \/ NextCycle

Next ==
    \/ \E t \in Txns : DecideTxn(t)
    \/ \E p \in Partitions :
          \/ \E t \in Txns : PartitionCommits(p, t)
          \/ PartitionAnswers(p) \/ Logger(p) \/ TimerFires(p) \/ SendTimeout(p)
    \/ Replicator

Spec == Init /\ [][Next]_vars

\* The replicator copies a slice before the logger writes its slots again: with
\* KeepWholeLog always, otherwise when the scheduler lets it.
CopiedInTime ==
    LET slices == {copying} \cup {partsChan[i] : i \in 1 .. Len(partsChan)}
    IN  \A r \in slices : \A i \in (r.from + 1) .. r.to : log'[r.part][i] = log[r.part][i]

SpecInTime == Init /\ [][Next /\ CopiedInTime]_vars

-----------------------------------------------------------------------------
(* Properties *)

\* The entries that hold t's updates to p between the logger's inbox and remoteConn: in
\* the unshared part of the log, in a slice the replicator has still to copy, in its cache
\* and in what it has prepared or sent.
InLog(p, t) == {i \in (lastSharedPos[p] + 1) .. currentTxnPos[p] : log[p][i].txn = t}
InSlice(r, p, t) == {i \in (r.from + 1) .. r.to : r.part = p /\ log[p][i].txn = t}
InReplies(p, t) == UNION {InSlice(partsChan[i], p, t) \X {i} : i \in 1 .. Len(partsChan)}
InCache(p, t) == {i \in 1 .. Len(txnCache[p]) : txnCache[p][i].txn = t}
InToSend(p, t) == {i \in 1 .. Len(toSend) : [part |-> p, txn |-> t] \in toSend[i].upds}
InSent(p, t) == {i \in 1 .. Len(sent) : [part |-> p, txn |-> t] \in sent[i].upds}

Copies(p, t) ==
    Cardinality(InLog(p, t)) + Cardinality(InReplies(p, t)) + Cardinality(InSlice(copying, p, t))
      + Cardinality(InCache(p, t)) + Cardinality(InToSend(p, t)) + Cardinality(InSent(p, t))

InInbox(p, t) == \E i \in 1 .. Len(inbox[p]) : inbox[p][i].txn = t

\* "we want to isolate access to the log" (MemLogger): every transaction a logger has taken
\* from its partition is on its way to the other replicas exactly once.
NothingLost ==
    \A p \in Partitions, t \in Txns :
        Copies(p, t) = IF IsLogged(p, t) /\ ~InInbox(p, t) THEN 1 ELSE 0

\* The other replicas get the transactions in the order of this replica's position in their
\* timestamps, and after a stable clock no transaction below it: preparateDataToSend never
\* passes a partition that may still have a lower one, although safe clocks are late and
\* timeouts replace them. It holds of SpecInTime: a slot that is written again before it is
\* copied puts a later transaction in front of an earlier one.
ShippedInOrder ==
    \A i, j \in 1 .. Len(sent) : i < j => sent[i].clk[Self] <= sent[j].clk[Self]

\* "This txn depends on some txn of another replica, thus better not put in this group"
\* (sendGroupTxns): whatever the limits cut off, the transactions of a group have the same
\* clock at the other replicas.
GroupsShareDependencies ==
    \A i, j \in 1 .. Len(sent) :
        i < j /\ sent[i].msg = sent[j].msg =>
            /\ sent[i].kind = "group" /\ sent[j].kind = "group"
            /\ j - i < MaxTxnsPerGroup
            /\ IsEqualExceptForSelf(sent[i].clk, sent[j].clk)

\* Every cache has an entry whenever preparateDataToSend reads its first one, and the last
\* one is a stable clock: the merge never runs past what a partition has vouched for.
CacheEndsWithClk ==
    rpc # "copy" => \A p \in Partitions :
        txnCache[p] # <<>> /\ txnCache[p][Len(txnCache[p])].txn = NoTxn

\* The partitions whose updates of t leave in item i
ShippedParts(i, t) == {p \in Partitions : [part |-> p, txn |-> t] \in sent[i].upds}

\* "transactional causal consistency" (README.md): a transaction leaves as one transaction,
\* however the loggers' replies of its partitions interleave.  preparateDataToSend knows a
\* transaction by its timestamp only, so this is said of a timestamp no other one has.
WholeUnlessTied ==
    \A i \in 1 .. Len(sent), t \in Txns :
        (\A u \in Txns \ {t} : involved[u] # {} => ~IsEqual(commitTs[u], commitTs[t])) =>
            ShippedParts(i, t) \in {{}, involved[t]}

=============================================================================
