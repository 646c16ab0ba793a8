----------------------------- MODULE RemoteApply -----------------------------
(***************************************************************************)
(* How a replica applies the transactions of the others: the goroutine     *)
(* handleRemoteMsgs of components/transactionManager.go, the partitions it *)
(* hands the updates to, and the queue of what cannot be applied yet.      *)
(*                                                                         *)
(* Local transactions commit in one step here: what the commit protocol    *)
(* does is TransactionManager's subject.  What matters to the others is    *)
(* which timestamp comes out of the partitions' clocks.  The replicators   *)
(* hand the transactions over in the order LogShip shows, and every        *)
(* replica receives them in that order from every other one.               *)
(***************************************************************************)
EXTENDS ClockSI, Sequences, FiniteSets, Functions

CONSTANTS
    Partitions,        \* the partitions of every replica
    MaxTxns,           \* bound: transactions of all replicas
    MinTxnsToGroup,    \* minTxnsToGroup
    MaxTxnsPerGroup    \* maxTxnsPerGroup

ASSUME RemoteApplyConstants ==
    /\ IsFiniteSet(Replicas)
    /\ Partitions # {}
    /\ MaxTxns \in Nat
    /\ MinTxnsToGroup \in Nat \ {0} /\ MaxTxnsPerGroup \in Nat \ {0}

VARIABLES
    log,              \* the transactions each replica has committed, in order
    shipped,          \* how many of them its replicator has sent
    link,             \* link[s][r]: messages of s that r has not received yet
    localClock,       \* TransactionManager.localClock
    stableClk,        \* partitionClock.stableClk of every partition
    db,               \* the transactions applied by every partition, in order
    downstreamQueue,  \* messages of s on hold at r, as pointers to them
    remote,           \* what handleRemoteMsgs of r is doing
    downstreamOpsCh   \* the partitions of downstreams that were generated

tmVars == <<localClock, stableClk, db>>
vars   == <<log, shipped, link, tmVars, downstreamQueue, remote, downstreamOpsCh>>

\* The n-th transaction of replica r
Id(r, n) == <<r, n>>
TxnOf(id) == log[id[1]][id[2]]
AllIds == UNION {{r} \X DOMAIN log[r] : r \in Replicas}
NTxns == Cardinality(AllIds \cup UNION {{r} \X {-i : i \in DOMAIN downstreamOpsCh[r]} : r \in Replicas})

\* A RemoteTxn, RemoteTxnGroup or TMRemoteClk, as a value or as a pointer
Msg(kind, from, txns, ts) ==
    [kind |-> kind, from |-> from, txns |-> txns, ts |-> ts, form |-> "value"]

Idle == [kind |-> "idle"]

Init ==
    /\ log = [r \in Replicas |-> <<>>]
    /\ shipped = [r \in Replicas |-> 0]
    /\ link = [s \in Replicas |-> [r \in Replicas |-> <<>>]]
    /\ localClock = [r \in Replicas |-> NewTimestamp]
    /\ stableClk = [r \in Replicas |-> [p \in Partitions |-> NewTimestamp]]
    /\ db = [r \in Replicas |-> [p \in Partitions |-> <<>>]]
    /\ downstreamQueue = [r \in Replicas |-> [s \in Replicas |-> <<>>]]
    /\ remote = [r \in Replicas |-> Idle]
    /\ downstreamOpsCh = [r \in Replicas |-> <<>>]

-----------------------------------------------------------------------------
(* Local transactions, and what is sent of them *)

\* The clock partition p proposes to a transaction (getNextClk).  The wall clock has
\* passed every earlier transaction of the replica.
Proposal(r, p) == NextTimestamp(stableClk[r][p], r, Len(log[r]) + 1)

\* The coordinator keeps the highest proposal; of two concurrent ones, the one that came
\* first.
Decided(r, P) ==
    {Proposal(r, p) : p \in {q \in P : \A o \in P : ~IsHigher(Proposal(r, o), Proposal(r, q))}}

CommitAt(r, P) ==
    \E ts \in Decided(r, P) :
        /\ log' = [log EXCEPT ![r] = Append(@, [clk |-> ts, parts |-> P,
                                                saw |-> [p \in P |-> Range(db[r][p])]])]
        /\ stableClk' = [stableClk EXCEPT ![r] =
              [p \in Partitions |-> IF p \in P THEN Merge(@[p], ts) ELSE @[p]]]
        /\ db' = [db EXCEPT ![r] =
              [p \in Partitions |-> IF p \in P THEN Append(@[p], Id(r, Len(log[r]) + 1)) ELSE @[p]]]
        /\ localClock' = [localClock EXCEPT ![r] = Merge(@, ts)]

\* A transaction of a client commits.
Commit(r, P) ==
    /\ NTxns < MaxTxns
    /\ CommitAt(r, P)
    /\ UNCHANGED <<shipped, link, downstreamQueue, remote, downstreamOpsCh>>

\* handleDownstreamGeneratedOps: what remote updates have generated is prepared and
\* committed like a transaction of this replica.
HandleDownstreamGeneratedOps(r) ==
    /\ downstreamOpsCh[r] # <<>>
    /\ CommitAt(r, Head(downstreamOpsCh[r]))
    /\ downstreamOpsCh' = [downstreamOpsCh EXCEPT ![r] = Tail(@)]
    /\ UNCHANGED <<shipped, link, downstreamQueue, remote>>

\* The transactions from..to of r have the clock of the first at the other replicas.
SameDependencies(r, from, to) ==
    \A n \in from .. to : \A q \in Replicas \ {r} : log[r][n].clk[q] = log[r][from].clk[q]

\* SendTxnsIndividually: one message for each of the transactions a..b of r.
Singles(r, a, b) == [n \in 1 .. (b - a + 1) |-> Msg("txn", r, <<a + n - 1>>, 0)]

\* The end of the group that starts with a: as many as may go into one and have its
\* dependencies
GroupEnd(r, a, to) ==
    LET most == IF to < a + MaxTxnsPerGroup - 1 THEN to ELSE a + MaxTxnsPerGroup - 1
    IN  CHOOSE b \in a .. most : /\ SameDependencies(r, a, b)
                                 /\ b = most \/ ~SameDependencies(r, a, b + 1)

\* Too few are not worth a group.
GroupMessages(r, a, b) ==
    IF b - a + 1 < MinTxnsToGroup \div 2 THEN Singles(r, a, b)
    ELSE <<Msg("group", r, [n \in 1 .. (b - a + 1) |-> a + n - 1], 0)>>

\* sendTxns: many transactions are sent in groups of equal dependencies, and the last
\* message is the clock of the last transaction.
Messages(r, from, to) ==
    LET Groups[a \in from .. (to + 1)] ==
            IF a > to THEN <<>>
            ELSE GroupMessages(r, a, GroupEnd(r, a, to)) \o Groups[GroupEnd(r, a, to) + 1]
    IN  (IF to - from + 1 < MinTxnsToGroup THEN Singles(r, from, to) ELSE Groups[from])
           \o <<Msg("clk", r, <<>>, log[r][to].clk[r])>>

\* One cycle of r's replicator
Ship(r) ==
    /\ shipped[r] < Len(log[r])
    /\ link' = [link EXCEPT ![r] =
          [q \in Replicas |-> IF q = r THEN @[q]
                              ELSE @[q] \o Messages(r, shipped[r] + 1, Len(log[r]))]]
    /\ shipped' = [shipped EXCEPT ![r] = Len(log[r])]
    /\ UNCHANGED <<log, tmVars, downstreamQueue, remote, downstreamOpsCh>>

-----------------------------------------------------------------------------
(* Remote transactions *)

FirstClk(m) == log[m.from][m.txns[1]].clk                \* getMinClk
LastClk(m)  == log[m.from][m.txns[Len(m.txns)]].clk      \* getMaxClk

PartsOf(m) == UNION {log[m.from][n].parts : n \in Range(m.txns)}
TxnIds(m)  == [i \in DOMAIN m.txns |-> Id(m.from, m.txns[i])]

\* Mutant of CanApply: the dependencies are not looked at.
CanApplyAnyway(m, r) == TRUE

\* The conditions of applyRemoteClk, applyRemoteTxn and applyRemoteTxnGroup: a clock must
\* not pass what is on hold, a transaction needs its dependencies.
CanApply(m, r) ==
    IF m.kind = "clk" THEN downstreamQueue[r][m.from] = <<>>
    ELSE IsLowerOrEqualExceptFor(FirstClk(m), localClock[r], r, m.from)

\* What the partitions are asked to do: a transaction goes to its partitions, a group and
\* a clock to all of them.
Job(m) ==
    [kind |-> m.kind, from |-> m.from, txns |-> TxnIds(m),
     todo |-> IF m.kind = "txn" THEN PartsOf(m) ELSE Partitions,
     clk |-> IF m.kind = "clk" THEN UpdateForcedPos(NewTimestamp, m.from, m.ts) ELSE LastClk(m)]

\* Mutant of Hold: what cannot be applied is dropped.
HoldNothing(q, m) == q

\* What is appended to downstreamQueue is the pointer the handler was given.
Hold(q, m) == Append(q, [m EXCEPT !.form = "pointer"])

\* handleRemoteMsgs takes the next message of some replica.
HandleRemoteMsg(r, s) ==
    /\ remote[r] = Idle
    /\ link[s][r] # <<>>
    /\ link' = [link EXCEPT ![s][r] = Tail(@)]
    /\ LET m == Head(link[s][r])
       IN  \/ /\ CanApply(m, r)
              /\ remote' = [remote EXCEPT ![r] = Job(m)]
              /\ UNCHANGED downstreamQueue
           \/ /\ ~CanApply(m, r)
              /\ downstreamQueue' = [downstreamQueue EXCEPT ![r][s] = Hold(@, m)]
              /\ UNCHANGED remote
    /\ UNCHANGED <<log, shipped, tmVars, downstreamOpsCh>>

\* Those of the transactions that update p, in their order
UpdatesOf(p, txns) ==
    LET F[i \in 0 .. Len(txns)] ==
            IF i = 0 THEN <<>>
            ELSE IF p \in TxnOf(txns[i]).parts THEN Append(F[i - 1], txns[i]) ELSE F[i - 1]
    IN  F[Len(txns)]

\* handleMatRemoteTxn, handleMatRemoteGroupTxn and handleMatClkPosUpd: a partition applies
\* its updates, the transactions in order, and moves its clock.
PartitionApplies(r, p) ==
    /\ remote[r] # Idle
    /\ p \in remote[r].todo
    /\ db' = [db EXCEPT ![r][p] = @ \o UpdatesOf(p, remote[r].txns)]
    /\ stableClk' = [stableClk EXCEPT ![r][p] = Merge(@, remote[r].clk)]
    /\ remote' = [remote EXCEPT ![r].todo = @ \ {p}]
    /\ UNCHANGED <<log, shipped, link, localClock, downstreamQueue, downstreamOpsCh>>

\* checkPendingRemoteTxns switches on the types RemoteTxn, RemoteTxnGroup and TMRemoteClk.
SwitchMatches(m) == m.form = "value"

\* The body of its inner loop for one message: a clock is always taken, a transaction when
\* its dependencies are there.  What is not taken does not end the loop: break leaves the
\* switch only.
TakePending(d, m, r) ==
    IF \/ ~SwitchMatches(m)
       \/ m.kind # "clk" /\ ~IsLowerOrEqualExceptFor(LastClk(m), d.clk, r, m.from)
    THEN d
    ELSE [clk |-> UpdatePos(d.clk, m.from, IF m.kind = "clk" THEN m.ts ELSE LastClk(m)[m.from]),
          txns |-> d.txns \o TxnIds(m), taken |-> d.taken + 1]

\* The loop over the messages of s: as many are removed from the front of the queue as
\* were taken.
ScanPending(d, r, s) ==
    LET msgs == d.queue[s]
        F[i \in 0 .. Len(msgs)] ==
            IF i = 0 THEN [clk |-> d.clk, txns |-> d.txns, taken |-> 0]
            ELSE TakePending(F[i - 1], msgs[i], r)
        end == F[Len(msgs)]
    IN  [clk |-> end.clk, txns |-> end.txns, found |-> d.found + end.taken,
         queue |-> [d.queue EXCEPT ![s] = SubSeq(@, end.taken + 1, Len(@))]]

\* The outer loop once: every replica in turn
PendingRound(d, r) ==
    LET G[S \in SUBSET Replicas] ==
            IF S = {} THEN d
            ELSE LET s == CHOOSE x \in S : TRUE IN ScanPending(G[S \ {s}], r, s)
    IN  G[Replicas]

\* Until nothing is found: each round that finds something shortens a queue.
CheckPending(r, copyClk) ==
    LET held == UNION {{s} \X DOMAIN downstreamQueue[r][s] : s \in Replicas}
        R[n \in 0 .. Cardinality(held)] ==
            IF n = 0 THEN [clk |-> copyClk, txns |-> <<>>, found |-> 0,
                           queue |-> downstreamQueue[r]]
            ELSE PendingRound(R[n - 1], r)
    IN  R[Cardinality(held)]

\* The end of applyRemoteClk and of processMatRemoteReply, once every partition has
\* answered: the clock covers the message, generated downstreams are passed on, and the
\* queue is looked through.  What is found there goes to the partitions in the same step:
\* no message in the queue matches the switch.
FinishRemote(r) ==
    /\ remote[r] # Idle
    /\ remote[r].todo = {}
    /\ LET s == remote[r].from
           d == CheckPending(r, UpdatePos(localClock[r], s, remote[r].clk[s]))
       IN  /\ localClock' = [localClock EXCEPT ![r] = d.clk]
           /\ downstreamQueue' = [downstreamQueue EXCEPT ![r] = d.queue]
           /\ db' = [db EXCEPT ![r] = [p \in Partitions |->
                       @[p] \o UpdatesOf(p, d.txns)]]
           /\ stableClk' = [stableClk EXCEPT ![r] = [p \in Partitions |->
                       IF d.found = 0 THEN @[p] ELSE Merge(@[p], d.clk)]]
    /\ remote' = [remote EXCEPT ![r] = Idle]
    /\ \/ UNCHANGED downstreamOpsCh
       \/ /\ NTxns < MaxTxns
          /\ remote[r].kind # "clk"
          /\ \E P \in (SUBSET UNION {TxnOf(t).parts : t \in Range(remote[r].txns)}) \ {{}} :
                downstreamOpsCh' = [downstreamOpsCh EXCEPT ![r] = Append(@, P)]
    /\ UNCHANGED <<log, shipped, link>>

Remote(r) ==
    \/ \E s \in Replicas \ {r} : HandleRemoteMsg(r, s)
    \/ \E p \in Partitions : PartitionApplies(r, p)
    \/ FinishRemote(r)

Next ==
    \E r \in Replicas :
        \/ \E P \in (SUBSET Partitions) \ {{}} : Commit(r, P)
        \/ HandleDownstreamGeneratedOps(r)
        \/ Ship(r)
        \/ Remote(r)

Spec == Init /\ [][Next]_vars

-----------------------------------------------------------------------------
(* Properties *)

\* r has put something on hold.
OnHold(r) == \E s \in Replicas : downstreamQueue[r][s] # <<>>

\* How many times t's updates to p are in the messages of a sequence
Copies(msgs, t) ==
    Cardinality({i \in DOMAIN msgs : msgs[i].from = t[1] /\ t[2] \in Range(msgs[i].txns)})

\* A remote transaction that was sent is in one place for every partition it updates: on
\* its way, on hold, with the partition, or applied, and it is applied once.  No path
\* through grouping, holding and splitting by partition loses or repeats one.
AppliedOnce ==
    \A r, s \in Replicas, p \in Partitions : r # s =>
        \A n \in DOMAIN log[s] : p \in log[s][n].parts =>
            Copies(link[s][r], Id(s, n)) + Copies(downstreamQueue[r][s], Id(s, n))
              + (IF remote[r] # Idle /\ p \in remote[r].todo /\ Id(s, n) \in Range(remote[r].txns)
                 THEN 1 ELSE 0)
              + Cardinality({i \in DOMAIN db[r][p] : db[r][p][i] = Id(s, n)})
            = IF n <= shipped[s] THEN 1 ELSE 0

\* Partition p of r has applied everything clk says it has.
HasAll(r, p, clk) ==
    \A t \in AllIds : p \in TxnOf(t).parts /\ TxnOf(t).clk[t[1]] <= clk[t[1]] =>
        t \in Range(db[r][p])

\* The clock that a client's transaction starts from, and the clock of each partition,
\* cover nothing that the partitions have not applied, whatever the partitions' steps and
\* the commits between them: "transactional causal consistency" (README.md).  It is said of
\* a replica that has had nothing on hold, and when handleRemoteMsgs is between two messages.
ClockIsApplied ==
    \A r \in Replicas : remote[r] = Idle /\ ~OnHold(r) =>
        \A p \in Partitions : HasAll(r, p, localClock[r]) /\ HasAll(r, p, stableClk[r][p])

Before(t, u, seq) == \E i, j \in DOMAIN seq : i < j /\ seq[i] = t /\ seq[j] = u

\* What a partition had applied when a transaction committed there is applied before it by
\* that partition of every replica.  It is said of transactions whose timestamp covers what
\* their partitions had applied (handleStaticTMUpdate keeps the first of two concurrent
\* proposals, and the other partition's is then not covered), at a replica that has had
\* nothing on hold.
CausalOrderOfCovered ==
    \A r \in Replicas, p \in Partitions : ~OnHold(r) => \A u \in Range(db[r][p]) :
        \A t \in TxnOf(u).saw[p] :
            TxnOf(t).clk[t[1]] <= TxnOf(u).clk[t[1]] => Before(t, u, db[r][p])

\* "go through requests until nothing can be applied" (checkPendingRemoteTxns): when a
\* message has been dealt with, nothing that is next on hold has its dependencies.
NothingReadyOnHold ==
    \A r, s \in Replicas : remote[r] = Idle /\ downstreamQueue[r][s] # <<>> =>
        LET m == Head(downstreamQueue[r][s])
        IN  m.kind # "clk" /\ ~IsLowerOrEqualExceptFor(FirstClk(m), localClock[r], r, s)

=============================================================================
