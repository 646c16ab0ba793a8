----------------------------- MODULE PartitionLog -----------------------------
(***************************************************************************)
(* What the partitions of one server promise their loggers, whatever the   *)
(* commit protocol behind it: transactions are decided with a timestamp    *)
(* and a set of partitions; each of those partitions logs the transaction  *)
(* once, in the order of the timestamps, and may announce a clock that     *)
(* nothing it logs later is below.                                         *)
(*                                                                         *)
(* TransactionManager implements this specification (PromiseKept), and the *)
(* loggers and the replicator of LogShip are built on it.                  *)
(***************************************************************************)
EXTENDS ClockSI, Sequences, FiniteSets

CONSTANTS
    NParts,       \* the number of partitions
    Txns,         \* transaction ids
    NoTxn,        \* the txn field of an announced clock
    Timestamps    \* the clocks that transactions and announcements may have

ASSUME PartitionLogConstants ==
    /\ NParts \in Nat \ {0}
    /\ NoTxn \notin Txns
    /\ Timestamps \subseteq Clock

Partitions == 0 .. (NParts - 1)

VARIABLES
    involved,   \* the partitions of each transaction, none before it is decided
    commitTs,   \* the commit timestamp of each transaction once it is decided
    logChan     \* everything each partition has sent to its logger

logVars == <<involved, commitTs, logChan>>

LogRequest == [type: {"commit"}, txn: Txns, clk: Timestamps]
                \cup [type: {"clk"}, txn: {NoTxn}, clk: Timestamps]

LogTypeOK ==
    /\ involved \in [Txns -> SUBSET Partitions]
    /\ commitTs \in [Txns -> Clock]
    /\ logChan \in [Partitions -> Seq(LogRequest)]

LogInit ==
    /\ involved = [t \in Txns |-> {}]
    /\ commitTs = [t \in Txns |-> NewTimestamp]
    /\ logChan = [p \in Partitions |-> <<>>]

IsLogged(p, t) == \E i \in 1 .. Len(logChan[p]) : logChan[p][i].txn = t

\* The transactions p has still to log
Unlogged(p) == {t \in Txns : p \in involved[t] /\ ~IsLogged(p, t)}

\* The coordinator decides on a timestamp that none of its partitions is past.
Decide(t, P, clk) ==
    /\ involved[t] = {}
    /\ \A p \in P : \A i \in 1 .. Len(logChan[p]) : IsLowerOrEqual(logChan[p][i].clk, clk)
    /\ involved' = [involved EXCEPT ![t] = P]
    /\ commitTs' = [commitTs EXCEPT ![t] = clk]
    /\ UNCHANGED logChan

CommitEntry(t) == [type |-> "commit", txn |-> t, clk |-> commitTs[t]]
ClkEntry(clk) == [type |-> "clk", txn |-> NoTxn, clk |-> clk]

\* updatePartitionWithCommit: a transaction is logged after all the lower ones.
LogCommit(p, t) ==
    /\ t \in Unlogged(p)
    /\ \A u \in Unlogged(p) : ~IsLower(commitTs[u], commitTs[t])
    /\ logChan' = [logChan EXCEPT ![p] = Append(@, CommitEntry(t))]
    /\ UNCHANGED <<involved, commitTs>>

\* handleMatSafeClk: the clock announced is not above what is still to be logged.
AnnounceClk(p, clk) ==
    /\ \A t \in Unlogged(p) : IsLowerOrEqual(clk, commitTs[t])
    /\ logChan' = [logChan EXCEPT ![p] = Append(@, ClkEntry(clk))]
    /\ UNCHANGED <<involved, commitTs>>

LogNext ==
    \/ \E t \in Txns, P \in (SUBSET Partitions) \ {{}}, clk \in Timestamps : Decide(t, P, clk)
    \/ \E p \in Partitions :
          \/ \E t \in Txns : LogCommit(p, t)
          \/ \E clk \in Timestamps : AnnounceClk(p, clk)

LogSpec == LogInit /\ [][LogNext]_logVars

=============================================================================
