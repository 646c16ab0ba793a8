------------------------- MODULE MCTransactionManager -------------------------
(* TransactionManager on small instances. *)
EXTENDS TransactionManager, TLC

\* Transactions of the same kind are interchangeable.
Symmetry == Permutations(StaticUpdaters) \cup Permutations(Interactive)

\* Every clock of the instances is within this bound: a prepare goes at most one past
\* the wall clock, the stable clock and the prepares before it.
LogTimestamps == [Replicas -> 0 .. (MaxTime + 2 * Cardinality(Txns))]

Log == INSTANCE PartitionLog WITH
          Timestamps <- LogTimestamps, involved <- LogInvolved, commitTs <- LogCommitTs

\* The partitions and the transaction manager together keep the promise PartitionLog
\* states to the loggers (logChan): commits in timestamp order and none below a clock
\* handleMatSafeClk has announced, at each of the partitions a timestamp is decided for.
PromiseKept == Log!LogSpec

=============================================================================
