---------------------------- MODULE MCRemoteConn ----------------------------
(* RemoteConn on a small instance. *)
EXTENDS RemoteConn

\* One receiver with both buckets and one with the second only.
BothAndOne == [r \in Receivers |-> IF r = "r1" THEN Buckets ELSE {"b2"}]
SlotEach   == [r \in Receivers |-> Cardinality(Listens[r])]

\* The first transaction has ID -1 and the second 0.
BelowZero == -1

\* Once a message has overtaken one on hold nothing is promised any more.
NothingOvertaken == ~overtaken

\* A receiver's steps depend on its own queue only and nothing depends on them: of all
\* interleavings those are enough in which a message is taken as soon as it is there.
TakenAtOnce ==
    (\E r \in Receivers : recCh[r] # <<>> /\ crash[r] = "no")
        => \E r \in Receivers : Len(recCh'[r]) < Len(recCh[r])

=============================================================================
