------------------------- MODULE CommitRepliesProofs --------------------------
(***************************************************************************)
(* handleCommitReplies counts the partitions that have applied a commit    *)
(* and advances the server's clock for the last one: what its channel and  *)
(* its counters say about the databases of the partitions.                 *)
(***************************************************************************)
EXTENDS CommitOrderProofs

-----------------------------------------------------------------------------
(* The messages about a transaction in commitChan *)

InfoAt(t) == {i \in 1 .. Len(commitChan) :
                 commitChan[i].type = "nPartitions" /\ commitChan[i].txn = t}

RepliesAt(t) == {i \in 1 .. Len(commitChan) :
                    commitChan[i].type = "partReply" /\ commitChan[i].txn = t}

InfoMsgs(t) == {commitChan[i] : i \in InfoAt(t)}

NReplied(t) == Cardinality(RepliesAt(t))

\* The number of partitions comes before everything else about a transaction.
InfoFirst(t) == \A i \in InfoAt(t) : \A j \in InfoAt(t) \cup RepliesAt(t) : j # i => i < j

\* The messages have their type and are finitely many.
LEMMA CommitChanType ==
    ASSUME TypeInv
    PROVE  /\ commitChan \in Seq(CommitInfo) /\ Len(commitChan) \in Nat
           /\ \A i \in 1 .. Len(commitChan) : commitChan[i] \in CommitInfo
           /\ \A t \in Txns : /\ IsFiniteSet(RepliesAt(t)) /\ NReplied(t) \in Nat
                              /\ NReplied(t) = 0 <=> RepliesAt(t) = {}
<1>1. commitChan \in Seq(CommitInfo)
  BY DEF TypeInv, TypeOK, MatTypeOK
<1>2. Len(commitChan) \in Nat /\ \A i \in 1 .. Len(commitChan) : commitChan[i] \in CommitInfo
  BY <1>1
<1>3. IsFiniteSet(1 .. Len(commitChan))
  BY <1>2, FS_Interval
<1>4. \A t \in Txns : IsFiniteSet(RepliesAt(t))
  <2> SUFFICES ASSUME NEW t \in Txns PROVE IsFiniteSet(RepliesAt(t))
    OBVIOUS
  <2>1. RepliesAt(t) \in SUBSET (1 .. Len(commitChan))
    BY DEF RepliesAt
  <2> QED BY <1>3, <2>1, FS_Subset
<1>5. \A t \in Txns : NReplied(t) \in Nat /\ (NReplied(t) = 0 <=> RepliesAt(t) = {})
  BY <1>4, FS_CardinalityType, FS_EmptySet DEF NReplied
<1> QED BY <1>1, <1>2, <1>4, <1>5

\* A message is sent to handleCommitReplies.
LEMMA ChanAppend ==
    ASSUME TypeInv, NEW m \in CommitInfo, commitChan' = Append(commitChan, m), NEW u \in Txns
    PROVE  /\ m.type = "nPartitions" /\ m.txn = u =>
                 /\ InfoMsgs(u)' = InfoMsgs(u) \cup {m}
                 /\ InfoMsgs(u) = {} /\ NReplied(u) = 0 => InfoFirst(u)'
           /\ ~(m.type = "nPartitions" /\ m.txn = u) =>
                 /\ InfoMsgs(u)' = InfoMsgs(u)
                 /\ InfoFirst(u) => InfoFirst(u)'
           /\ m.type = "partReply" /\ m.txn = u => NReplied(u)' = NReplied(u) + 1
           /\ ~(m.type = "partReply" /\ m.txn = u) => NReplied(u)' = NReplied(u)
<1>1. PICK n \in Nat : n = Len(commitChan)
  BY CommitChanType
<1>2. /\ Len(commitChan') = n + 1 /\ commitChan'[n + 1] = m
      /\ \A i \in 1 .. n : commitChan'[i] = commitChan[i]
      /\ \A i \in 1 .. (n + 1) : i \in 1 .. n \/ i = n + 1
  BY <1>1, CommitChanType, AppendFacts
<1>3. /\ m.type = "nPartitions" /\ m.txn = u => InfoAt(u)' = InfoAt(u) \cup {n + 1}
      /\ ~(m.type = "nPartitions" /\ m.txn = u) => InfoAt(u)' = InfoAt(u)
  BY <1>1, <1>2 DEF InfoAt
<1>4. /\ m.type = "partReply" /\ m.txn = u => RepliesAt(u)' = RepliesAt(u) \cup {n + 1}
      /\ ~(m.type = "partReply" /\ m.txn = u) => RepliesAt(u)' = RepliesAt(u)
  BY <1>1, <1>2 DEF RepliesAt
<1>5. InfoAt(u) \subseteq 1 .. n /\ RepliesAt(u) \subseteq 1 .. n /\ n + 1 \notin 1 .. n
  BY <1>1 DEF InfoAt, RepliesAt
<1>6. \A i \in InfoAt(u) : commitChan'[i] = commitChan[i]
  BY <1>2, <1>5
<1>7. IsFiniteSet(RepliesAt(u)) /\ (NReplied(u) = 0 <=> RepliesAt(u) = {})
  BY CommitChanType
<1>8. m.type = "partReply" /\ m.txn = u => NReplied(u)' = NReplied(u) + 1
  <2>1. PICK S : S = RepliesAt(u) /\ IsFiniteSet(S) /\ n + 1 \notin S
    BY <1>5, <1>7
  <2>2. Cardinality(S \cup {n + 1}) = Cardinality(S) + 1
    BY <2>1, FS_AddElement
  <2> QED BY <1>4, <2>1, <2>2 DEF NReplied
<1>9. ~(m.type = "partReply" /\ m.txn = u) => NReplied(u)' = NReplied(u)
  BY <1>4 DEF NReplied
<1>10. ASSUME m.type = "nPartitions", m.txn = u
       PROVE  /\ InfoMsgs(u)' = InfoMsgs(u) \cup {m}
              /\ InfoMsgs(u) = {} /\ NReplied(u) = 0 => InfoFirst(u)'
  <2>1. InfoAt(u)' = InfoAt(u) \cup {n + 1} /\ RepliesAt(u)' = RepliesAt(u)
    BY <1>3, <1>4, <1>10
  <2>2. InfoMsgs(u)' = InfoMsgs(u) \cup {m}
    <3>1. InfoMsgs(u)' = {commitChan'[i] : i \in InfoAt(u) \cup {n + 1}}
      BY <2>1 DEF InfoMsgs
    <3>2. {commitChan'[i] : i \in InfoAt(u) \cup {n + 1}} = {commitChan[i] : i \in InfoAt(u)} \cup {m}
      BY <1>2, <1>6, ZenonT(60)
    <3> QED BY <3>1, <3>2 DEF InfoMsgs
  <2>3. InfoMsgs(u) = {} => InfoAt(u) = {}
    BY DEF InfoMsgs
  <2> QED BY <1>7, <2>1, <2>2, <2>3 DEF InfoFirst
<1>11. ASSUME ~(m.type = "nPartitions" /\ m.txn = u)
       PROVE  InfoMsgs(u)' = InfoMsgs(u) /\ (InfoFirst(u) => InfoFirst(u)')
  <2>1. InfoAt(u)' = InfoAt(u)
    BY <1>3, <1>11
  <2>2. InfoMsgs(u)' = InfoMsgs(u)
    BY <1>6, <2>1 DEF InfoMsgs
  <2>3. \A j \in RepliesAt(u)' : j \in RepliesAt(u) \/ j = n + 1
    BY <1>4
  <2>4. \A i \in InfoAt(u) : i < n + 1
    BY <1>5
  <2> QED BY <2>1, <2>2, <2>3, <2>4 DEF InfoFirst
<1> QED BY <1>8, <1>9, <1>10, <1>11

\* A set of positions is as large after each has moved one place.
LEMMA ShiftedCardinality ==
    ASSUME NEW n \in Nat, NEW S \in SUBSET (2 .. n), IsFiniteSet(S),
           NEW T \in SUBSET (1 .. n), \A i \in 1 .. n : i \in T <=> i + 1 \in S
    PROVE  Cardinality(T) = Cardinality(S)
<1> DEFINE f == [i \in S |-> i - 1]
<1>1. f \in [S -> T]
  <2> SUFFICES ASSUME NEW i \in S PROVE i - 1 \in T
    OBVIOUS
  <2>1. i - 1 \in 1 .. n /\ (i - 1) + 1 = i
    OBVIOUS
  <2> QED BY <2>1
<1>2. \A i, j \in S : f[i] = f[j] => i = j
  OBVIOUS
<1>3. \A k \in T : \E i \in S : f[i] = k
  <2> SUFFICES ASSUME NEW k \in T PROVE \E i \in S : f[i] = k
    OBVIOUS
  <2>1. k + 1 \in S /\ (k + 1) - 1 = k
    OBVIOUS
  <2> QED BY <2>1
<1>4. f \in Bijection(S, T)
  <2> HIDE DEF f
  <2>1. f \in Injection(S, T)
    BY <1>1, <1>2 DEF Injection, IsInjective
  <2>2. f \in Surjection(S, T)
    BY <1>1, <1>3 DEF Surjection
  <2> QED BY <2>1, <2>2 DEF Bijection
<1> QED BY <1>4, FS_Bijection DEF ExistsBijection

\* handleCommitReplies takes a message.
LEMMA ChanTail ==
    ASSUME TypeInv, commitChan # <<>>, NEW m, m = Head(commitChan), commitChan' = Tail(commitChan),
           NEW u \in Txns
    PROVE  /\ InfoFirst(u) => InfoFirst(u)'
           /\ m.type = "nPartitions" /\ m.txn = u /\ InfoFirst(u) =>
                 m \in InfoMsgs(u) /\ InfoMsgs(u)' = {}
           /\ ~(m.type = "nPartitions" /\ m.txn = u) => InfoMsgs(u)' = InfoMsgs(u)
           /\ m.type = "partReply" /\ m.txn = u => NReplied(u) > 0 /\ NReplied(u)' = NReplied(u) - 1
           /\ ~(m.type = "partReply" /\ m.txn = u) => NReplied(u)' = NReplied(u)
<1>1. PICK n \in Nat : n = Len(commitChan)
  BY CommitChanType
<1>2. /\ n >= 1 /\ Len(commitChan') = n - 1 /\ commitChan[1] = m
      /\ \A i \in 1 .. (n - 1) : commitChan'[i] = commitChan[i + 1]
  BY <1>1, CommitChanType, TailFacts
<1>3. /\ InfoAt(u) \subseteq 1 .. n /\ RepliesAt(u) \subseteq 1 .. n
      /\ InfoAt(u)' \subseteq 1 .. (n - 1) /\ RepliesAt(u)' \subseteq 1 .. (n - 1)
  BY <1>1, <1>2 DEF InfoAt, RepliesAt
<1>4. \A i \in 1 .. (n - 1) : /\ i + 1 \in 1 .. n
                              /\ i \in InfoAt(u)' <=> i + 1 \in InfoAt(u)
                              /\ i \in RepliesAt(u)' <=> i + 1 \in RepliesAt(u)
  BY <1>1, <1>2 DEF InfoAt, RepliesAt
<1>5. \A i \in 2 .. n : i - 1 \in 1 .. (n - 1) /\ (i - 1) + 1 = i
  OBVIOUS
<1>6. /\ 1 \in InfoAt(u) <=> m.type = "nPartitions" /\ m.txn = u
      /\ 1 \in RepliesAt(u) <=> m.type = "partReply" /\ m.txn = u
  BY <1>1, <1>2 DEF InfoAt, RepliesAt
<1>7. InfoFirst(u) => InfoFirst(u)'
  <2> SUFFICES ASSUME InfoFirst(u), NEW i \in InfoAt(u)', NEW j \in (InfoAt(u) \cup RepliesAt(u))',
                      j # i
               PROVE  i < j
    BY DEF InfoFirst
  <2>1. i \in 1 .. (n - 1) /\ j \in 1 .. (n - 1)
    BY <1>3
  <2>2. i + 1 \in InfoAt(u) /\ j + 1 \in InfoAt(u) \cup RepliesAt(u) /\ j + 1 # i + 1
    BY <1>4, <2>1
  <2>3. i + 1 < j + 1
    BY <2>2 DEF InfoFirst
  <2> QED BY <2>1, <2>3
<1>8. ASSUME m.type = "nPartitions", m.txn = u, InfoFirst(u)
      PROVE  m \in InfoMsgs(u) /\ InfoMsgs(u)' = {}
  <2>1. 1 \in InfoAt(u)
    BY <1>6, <1>8
  <2>2. \A i \in InfoAt(u) : i = 1
    BY <1>3, <1>8, <2>1 DEF InfoFirst
  <2>3. InfoAt(u)' = {}
    BY <1>3, <1>4, <2>2
  <2> QED BY <1>2, <2>1, <2>3 DEF InfoMsgs
<1>9. ASSUME ~(m.type = "nPartitions" /\ m.txn = u)
      PROVE  InfoMsgs(u)' = InfoMsgs(u)
  <2>1. InfoAt(u) \subseteq 2 .. n
    BY <1>3, <1>6, <1>9
  <2>2. \A k \in InfoMsgs(u) : k \in InfoMsgs(u)'
    <3> SUFFICES ASSUME NEW i \in InfoAt(u) PROVE commitChan[i] \in InfoMsgs(u)'
      BY DEF InfoMsgs
    <3>1. i \in 2 .. n
      BY <2>1
    <3>2. i - 1 \in InfoAt(u)' /\ commitChan'[i - 1] = commitChan[i]
      BY <1>2, <1>4, <1>5, <3>1
    <3> QED BY <3>2 DEF InfoMsgs
  <2>3. \A k \in InfoMsgs(u)' : k \in InfoMsgs(u)
    <3> SUFFICES ASSUME NEW i \in InfoAt(u)' PROVE commitChan'[i] \in InfoMsgs(u)
      BY DEF InfoMsgs
    <3>1. i \in 1 .. (n - 1)
      BY <1>3
    <3>2. i + 1 \in InfoAt(u) /\ commitChan'[i] = commitChan[i + 1]
      BY <1>2, <1>4, <3>1
    <3> QED BY <3>2 DEF InfoMsgs
  <2> QED BY <2>2, <2>3
<1>10. IsFiniteSet(RepliesAt(u)) /\ NReplied(u) \in Nat /\ (NReplied(u) = 0 <=> RepliesAt(u) = {})
  BY CommitChanType
<1>11. PICK S : S = RepliesAt(u) \ {1}
  OBVIOUS
<1>12. PICK T : T = RepliesAt(u)'
  OBVIOUS
<1>13. Cardinality(T) = Cardinality(S)
  <2>1. S \in SUBSET (2 .. n) /\ T \in SUBSET (1 .. n)
    BY <1>3, <1>11, <1>12
  <2>2. IsFiniteSet(S)
    BY <1>10, <1>11, FS_RemoveElement
  <2>3. ASSUME NEW i \in 1 .. n PROVE i \in T <=> i + 1 \in S
    <3>1. CASE i \in 1 .. (n - 1)
      BY <1>4, <1>11, <1>12, <3>1
    <3>2. CASE i = n
      BY <1>3, <1>11, <1>12, <3>2
    <3> QED BY <3>1, <3>2
  <2> QED BY <2>1, <2>2, <2>3, ShiftedCardinality
<1>14. NReplied(u)' = Cardinality(RepliesAt(u) \ {1})
  BY <1>11, <1>12, <1>13 DEF NReplied
<1>15. m.type = "partReply" /\ m.txn = u => NReplied(u) > 0 /\ NReplied(u)' = NReplied(u) - 1
  <2> SUFFICES ASSUME 1 \in RepliesAt(u)
               PROVE  NReplied(u) > 0 /\ NReplied(u)' = NReplied(u) - 1
    BY <1>6
  <2>1. NReplied(u) # 0
    BY <1>10
  <2>2. NReplied(u)' = NReplied(u) - 1
    BY <1>10, <1>14, FS_RemoveElement DEF NReplied
  <2> QED BY <1>10, <2>1, <2>2
<1>16. ~(m.type = "partReply" /\ m.txn = u) => NReplied(u)' = NReplied(u)
  BY <1>6, <1>10, <1>14, FS_RemoveElement DEF NReplied
<1> QED BY <1>7, <1>8, <1>9, <1>15, <1>16

-----------------------------------------------------------------------------
(* Where a commit is *)

AppliedAt(t) == {p \in Partitions : t \in db[p]}

Committing == {"commit", "done"}

Aborting == {"abort", "aborted"}

\* A transaction that p has applied is committed and p has nothing more to do for it.
AppliedOK(p, t) ==
    p \in AppliedAt(t) => /\ pc[t] \in Committing /\ p \in parts[t] /\ p \notin toSend[t]
                          /\ p \notin PreparedAt(t) /\ p \notin PendingAt(t) /\ HeldOf(p, t) = {}

\* A partition of a committed transaction has prepared it, holds its commit or has applied it.
CommitSomewhere(p, t) ==
    pc[t] \in Committing /\ p \in parts[t] =>
        p \in PreparedAt(t) \/ HeldOf(p, t) # {} \/ p \in AppliedAt(t)

\* A held commit still has its updates.
HeldHasUpdates(p, t) == HeldOf(p, t) # {} => p \in PendingAt(t)

\* The updates of an aborted transaction wait for the abort, which follows them.
AbortFollows(p, t) ==
    /\ pc[t] \in Aborting /\ p \notin toSend[t]
    /\ p \in PendingAt(t) \/ \E m \in Sent(p, t) : m.type = "write"
    => \E m \in Sent(p, t) : m.type = "abort"

StageOK(p, t) ==
    AppliedOK(p, t) /\ CommitSomewhere(p, t) /\ HeldHasUpdates(p, t) /\ AbortFollows(p, t)

StageInv == \A t \in Txns : \A p \in Partitions : StageOK(p, t)

\* How far the step of a goroutine moves a transaction u: a committed one stays what it is,
\* only a transaction that all its partitions have prepared commits, and an abort is sent to
\* every partition written.
Moves(u) ==
    /\ pc[u] \in Committing =>
          pc'[u] \in Committing /\ parts'[u] = parts[u] /\ toSend'[u] \subseteq toSend[u]
    /\ pc[u] \notin Committing /\ pc'[u] \in Committing => parts'[u] \subseteq PreparedAt(u)
    /\ \A p \in Partitions : pc'[u] \in Aborting /\ p \notin toSend'[u] =>
          \/ pc[u] \in Aborting /\ p \notin toSend[u] /\ Sent(p, u)' = Sent(p, u)
          \/ p \notin PendingAt(u) /\ ~ \E m \in Sent(p, u)' : m.type = "write"
          \/ \E m \in Sent(p, u)' : m.type = "abort"

\* A step that leaves the state of the partitions alone and moves every transaction so keeps
\* the facts.
LEMMA MovesStage ==
    ASSUME StageInv, UNCHANGED partVars, \A u \in Txns : Moves(u)
    PROVE  StageInv'
<1> SUFFICES ASSUME NEW t \in Txns, NEW p \in Partitions PROVE StageOK(p, t)'
  BY DEF StageInv
<1>1. /\ PreparedAt(t)' = PreparedAt(t) /\ PendingAt(t)' = PendingAt(t)
      /\ HeldOf(p, t)' = HeldOf(p, t)
  BY PartitionSame DEF partVars
<1>2. AppliedAt(t)' = AppliedAt(t)
  BY DEF AppliedAt, partVars
<1>3. /\ AppliedOK(p, t) /\ CommitSomewhere(p, t) /\ HeldHasUpdates(p, t) /\ AbortFollows(p, t)
      /\ Moves(t)
  BY DEF StageInv, StageOK
<1>4. AppliedOK(p, t)'
  BY <1>1, <1>2, <1>3 DEF AppliedOK, Moves
<1>5. CommitSomewhere(p, t)'
  BY <1>1, <1>2, <1>3 DEF CommitSomewhere, Moves
<1>6. HeldHasUpdates(p, t)'
  BY <1>1, <1>3 DEF HeldHasUpdates
<1>7. AbortFollows(p, t)'
  BY <1>1, <1>3 DEF AbortFollows, Moves
<1> QED BY <1>4, <1>5, <1>6, <1>7 DEF StageOK

\* A transaction of which only the phase changes, and not to an end
LEMMA QuietMoves ==
    ASSUME NEW u \in Txns, \A p \in Partitions : Sent(p, u)' = Sent(p, u) \/ pc'[u] \notin Aborting,
           \/ pc'[u] = pc[u] /\ parts'[u] = parts[u] /\ toSend'[u] = toSend[u]
           \/ pc[u] \notin Committing /\ pc'[u] \notin Committing \cup Aborting
    PROVE  Moves(u)
BY DEF Moves, Committing, Aborting

\* The requests of the clients move transactions so.
LEMMA ClientMoves ==
    ASSUME TypeInv, LifeInv, NEW t \in Txns, ClientStep(t)
    PROVE  \A u \in Txns : Moves(u)
<1>0. /\ pc \in [Txns -> Phases] /\ parts \in [Txns -> SUBSET Partitions]
      /\ toSend \in [Txns -> SUBSET Partitions]
  BY DEF TypeInv, TypeOK
<1>1. \A u \in Txns \ {t} : pc'[u] = pc[u] /\ parts'[u] = parts[u] /\ toSend'[u] = toSend[u]
  BY <1>0 DEF ClientStep, StartTxn, GetClockToUse, SingleRead, StaticUpdate, Read, Update, Commit,
              Abort, LostConn
<1>2. \A p \in Partitions : \A u \in Txns : Sent(p, u)' = Sent(p, u) \/ (SingleRead(t) /\ u = t)
  <2>1. CASE SingleRead(t)
    <3>1. PICK m : m = Request("singleRead", t, NewTimestamp)
      OBVIOUS
    <3>2. PICK q \in Partitions : SendRequest(q, m)
      BY <2>1, <3>1 DEF SingleRead
    <3>3. m \in MatRequest /\ m.txn = t
      BY <3>1, NewTimestampType DEF Request, MatRequest, TxnReqTypes
    <3> QED BY <2>1, <3>2, <3>3, SentAppends
  <2>2. CASE ~SingleRead(t)
    <3>1. channels' = channels
      BY <2>2 DEF ClientStep, StartTxn, StaticUpdate, Read, Update, Commit, Abort, LostConn, chanVars
    <3> QED BY <3>1 DEF Sent, Waiting
  <2> QED BY <2>1, <2>2
<1>3. \A u \in Txns \ {t} : Moves(u)
  BY <1>1, <1>2, QuietMoves
<1>4. CASE Abort(t)
  <2>1. /\ pc[t] = "active" /\ toSend'[t] = parts[t] /\ parts'[t] = parts[t]
        /\ pc'[t] \in Aborting
    BY <1>0, <1>4 DEF Abort, Aborting
  <2>2. pc'[t] \notin Committing /\ pc[t] \notin Committing
    BY <2>1 DEF Committing, Aborting
  <2>3. ~SingleRead(t)
    BY <2>1 DEF SingleRead
  <2>4. ASSUME NEW p \in Partitions, p \notin parts[t]
        PROVE  p \notin PendingAt(t) /\ ~ \E m \in Sent(p, t)' : m.type = "write"
    <3>1. SentOK(p, t) /\ PartOK(p, t) /\ Sent(p, t)' = Sent(p, t)
      BY <1>2, <2>3 DEF LifeInv, TxnOK
    <3> QED BY <2>4, <3>1 DEF SentOK, MsgOK, PartOK
  <2> QED BY <1>3, <2>1, <2>2, <2>4 DEF Moves
<1>5. CASE ~Abort(t)
  <2>1. pc[t] \in {"idle", "active"} /\ pc'[t] \notin Committing \cup Aborting
    BY <1>0, <1>5 DEF ClientStep, StartTxn, GetClockToUse, SingleRead, StaticUpdate, Read, Update,
                      Commit, LostConn, Committing, Aborting
  <2>2. pc[t] \notin Committing
    BY <2>1 DEF Committing
  <2>3. Moves(t)
    BY <2>1, <2>2, QuietMoves
  <2> QED BY <1>3, <2>3
<1> QED BY <1>4, <1>5

\* The steps of the goroutine of a transaction move it so.
LEMMA TxnMoves ==
    ASSUME TypeInv, LifeInv, NEW t \in Txns, TxnStep(t)
    PROVE  \A u \in Txns : Moves(u)
<1>0. /\ pc \in [Txns -> Phases] /\ parts \in [Txns -> SUBSET Partitions]
      /\ toSend \in [Txns -> SUBSET Partitions] /\ txnClk \in [Txns -> Clock]
      /\ maxTs \in [Txns -> Clock]
  BY DEF TypeInv, TypeOK
<1>1. /\ \A u \in Txns \ {t} : pc'[u] = pc[u] /\ toSend'[u] = toSend[u]
      /\ parts' = parts
  BY <1>0 DEF TxnStep, SendWaitClock, SendRead, SendToPartition, EndRead, EndSingleRead,
              ReceivePrepareReply, NotifyCommit
<1>2. ASSUME NEW q \in Partitions, SendRead(t, q)
      PROVE  \A u \in Txns : Moves(u)
  <2>1. PICK m : m = Request("read", t, txnClk[t])
    OBVIOUS
  <2>2. SendRequest(q, m) /\ m \in MatRequest /\ m.txn = t
    BY <1>0, <1>2, <2>1 DEF SendRead, Request, MatRequest, TxnReqTypes
  <2>3. \A p \in Partitions : \A u \in Txns \ {t} : Sent(p, u)' = Sent(p, u)
    BY <2>2, SentAppends
  <2>4. \A u \in Txns \ {t} : Moves(u)
    BY <1>1, <2>3, QuietMoves
  <2>5. pc[t] = "read" /\ pc'[t] = "read"
    BY <1>2 DEF SendRead
  <2>6. pc'[t] \notin Committing \cup Aborting /\ pc[t] \notin Committing
    BY <2>5 DEF Committing, Aborting
  <2>7. Moves(t)
    BY <2>6, QuietMoves
  <2> QED BY <2>4, <2>7
<1>3. ASSUME NEW q \in Partitions, SendToPartition(t, q)
      PROVE  \A u \in Txns : Moves(u)
  <2>1. PICK m : m = LoopRequest(t)
    OBVIOUS
  <2>2. pc[t] \in {"write", "prepare", "commit", "abort"} /\ SendRequest(q, m) /\ q \in toSend[t]
    BY <1>3, <2>1 DEF SendToPartition
  <2>3. m \in MatRequest /\ m.txn = t /\ (pc[t] = "abort" => m.type = "abort")
    BY <1>0, <2>1, <2>2, NewTimestampType DEF LoopRequest, Request, MatRequest, TxnReqTypes
  <2>4. /\ \A p \in Partitions : \A u \in Txns : p # q \/ u # t => Sent(p, u)' = Sent(p, u)
        /\ Sent(q, t)' = Sent(q, t) \cup {m}
    BY <2>2, <2>3, SentAppends
  <2>5. \A u \in Txns \ {t} : Moves(u)
    BY <1>1, <2>4, QuietMoves
  <2>6. /\ toSend'[t] = toSend[t] \ {q}
        /\ pc'[t] = pc[t] \/ pc'[t] = AfterLoop(t)
    BY <1>0, <1>3 DEF SendToPartition
  <2>7. /\ pc[t] \in Committing <=> pc'[t] \in Committing
        /\ pc[t] = "abort" <=> pc'[t] \in Aborting
    BY <2>2, <2>6 DEF AfterLoop, Committing, Aborting
  <2>8. ASSUME NEW p \in Partitions, pc[t] = "abort", p \notin toSend'[t]
        PROVE  \/ pc[t] \in Aborting /\ p \notin toSend[t] /\ Sent(p, t)' = Sent(p, t)
               \/ \E k \in Sent(p, t)' : k.type = "abort"
    <3>1. CASE p = q
      BY <2>3, <2>4, <2>8, <3>1
    <3>2. CASE p # q
      BY <2>4, <2>6, <2>8, <3>2 DEF Aborting
    <3> QED BY <3>1, <3>2
  <2>9. Moves(t)
    BY <1>1, <2>6, <2>7, <2>8 DEF Moves
  <2> QED BY <2>5, <2>9
<1>4. CASE \/ SendWaitClock(t) \/ EndRead(t) \/ EndSingleRead(t) \/ ReceivePrepareReply(t)
           \/ NotifyCommit(t)
  <2>1. channels' = channels
    BY <1>4 DEF SendWaitClock, EndRead, EndSingleRead, ReceivePrepareReply, NotifyCommit, chanVars
  <2>2. \A p \in Partitions : \A u \in Txns : Sent(p, u)' = Sent(p, u)
    BY <2>1 DEF Sent, Waiting
  <2>3. \A u \in Txns \ {t} : Moves(u)
    BY <1>1, <2>2, QuietMoves
  <2>4. CASE SendWaitClock(t) \/ ReceivePrepareReply(t)
    <3>1. pc[t] \in {"wait", "prepare"} /\ pc'[t] \in {"blocked", "prepare"}
      BY <1>0, <2>4 DEF SendWaitClock, ReceivePrepareReply
    <3>2. pc[t] \notin Committing /\ pc'[t] \notin Committing \cup Aborting
      BY <3>1 DEF Committing, Aborting
    <3> QED BY <2>2, <2>3, <3>2, QuietMoves
  <2>5. CASE EndRead(t) \/ EndSingleRead(t)
    <3>1. /\ pc[t] \in {"read", "single"} /\ pc'[t] \in {"done", "active"}
          /\ pc'[t] = "done" => t \in StaticReaders \/ pc[t] = "single"
      BY <1>0, <2>5 DEF EndRead, EndSingleRead
    <3>2. KindOK(t)
      BY DEF LifeInv, TxnOK
    <3>3. pc'[t] = "done" => parts[t] = {}
      BY <3>1, <3>2, ManagerConstants DEF KindOK
    <3>4. pc[t] \notin Committing /\ pc'[t] \notin Aborting /\ (pc'[t] \in Committing => pc'[t] = "done")
      BY <3>1 DEF Committing, Aborting
    <3>5. Moves(t)
      BY <1>1, <3>3, <3>4 DEF Moves
    <3> QED BY <2>3, <3>5
  <2>6. CASE NotifyCommit(t)
    <3>1. /\ pc[t] = "prepare" /\ toSend[t] = {} /\ nReplies[t] = Cardinality(parts[t])
          /\ pc'[t] \in {"done", "commit"}
      BY <1>0, <2>6 DEF NotifyCommit
    <3>2. PreparedAt(t) = parts[t]
      BY <3>1, AllPrepared DEF LifeInv
    <3>3. pc[t] \notin Committing /\ pc'[t] \notin Aborting
      BY <3>1 DEF Committing, Aborting
    <3>4. Moves(t)
      BY <1>1, <3>2, <3>3 DEF Moves
    <3> QED BY <2>3, <3>4
  <2> QED BY <1>4, <2>4, <2>5, <2>6
<1> QED BY <1>2, <1>3, <1>4 DEF TxnStep

\* handleCommitReplies moves a transaction only by answering its wait for a clock.
LEMMA RepliesPhases ==
    ASSUME TypeInv, WaitInv, CommitReplies
    PROVE  /\ UNCHANGED <<channels, replyChan, readChan, parts, toSend, reading, maxTs>>
           /\ \A u \in Txns : pc'[u] = pc[u] \/ (pc[u] = "blocked" /\ pc'[u] = "active")
           /\ \A u \in Txns : pc[u] # "blocked" => txnClk'[u] = txnClk[u]
<1>1. UNCHANGED <<channels, replyChan, readChan, parts, toSend, reading, maxTs>>
  BY DEF CommitReplies, HandleCommitNPartitions, HandlePartCommitReply, HandleWaitClock,
         NotifyWaiting, FlushStacked, chanVars, txnVars
<1>2. CASE NotifyWaiting /\ FirstIsReady
  <2>1. PICK t : t = waitingTMs[1].txn
    OBVIOUS
  <2>2. 1 \in 1 .. Len(waitingTMs)
    BY <1>2, WaitersType DEF FirstIsReady
  <2>3. t \in Txns /\ pc[t] = "blocked"
    BY <2>1, <2>2, WaitersType DEF WaitInv, WaitersOnce
  <2>4. pc' = [pc EXCEPT ![t] = "active"] /\ txnClk' = [txnClk EXCEPT ![t] = notifyClk]
    BY <1>2, <2>1 DEF NotifyWaiting
  <2>5. /\ pc'[t] = "active"
        /\ \A u \in Txns \ {t} : pc'[u] = pc[u] /\ txnClk'[u] = txnClk[u]
    BY <2>3, <2>4 DEF TypeInv, TypeOK
  <2> QED BY <1>1, <2>3, <2>5
<1>3. CASE NotifyWaiting /\ ~FirstIsReady
  BY <1>1, <1>3 DEF NotifyWaiting
<1>4. CASE HandleCommitNPartitions \/ HandlePartCommitReply \/ HandleWaitClock \/ FlushStacked
  BY <1>1, <1>4 DEF HandleCommitNPartitions, HandlePartCommitReply, HandleWaitClock, FlushStacked,
                    txnVars
<1> QED BY <1>2, <1>3, <1>4 DEF CommitReplies

\* So it moves the transactions as above, too.
LEMMA RepliesMoves ==
    ASSUME TypeInv, WaitInv, CommitReplies
    PROVE  \A u \in Txns : Moves(u)
<1>1. /\ UNCHANGED <<channels, parts, toSend>>
      /\ \A u \in Txns : pc'[u] = pc[u] \/ (pc[u] = "blocked" /\ pc'[u] = "active")
  BY RepliesPhases
<1>2. \A p \in Partitions : \A u \in Txns : Sent(p, u)' = Sent(p, u)
  BY <1>1 DEF Sent, Waiting
<1>3. \A u \in Txns : \/ pc'[u] = pc[u]
                      \/ pc[u] \notin Committing /\ pc'[u] \notin Committing \cup Aborting
  BY <1>1 DEF Committing, Aborting
<1> QED BY <1>1, <1>2, <1>3, QuietMoves

\* So does a request for the safe clock.
LEMMA SafeClkMoves ==
    ASSUME TypeInv, NEW q \in Partitions, RequestSafeClk(q)
    PROVE  \A u \in Txns : Moves(u)
<1>1. PICK m : m = Request("safeClk", NoTxn, NewTimestamp)
  OBVIOUS
<1>2. m \in MatRequest /\ m.txn \notin Txns /\ SendRequest(q, m)
  BY <1>1, NewTimestampType, MaterializerConstants DEF RequestSafeClk, Request, MatRequest
<1>3. \A u \in Txns : \A p \in Partitions : Sent(p, u)' = Sent(p, u)
  BY <1>2, SentAppends
<1>4. UNCHANGED <<pc, parts, toSend>>
  BY DEF RequestSafeClk, txnVars
<1> QED BY <1>3, <1>4, QuietMoves

\* What a partition and the channels know of a transaction at p
SameHere(p, u) ==
    /\ p \in PreparedAt(u)' <=> p \in PreparedAt(u)
    /\ p \in PendingAt(u)' <=> p \in PendingAt(u)
    /\ p \in AppliedAt(u)' <=> p \in AppliedAt(u)
    /\ HeldOf(p, u)' = HeldOf(p, u)

\* The facts about a transaction at a partition do not change with others.
LEMMA SameHereKeeps ==
    ASSUME NEW u \in Txns, NEW p \in Partitions, StageOK(p, u), SameHere(p, u),
           UNCHANGED <<pc, parts, toSend>>, Sent(p, u)' = Sent(p, u)
    PROVE  StageOK(p, u)'
<1> USE DEF StageOK, SameHere
<1>1. AppliedOK(p, u)'
  BY DEF AppliedOK
<1>2. CommitSomewhere(p, u)'
  BY DEF CommitSomewhere
<1>3. HeldHasUpdates(p, u)' /\ AbortFollows(p, u)'
  BY DEF HeldHasUpdates, AbortFollows
<1> QED BY <1>1, <1>2, <1>3

\* When q serves a request of t, the facts about t at q are left to show.
LEMMA ServeStage ==
    ASSUME TypeInv, LifeInv, StageInv, NEW q \in Partitions, NEW type, Takes(q, type),
           NEW t \in Txns, t = Head(channels[q]).txn, UNCHANGED <<pc, parts, toSend>>,
           \A u \in Txns : \A p \in Partitions : u # t \/ p # q => SameHere(p, u),
           StageOK(q, t)'
    PROVE  StageInv'
<1>1. \A p \in Partitions : \A u \in Txns : p # q \/ u # t => Sent(p, u)' = Sent(p, u)
  BY SentTaken DEF LifeInv
<1>2. \A u \in Txns : \A p \in Partitions : u # t \/ p # q => StageOK(p, u)'
  BY <1>1, SameHereKeeps DEF StageInv
<1> QED BY <1>2 DEF StageInv

\* A transaction that prepares: handleMatStaticWrite and handleMatPrepare
LEMMA PrepareStage ==
    ASSUME TypeInv, LifeInv, StageInv, NEW q \in Partitions,
           HandleMatStaticWrite(q) \/ HandleMatPrepare(q), UNCHANGED <<pc, parts, toSend>>
    PROVE  StageInv'
<1>1. PICK m, t, type : m = Head(channels[q]) /\ t = m.txn /\ type = m.type
  OBVIOUS
<1>2. Takes(q, type) /\ type \in {"staticWrite", "prepare"}
  BY <1>1 DEF HandleMatStaticWrite, HandleMatPrepare, Takes
<1>3. t \in Txns
  BY <1>1, <1>2, TakesType DEF TypeInv, TypeOK
<1>4. m \in Sent(q, t)
  BY <1>1, <1>2, <1>3, SentTaken DEF LifeInv
<1>5. pc[t] = "prepare"
  <2>1. MsgOK(m, q, t)
    BY <1>3, <1>4 DEF LifeInv, TxnOK, SentOK
  <2> QED BY <1>1, <1>2, <2>1 DEF MsgOK
<1>6. UNCHANGED <<commitsOnHold, db>>
  BY DEF HandleMatStaticWrite, HandleMatPrepare
<1>7. /\ \A u \in Txns : AppliedAt(u)' = AppliedAt(u)
      /\ \A u \in Txns : \A p \in Partitions : HeldOf(p, u)' = HeldOf(p, u)
  BY <1>6 DEF AppliedAt, HeldOf
<1>8. PICK time \in now .. MaxTime : PrepareClock(q, t, time)
  BY <1>1 DEF HandleMatStaticWrite, HandleMatPrepare
<1>9. time \in Nat
  BY MaterializerConstants DEF TypeInv, TypeOK, MatTypeOK
<1>10. /\ PreparedAt(t)' = PreparedAt(t) \cup {q}
       /\ \A u \in Txns \ {t} : PreparedAt(u)' = PreparedAt(u)
  BY <1>3, <1>8, <1>9, PrepareClockEffect
<1>11. /\ \A u \in Txns : \A p \in Partitions : u # t \/ p # q => (p \in PendingAt(u)' <=> p \in PendingAt(u))
       /\ q \in PendingAt(t) => q \in PendingAt(t)'
  <2>1. pendingOps \in [Partitions -> SUBSET Txns]
    BY DEF TypeInv, TypeOK, MatTypeOK
  <2>2. pendingOps' = pendingOps \/ pendingOps' = [pendingOps EXCEPT ![q] = pendingOps[q] \cup {t}]
    BY <1>1 DEF HandleMatStaticWrite, HandleMatPrepare
  <2> QED BY <2>1, <2>2 DEF PendingAt
<1>12. \A u \in Txns : \A p \in Partitions : u # t \/ p # q => SameHere(p, u)
  BY <1>7, <1>10, <1>11 DEF SameHere
<1>13. StageOK(q, t)'
  <2>1. AppliedOK(q, t) /\ HeldHasUpdates(q, t)
    BY <1>3 DEF StageInv, StageOK
  <2>2. pc'[t] \notin Committing /\ pc'[t] \notin Aborting
    BY <1>5 DEF Committing, Aborting
  <2>3. q \notin AppliedAt(t)'
    BY <1>3, <1>7, <2>1, <2>2 DEF AppliedOK
  <2>4. HeldHasUpdates(q, t)'
    BY <1>3, <1>7, <1>11, <2>1 DEF HeldHasUpdates
  <2> QED BY <2>2, <2>3, <2>4 DEF StageOK, AppliedOK, CommitSomewhere, AbortFollows
<1> QED BY <1>1, <1>2, <1>3, <1>12, <1>13, ServeStage

\* handleMatWrite: the updates become pending; an abort that follows them is still there.
LEMMA WriteStage ==
    ASSUME TypeInv, LifeInv, StageInv, NEW q \in Partitions, HandleMatWrite(q),
           UNCHANGED <<pc, parts, toSend>>
    PROVE  StageInv'
<1>1. PICK m, t : m = Head(channels[q]) /\ t = m.txn
  OBVIOUS
<1>2. /\ Takes(q, "write") /\ UNCHANGED <<prepClks, commitsOnHold, db>>
      /\ pendingOps' = [pendingOps EXCEPT ![q] = pendingOps[q] \cup {t}]
  BY <1>1 DEF HandleMatWrite
<1>3. t \in Txns
  BY <1>1, <1>2, TakesType DEF TypeInv, TypeOK
<1>4. /\ m \in Sent(q, t) /\ m.type = "write"
      /\ \A k \in Sent(q, t) : k = m \/ k \in Sent(q, t)'
  BY <1>1, <1>2, <1>3, SentTaken DEF LifeInv
<1>5. pc[t] \notin Committing
  <2>1. MsgOK(m, q, t)
    BY <1>3, <1>4 DEF LifeInv, TxnOK, SentOK
  <2> QED BY <1>4, <2>1 DEF MsgOK, Committing
<1>6. /\ \A u \in Txns : AppliedAt(u)' = AppliedAt(u) /\ PreparedAt(u)' = PreparedAt(u)
      /\ \A u \in Txns : \A p \in Partitions : HeldOf(p, u)' = HeldOf(p, u)
  BY <1>2 DEF AppliedAt, HeldOf, PreparedAt, IsPrepared
<1>7. /\ \A u \in Txns : \A p \in Partitions : u # t \/ p # q => (p \in PendingAt(u)' <=> p \in PendingAt(u))
      /\ q \in PendingAt(t)'
  <2>1. pendingOps \in [Partitions -> SUBSET Txns]
    BY DEF TypeInv, TypeOK, MatTypeOK
  <2> QED BY <1>2, <1>3, <2>1 DEF PendingAt
<1>8. \A u \in Txns : \A p \in Partitions : u # t \/ p # q => SameHere(p, u)
  BY <1>6, <1>7 DEF SameHere
<1>9. StageOK(q, t)'
  <2>1. AppliedOK(q, t) /\ AbortFollows(q, t)
    BY <1>3 DEF StageInv, StageOK
  <2>2. q \notin AppliedAt(t)'
    BY <1>3, <1>5, <1>6, <2>1 DEF AppliedOK
  <2>3. AbortFollows(q, t)'
    BY <1>4, <2>1 DEF AbortFollows
  <2> QED BY <1>5, <1>7, <2>2, <2>3 DEF StageOK, AppliedOK, CommitSomewhere, HeldHasUpdates
<1> QED BY <1>1, <1>2, <1>3, <1>8, <1>9, ServeStage

\* handleMatAbort: nothing of the aborted transaction is left at q.
LEMMA AbortStage ==
    ASSUME TypeInv, LifeInv, StageInv, NEW q \in Partitions, HandleMatAbort(q),
           UNCHANGED <<pc, parts, toSend>>
    PROVE  StageInv'
<1>1. PICK m, t : m = Head(channels[q]) /\ t = m.txn
  OBVIOUS
<1>2. /\ Takes(q, "abort") /\ UNCHANGED <<prepClks, commitsOnHold, db>>
      /\ pendingOps' = [pendingOps EXCEPT ![q] = pendingOps[q] \ {t}]
  BY <1>1 DEF HandleMatAbort
<1>3. t \in Txns
  BY <1>1, <1>2, TakesType DEF TypeInv, TypeOK
<1>4. m \in Sent(q, t) /\ m.type = "abort" /\ Sent(q, t)' = {}
  BY <1>1, <1>2, <1>3, SentTaken DEF LifeInv
<1>5. pc[t] \notin Committing /\ HeldOf(q, t) = {}
  <2>1. MsgOK(m, q, t) /\ PartOK(q, t)
    BY <1>3, <1>4 DEF LifeInv, TxnOK, SentOK
  <2>2. pc[t] \notin Committing
    BY <1>4, <2>1 DEF MsgOK, Committing
  <2> QED BY <2>1, <2>2 DEF PartOK, Committing
<1>6. /\ \A u \in Txns : AppliedAt(u)' = AppliedAt(u) /\ PreparedAt(u)' = PreparedAt(u)
      /\ \A u \in Txns : \A p \in Partitions : HeldOf(p, u)' = HeldOf(p, u)
  BY <1>2 DEF AppliedAt, HeldOf, PreparedAt, IsPrepared
<1>7. /\ \A u \in Txns : \A p \in Partitions : u # t \/ p # q => (p \in PendingAt(u)' <=> p \in PendingAt(u))
      /\ q \notin PendingAt(t)'
  <2>1. pendingOps \in [Partitions -> SUBSET Txns]
    BY DEF TypeInv, TypeOK, MatTypeOK
  <2> QED BY <1>2, <1>3, <2>1 DEF PendingAt
<1>8. \A u \in Txns : \A p \in Partitions : u # t \/ p # q => SameHere(p, u)
  BY <1>6, <1>7 DEF SameHere
<1>9. StageOK(q, t)'
  <2>1. AppliedOK(q, t)
    BY <1>3 DEF StageInv, StageOK
  <2>2. q \notin AppliedAt(t)' /\ HeldOf(q, t)' = {}
    BY <1>3, <1>5, <1>6, <2>1 DEF AppliedOK
  <2> QED BY <1>4, <1>5, <1>7, <2>2
          DEF StageOK, AppliedOK, CommitSomewhere, HeldHasUpdates, AbortFollows
<1> QED BY <1>1, <1>2, <1>3, <1>8, <1>9, ServeStage

\* Reads and requests for the safe clock change nothing that commits depend on.
LEMMA ReadStage ==
    ASSUME TypeInv, LifeInv, StageInv, NEW q \in Partitions,
           HandleMatRead(q) \/ HandleMatStaticSingleRead(q) \/ HandleMatSafeClk(q),
           UNCHANGED <<pc, parts, toSend>>
    PROVE  StageInv'
<1>1. PICK m, t, type : m = Head(channels[q]) /\ t = m.txn /\ type = m.type
  OBVIOUS
<1>2. Takes(q, type) /\ type \in {"read", "singleRead", "safeClk"}
  BY <1>1 DEF HandleMatRead, HandleMatStaticSingleRead, HandleMatSafeClk, Takes
<1>3. UNCHANGED <<prepClks, pendingOps, commitsOnHold, db>>
  BY DEF HandleMatRead, HandleMatStaticSingleRead, HandleMatSafeClk, partVars
<1>4. \A u \in Txns : \A p \in Partitions : SameHere(p, u)
  BY <1>3, PartitionSame DEF SameHere, AppliedAt
<1>5. CASE t \in Txns
  <2>1. m \in Sent(q, t) /\ Sent(q, t)' = {} /\ t = m.txn
    BY <1>1, <1>2, <1>5, SentTaken DEF LifeInv
  <2>2. MsgOK(m, q, t)
    BY <1>5, <2>1 DEF LifeInv, TxnOK, SentOK
  <2>3. m.type \in TxnReqTypes
    BY <1>5, <2>1, SentType
  <2>4. pc[t] \notin Aborting
    BY <1>1, <1>2, <2>2, <2>3 DEF MsgOK, Aborting, TxnReqTypes
  <2>5. StageOK(q, t)'
    <3>1. StageOK(q, t) /\ SameHere(q, t)
      BY <1>4, <1>5 DEF StageInv
    <3>2. AppliedOK(q, t)' /\ CommitSomewhere(q, t)' /\ HeldHasUpdates(q, t)'
      BY <3>1 DEF StageOK, SameHere, AppliedOK, CommitSomewhere, HeldHasUpdates
    <3> QED BY <2>4, <3>2 DEF StageOK, AbortFollows
  <2> QED BY <1>1, <1>2, <1>4, <1>5, <2>5, ServeStage
<1>6. CASE t \notin Txns
  <2>1. \A p \in Partitions : \A u \in Txns : Sent(p, u)' = Sent(p, u)
    BY <1>1, <1>2, <1>6, SentTaken DEF LifeInv
  <2> QED BY <1>4, <2>1, SameHereKeeps DEF StageInv
<1> QED BY <1>5, <1>6

\* q applies the commit of t, for the first time, and tells handleCommitReplies.
AppliesAt(q, t) ==
    /\ pc[t] \in Committing /\ q \in parts[t] /\ q \notin AppliedAt(t)
    /\ q \in AppliedAt(t)'
    /\ \A u \in Txns : \A p \in Partitions :
          u # t \/ p # q => (p \in AppliedAt(u)' <=> p \in AppliedAt(u))
    /\ stableClk' = [stableClk EXCEPT ![q] = Merge(stableClk[q], maxTs[t])]
    /\ commitChan' = Append(commitChan, [type |-> "partReply", txn |-> t, n |-> 0,
                                         clk |-> NewTimestamp])

\* applyCommit does so for a transaction with its updates at q.
LEMMA ApplyEffect ==
    ASSUME TypeInv, NEW q \in Partitions, NEW t \in Txns, NEW clk, clk = maxTs[t],
           ApplyCommit(q, t, clk), t \in pendingOps[q], pc[t] \in Committing, q \in parts[t],
           q \notin AppliedAt(t)
    PROVE  AppliesAt(q, t)
<1>1. db \in [Partitions -> SUBSET Txns]
  BY DEF TypeInv, TypeOK, MatTypeOK
<1>2. /\ db' = [db EXCEPT ![q] = db[q] \cup ({t} \cap pendingOps[q])]
      /\ stableClk' = [stableClk EXCEPT ![q] = Merge(stableClk[q], clk)]
      /\ commitChan' = Append(commitChan, [type |-> "partReply", txn |-> t, n |-> 0,
                                           clk |-> NewTimestamp])
  BY DEF ApplyCommit
<1>3. /\ db'[q] = db[q] \cup {t}
      /\ \A p \in Partitions \ {q} : db'[p] = db[p]
  BY <1>1, <1>2
<1>4. /\ q \in AppliedAt(t)'
      /\ \A u \in Txns : \A p \in Partitions :
            u # t \/ p # q => (p \in AppliedAt(u)' <=> p \in AppliedAt(u))
  BY <1>3 DEF AppliedAt
<1> QED BY <1>2, <1>4 DEF AppliesAt

\* handleMatCommit applies the commit of a prepared transaction or holds it.
LEMMA CommitStage ==
    ASSUME TypeInv, LifeInv, StageInv, NEW q \in Partitions, HandleMatCommit(q),
           UNCHANGED <<pc, parts, toSend>>
    PROVE  /\ StageInv'
           /\ (\E t \in Txns : AppliesAt(q, t)) \/ UNCHANGED <<db, stableClk, commitChan>>
<1>1. PICK t \in Txns, clk \in Clock :
              /\ t = Head(channels[q]).txn /\ clk = maxTs[t]
              /\ q \in PreparedAt(t) /\ t \in pendingOps[q] /\ q \in parts[t]
              /\ pc[t] \in {"commit", "done"} /\ q \notin toSend[t]
              /\ prepClks' = [prepClks EXCEPT ![q] = {e \in prepClks[q] : e.txn # t}]
              /\ \/ ApplyCommit(q, t, clk) /\ UNCHANGED commitsOnHold
                 \/ HoldCommit(q, t, clk)
  BY CommitTaken
<1>2. Takes(q, "commit") /\ pc[t] \in Committing /\ pc[t] \notin Aborting
  BY <1>1 DEF HandleMatCommit, Committing, Aborting
<1>3. /\ q \notin PreparedAt(t)'
      /\ \A u \in Txns : \A p \in Partitions : u # t \/ p # q => (p \in PreparedAt(u)' <=> p \in PreparedAt(u))
  BY <1>1, RemovePrepareEffect
<1>4. HeldOf(q, t) = {} /\ q \notin AppliedAt(t)
  <2>1. PartOK(q, t) /\ AppliedOK(q, t)
    BY DEF LifeInv, TxnOK, StageInv, StageOK
  <2> QED BY <1>1, <2>1 DEF PartOK, AppliedOK
<1>5. CASE ApplyCommit(q, t, clk) /\ UNCHANGED commitsOnHold
  <2>1. AppliesAt(q, t)
    BY <1>1, <1>2, <1>4, <1>5, ApplyEffect
  <2>2. /\ q \notin PendingAt(t)'
        /\ \A u \in Txns : \A p \in Partitions : u # t \/ p # q => (p \in PendingAt(u)' <=> p \in PendingAt(u))
    BY <1>5, ApplyCommitPending
  <2>3. \A u \in Txns : \A p \in Partitions : HeldOf(p, u)' = HeldOf(p, u)
    BY <1>5 DEF HeldOf
  <2>4. \A u \in Txns : \A p \in Partitions : u # t \/ p # q => SameHere(p, u)
    BY <1>3, <2>1, <2>2, <2>3 DEF SameHere, AppliesAt
  <2>5. q \in AppliedAt(t)' /\ HeldOf(q, t)' = {}
    BY <1>4, <2>1, <2>3 DEF AppliesAt
  <2>6. StageOK(q, t)'
    BY <1>1, <1>2, <1>3, <2>2, <2>5
    DEF StageOK, AppliedOK, CommitSomewhere, HeldHasUpdates, AbortFollows
  <2>7. StageInv'
    BY <1>1, <1>2, <2>4, <2>6, ServeStage
  <2> QED BY <2>1, <2>7
<1>6. CASE HoldCommit(q, t, clk)
  <2>1. commitsOnHold \in [Partitions -> SUBSET TxnClkPair]
    BY DEF TypeInv, TypeOK, MatTypeOK
  <2>2. PICK pair : pair = [txn |-> t, clk |-> clk]
    OBVIOUS
  <2>3. /\ commitsOnHold'[q] = commitsOnHold[q] \cup {pair} /\ pair.txn = t
        /\ \A p \in Partitions \ {q} : commitsOnHold'[p] = commitsOnHold[p]
    BY <1>6, <2>1, <2>2 DEF HoldCommit
  <2>4. /\ \A u \in Txns : \A p \in Partitions : u # t \/ p # q => HeldOf(p, u)' = HeldOf(p, u)
        /\ HeldOf(q, t)' # {}
    BY <2>3 DEF HeldOf
  <2>5. UNCHANGED <<db, stableClk, commitChan, pendingOps>>
    BY <1>6 DEF HoldCommit
  <2>6. \A u \in Txns : PendingAt(u)' = PendingAt(u) /\ AppliedAt(u)' = AppliedAt(u)
    BY <2>5 DEF PendingAt, AppliedAt
  <2>7. \A u \in Txns : \A p \in Partitions : u # t \/ p # q => SameHere(p, u)
    BY <1>3, <2>4, <2>6 DEF SameHere
  <2>8. q \in PendingAt(t)' /\ q \notin AppliedAt(t)'
    BY <1>1, <1>4, <2>6 DEF PendingAt
  <2>9. StageOK(q, t)'
    BY <1>2, <2>4, <2>8
    DEF StageOK, AppliedOK, CommitSomewhere, HeldHasUpdates, AbortFollows
  <2>10. StageInv'
    BY <1>1, <1>2, <2>7, <2>9, ServeStage
  <2> QED BY <2>5, <2>10
<1> QED BY <1>1, <1>5, <1>6

\* checkHoldCommits applies a held commit or leaves.
LEMMA CheckHoldStage ==
    ASSUME TypeInv, LifeInv, StageInv, NEW q \in Partitions, CheckHoldCommits(q),
           UNCHANGED <<pc, parts, toSend>>
    PROVE  /\ StageInv'
           /\ (\E t \in Txns : AppliesAt(q, t)) \/ UNCHANGED <<db, stableClk, commitChan>>
<1>1. UNCHANGED <<channels, prepClks>>
  BY DEF CheckHoldCommits
<1>2. /\ \A u \in Txns : \A p \in Partitions : Sent(p, u)' = Sent(p, u)
      /\ \A u \in Txns : PreparedAt(u)' = PreparedAt(u)
  BY <1>1 DEF Sent, Waiting, PreparedAt, IsPrepared
<1>3. CASE UNCHANGED <<commitsOnHold, db, stableClk, pendingOps, commitChan>>
  <2>1. \A u \in Txns : \A p \in Partitions : SameHere(p, u)
    BY <1>2, <1>3 DEF SameHere, PendingAt, AppliedAt, HeldOf
  <2>2. StageInv'
    BY <1>2, <2>1, SameHereKeeps DEF StageInv
  <2> QED BY <1>3, <2>2
<1>4. ASSUME NEW h \in commitsOnHold[q], ApplyCommit(q, h.txn, h.clk),
             commitsOnHold' = [commitsOnHold EXCEPT ![q] = commitsOnHold[q] \ {h}]
      PROVE  StageInv' /\ \E t \in Txns : AppliesAt(q, t)
  <2>1. commitsOnHold \in [Partitions -> SUBSET TxnClkPair]
    BY DEF TypeInv, TypeOK, MatTypeOK
  <2>2. PICK t : t = h.txn
    OBVIOUS
  <2>3. t \in Txns /\ h \in HeldOf(q, t)
    BY <1>4, <2>1, <2>2 DEF TxnClkPair, HeldOf
  <2>4. PartOK(q, t) /\ StageOK(q, t) /\ KindOK(t)
    BY <2>3 DEF LifeInv, TxnOK, StageInv
  <2>5. /\ pc[t] \in Committing /\ pc[t] \notin Aborting /\ q \in parts[t] /\ q \notin toSend[t]
        /\ q \notin PreparedAt(t) /\ \A g \in HeldOf(q, t) : g.clk = maxTs[t]
    BY <2>3, <2>4 DEF PartOK, Committing, Aborting
  <2>6. t \in pendingOps[q] /\ q \notin AppliedAt(t)
    BY <2>3, <2>4 DEF StageOK, HeldHasUpdates, AppliedOK, PendingAt
  <2>7. AppliesAt(q, t)
    <3>1. h.clk = maxTs[t] /\ ApplyCommit(q, t, h.clk)
      BY <1>4, <2>2, <2>3, <2>5
    <3> QED BY <2>3, <2>5, <2>6, <3>1, ApplyEffect
  <2>8. /\ q \notin PendingAt(t)'
        /\ \A u \in Txns : \A p \in Partitions : u # t \/ p # q => (p \in PendingAt(u)' <=> p \in PendingAt(u))
    BY <1>4, <2>2, <2>3, ApplyCommitPending
  <2>9. /\ commitsOnHold'[q] = commitsOnHold[q] \ {h}
        /\ \A p \in Partitions \ {q} : commitsOnHold'[p] = commitsOnHold[p]
    BY <1>4, <2>1
  <2>10. \A u \in Txns : \A p \in Partitions : u # t \/ p # q => HeldOf(p, u)' = HeldOf(p, u)
    BY <2>2, <2>9 DEF HeldOf
  <2>11. HeldOf(q, t)' = {}
    <3> SUFFICES ASSUME NEW g \in HeldOf(q, t)' PROVE FALSE
      OBVIOUS
    <3>1. g \in HeldOf(q, t) /\ g # h
      BY <2>9 DEF HeldOf
    <3>2. g \in TxnClkPair /\ h \in TxnClkPair /\ g.txn = h.txn /\ g.clk = h.clk
      BY <2>1, <2>3, <2>5, <3>1 DEF HeldOf
    <3> QED BY <3>1, <3>2 DEF TxnClkPair
  <2>12. \A u \in Txns : \A p \in Partitions : u # t \/ p # q => SameHere(p, u)
    BY <1>2, <2>7, <2>8, <2>10 DEF SameHere, AppliesAt
  <2>13. StageOK(q, t)'
    BY <1>2, <2>3, <2>5, <2>7, <2>8, <2>11
    DEF StageOK, AppliedOK, CommitSomewhere, HeldHasUpdates, AbortFollows, AppliesAt
  <2>14. \A u \in Txns : \A p \in Partitions : u # t \/ p # q => StageOK(p, u)'
    BY <1>2, <2>12, SameHereKeeps DEF StageInv
  <2> QED BY <2>3, <2>7, <2>13, <2>14 DEF StageInv
<1> QED BY <1>3, <1>4 DEF CheckHoldCommits, HeapRoots

\* What the step of a partition does to the databases
LEMMA PartitionStage ==
    ASSUME TypeInv, LifeInv, StageInv, NEW q \in Partitions, Partition(q)
    PROVE  /\ StageInv'
           /\ (\E t \in Txns : AppliesAt(q, t)) \/ UNCHANGED <<db, stableClk, commitChan>>
<1>1. PartitionStep(q) /\ UNCHANGED <<pc, parts, toSend>>
  BY DEF Partition, txnVars
<1>2. CASE HandleMatCommit(q) \/ CheckHoldCommits(q)
  BY <1>1, <1>2, CommitStage, CheckHoldStage
<1>3. CASE \/ HandleMatStaticWrite(q) \/ HandleMatPrepare(q) \/ HandleMatWrite(q)
           \/ HandleMatAbort(q) \/ HandleMatRead(q) \/ HandleMatStaticSingleRead(q)
           \/ HandleMatSafeClk(q)
  <2>1. UNCHANGED <<db, stableClk, commitChan>>
    BY <1>3 DEF HandleMatStaticWrite, HandleMatPrepare, HandleMatWrite, HandleMatAbort,
                HandleMatRead, HandleMatStaticSingleRead, HandleMatSafeClk, partVars
  <2> QED BY <1>1, <1>3, <2>1, PrepareStage, WriteStage, AbortStage, ReadStage, SMTT(60)
<1> QED BY <1>1, <1>2, <1>3 DEF PartitionStep

-----------------------------------------------------------------------------
(* The countdown of handleCommitReplies *)

\* The clock has been merged into localClock, or waits in the stacked clock for it.
Covered(c) == IsLowerOrEqual(c, localClock) \/ (nStacked > 0 /\ IsLowerOrEqual(c, stackedClk))

\* handleCommitReplies is done with a committed transaction.
Completed(t) == pc[t] \in Committing /\ t \notin tracked /\ InfoMsgs(t) = {}

\* Nothing is said about a transaction that has not committed, or only reads.
NotCounted(t) ==
    pc[t] \notin Committing \/ t \in StaticReaders =>
        t \notin tracked /\ InfoMsgs(t) = {} /\ NReplied(t) = 0

\* While it counts down, what is left are the partitions that have not applied the commit and
\* the replies not yet taken.
TrackedOK(t) ==
    t \in tracked =>
        /\ InfoMsgs(t) = {} /\ txnToClk[t] = maxTs[t]
        /\ txnWaitFor[t] = Cardinality(parts[t]) - Cardinality(AppliedAt(t)) + NReplied(t)

\* Before it begins, every partition that has applied the commit has a reply in the channel,
\* behind the number of partitions.
InfoOK(t) ==
    /\ InfoFirst(t)
    /\ \A m \in InfoMsgs(t) :
          m.n = Cardinality(parts[t]) /\ m.clk = maxTs[t] /\ NReplied(t) = Cardinality(AppliedAt(t))

\* When it is over all have applied the commit, and its clock is not lost.
CompletedOK(t) ==
    Completed(t) => AppliedAt(t) = parts[t] /\ NReplied(t) = 0 /\ Covered(maxTs[t])

ReplyOK(t) ==
    /\ NotCounted(t) /\ TrackedOK(t) /\ InfoOK(t) /\ CompletedOK(t)
    /\ t \in StaticReaders => maxTs[t] = NewTimestamp

ReplyInv == \A t \in Txns : ReplyOK(t)

\* What a step may do to a transaction that handleCommitReplies does not advance: keep its
\* commit, or end a read.
SameCount(u) ==
    /\ pc[u] \in Committing => pc'[u] \in Committing /\ parts'[u] = parts[u] /\ maxTs'[u] = maxTs[u]
    /\ pc[u] \notin Committing /\ pc'[u] \in Committing => u \in StaticReaders
    /\ u \in StaticReaders => maxTs'[u] = maxTs[u] /\ parts'[u] = {}
    /\ InfoMsgs(u)' = InfoMsgs(u) /\ NReplied(u)' = NReplied(u) /\ InfoFirst(u)'
    /\ u \in tracked' <=> u \in tracked
    /\ txnToClk'[u] = txnToClk[u] /\ txnWaitFor'[u] = txnWaitFor[u]

\* No clock that localClock or the stacked clock has reached is lost.
ClocksKept == \A c \in Clock : Covered(c) => Covered(c)'

\* The facts about a transaction that is only kept do not change.
LEMMA SameCountKeeps ==
    ASSUME TypeInv, TypeInv', NEW u \in Txns, ReplyOK(u), \A p \in Partitions : StageOK(p, u),
           SameCount(u), AppliedAt(u)' = AppliedAt(u), ClocksKept
    PROVE  ReplyOK(u)'
<1>0. maxTs[u] \in Clock /\ localClock' \in Clock
  BY DEF TypeInv, TypeOK
<1>1. /\ NotCounted(u) /\ TrackedOK(u) /\ InfoOK(u) /\ CompletedOK(u)
      /\ u \in StaticReaders => maxTs[u] = NewTimestamp
  BY DEF ReplyOK
<1>2. NotCounted(u)'
  BY <1>1 DEF NotCounted, SameCount
<1>3. u \in tracked \/ InfoMsgs(u) # {} => pc[u] \in Committing
  BY <1>1 DEF NotCounted
<1>4. TrackedOK(u)'
  BY <1>1, <1>3 DEF TrackedOK, SameCount
<1>5. InfoOK(u)'
  BY <1>1, <1>3 DEF InfoOK, SameCount
<1>6. CompletedOK(u)'
  <2>1. CASE pc[u] \in Committing
    <3>1. Completed(u)' => Completed(u)
      BY <2>1 DEF Completed, SameCount
    <3>2. Covered(maxTs[u]) => Covered(maxTs[u])'
      BY <1>0, <2>1 DEF ClocksKept, Covered, SameCount
    <3> QED BY <1>1, <2>1, <3>1, <3>2 DEF CompletedOK, SameCount
  <2>2. CASE pc[u] \notin Committing
    <3> SUFFICES ASSUME Completed(u)'
                 PROVE  AppliedAt(u)' = parts'[u] /\ NReplied(u)' = 0 /\ Covered(maxTs[u])'
      BY DEF CompletedOK
    <3>1. u \in StaticReaders
      BY <2>2 DEF Completed, SameCount
    <3>2. parts'[u] = {} /\ maxTs'[u] = NewTimestamp /\ NReplied(u)' = 0
      BY <1>1, <3>1 DEF SameCount, NotCounted
    <3>3. AppliedAt(u) = {}
      <4> SUFFICES ASSUME NEW p \in AppliedAt(u) PROVE FALSE
        OBVIOUS
      <4>1. p \in Partitions
        BY DEF AppliedAt
      <4> QED BY <2>2, <4>1 DEF StageOK, AppliedOK
    <3>4. Covered(maxTs[u])'
      BY <1>0, <3>2 DEF Covered, IsLowerOrEqual, NewTimestamp, Clock
    <3> QED BY <3>2, <3>3, <3>4
  <2> QED BY <2>1, <2>2
<1>7. u \in StaticReaders => maxTs'[u] = NewTimestamp
  BY <1>1 DEF SameCount
<1> QED BY <1>2, <1>4, <1>5, <1>6, <1>7 DEF ReplyOK

\* The goroutines of the transactions commit only in NotifyCommit.
LEMMA TxnCounts ==
    ASSUME TypeInv, LifeInv, NEW t \in Txns, TxnStep(t) \/ ClientStep(t), ~NotifyCommit(t)
    PROVE  \A u \in Txns :
              /\ pc[u] \in Committing => maxTs'[u] = maxTs[u]
              /\ pc[u] \notin Committing /\ pc'[u] \in Committing => u \in StaticReaders
              /\ u \in StaticReaders => maxTs'[u] = maxTs[u]
<1>0. pc \in [Txns -> Phases] /\ maxTs \in [Txns -> Clock] /\ KindOK(t)
  BY DEF TypeInv, TypeOK, LifeInv, TxnOK
<1>1. ASSUME ClientStep(t)
      PROVE  /\ maxTs' = maxTs /\ \A u \in Txns \ {t} : pc'[u] = pc[u]
             /\ pc'[t] \notin Committing
  <2>1. maxTs' = maxTs /\ \A u \in Txns \ {t} : pc'[u] = pc[u]
    BY <1>0, <1>1 DEF ClientStep, StartTxn, GetClockToUse, SingleRead, StaticUpdate, Read, Update,
                      Commit, Abort, LostConn
  <2>2. pc'[t] \notin {"commit", "done"}
    BY <1>0, <1>1 DEF ClientStep, StartTxn, GetClockToUse, SingleRead, StaticUpdate, Read, Update,
                      Commit, Abort, LostConn
  <2> QED BY <2>1, <2>2 DEF Committing
<1>2. CASE ReceivePrepareReply(t)
  <2>1. /\ pc[t] = "prepare" /\ pc' = pc
        /\ \A u \in Txns \ {t} : maxTs'[u] = maxTs[u]
    BY <1>0, <1>2 DEF ReceivePrepareReply
  <2>2. pc[t] \notin Committing /\ t \notin StaticReaders
    BY <1>0, <2>1 DEF Committing, KindOK
  <2> QED BY <2>1, <2>2
<1>3. CASE \/ SendWaitClock(t) \/ EndRead(t) \/ EndSingleRead(t)
           \/ \E p \in Partitions : SendRead(t, p) \/ SendToPartition(t, p)
  <2>1. maxTs' = maxTs /\ \A u \in Txns \ {t} : pc'[u] = pc[u]
    BY <1>0, <1>3 DEF SendWaitClock, EndRead, EndSingleRead, SendRead, SendToPartition
  <2>2. pc[t] \notin Committing /\ pc'[t] \in Committing => t \in StaticReaders
    <3>1. CASE SendWaitClock(t) \/ \E p \in Partitions : SendRead(t, p)
      BY <1>0, <3>1 DEF SendWaitClock, SendRead, Committing
    <3>2. CASE EndRead(t)
      BY <1>0, <3>2 DEF EndRead, Committing
    <3>3. CASE EndSingleRead(t)
      BY <1>0, <3>3, ManagerConstants DEF EndSingleRead, KindOK
    <3>4. CASE \E p \in Partitions : SendToPartition(t, p)
      <4>1. /\ pc[t] \in {"write", "prepare", "commit", "abort"}
            /\ pc'[t] = pc[t] \/ pc'[t] = AfterLoop(t)
        BY <1>0, <3>4 DEF SendToPartition
      <4> QED BY <4>1 DEF AfterLoop, Committing
    <3> QED BY <1>3, <3>1, <3>2, <3>3, <3>4
  <2> QED BY <2>1, <2>2
<1> QED BY <1>1, <1>2, <1>3 DEF TxnStep

\* They tell handleCommitReplies nothing else, except that they wait for a clock.
LEMMA TxnChan ==
    ASSUME NEW t \in Txns, TxnStep(t) \/ ClientStep(t), ~NotifyCommit(t)
    PROVE  /\ UNCHANGED <<localClock, tracked, txnToClk, txnWaitFor, stackedClk, nStacked>>
           /\ SendWaitClock(t) \/ commitChan' = commitChan
<1>1. CASE ClientStep(t)
  BY <1>1 DEF ClientStep, StartTxn, SingleRead, StaticUpdate, Read, Update, Commit, Abort, LostConn,
              chanVars, crVars
<1>2. CASE TxnStep(t)
  BY <1>2 DEF TxnStep, SendWaitClock, SendRead, SendToPartition, EndRead, EndSingleRead,
              ReceivePrepareReply, chanVars, crVars
<1> QED BY <1>1, <1>2

\* Their steps keep the countdown.
LEMMA TxnReplies ==
    ASSUME TypeInv, TypeInv', LifeInv, LifeInv', StageInv, ReplyInv, NEW t \in Txns,
           TxnStep(t) \/ ClientStep(t), ~NotifyCommit(t)
    PROVE  ReplyInv'
<1>1. /\ UNCHANGED <<localClock, tracked, txnToClk, txnWaitFor, stackedClk, nStacked>>
      /\ SendWaitClock(t) \/ commitChan' = commitChan
  BY TxnChan
<1>2. \A u \in Txns : InfoMsgs(u)' = InfoMsgs(u) /\ NReplied(u)' = NReplied(u) /\ InfoFirst(u)'
  <2>0. \A u \in Txns : InfoFirst(u)
    BY DEF ReplyInv, ReplyOK, InfoOK
  <2>1. CASE SendWaitClock(t)
    <3>1. PICK m : m = [type |-> "wait", txn |-> t, n |-> 0, clk |-> txnClk[t]]
      OBVIOUS
    <3>2. m \in CommitInfo /\ m.type = "wait" /\ commitChan' = Append(commitChan, m)
      BY <2>1, <3>1 DEF SendWaitClock, CommitInfo, TypeInv, TypeOK
    <3> QED BY <2>0, <3>2, ChanAppend
  <2>2. CASE commitChan' = commitChan
    BY <2>0, <2>2 DEF InfoMsgs, InfoAt, NReplied, RepliesAt, InfoFirst
  <2> QED BY <1>1, <2>1, <2>2
<1>3. \A u \in Txns : Moves(u)
  BY ClientMoves, TxnMoves
<1>4. \A u \in Txns : u \in StaticReaders => parts'[u] = {}
  BY DEF LifeInv, TxnOK, KindOK
<1>5. \A u \in Txns : SameCount(u)
  BY <1>1, <1>2, <1>3, <1>4, TxnCounts DEF SameCount, Moves
<1>6. \A u \in Txns : AppliedAt(u)' = AppliedAt(u)
  BY OtherSteps DEF partVars, AppliedAt
<1>7. ClocksKept
  BY <1>1 DEF ClocksKept, Covered
<1> QED BY <1>5, <1>6, <1>7, SameCountKeeps DEF ReplyInv, StageInv

\* A transaction that commits tells handleCommitReplies the number of its partitions, none of
\* which has applied it.
LEMMA NotifyReplies ==
    ASSUME TypeInv, TypeInv', LifeInv, LifeInv', StageInv, ReplyInv, NEW t \in Txns, NotifyCommit(t)
    PROVE  ReplyInv'
<1>0. TxnStep(t) /\ pc \in [Txns -> Phases]
  BY DEF TxnStep, TypeInv, TypeOK
<1>1. PICK m : m = NPartitionsInfo(t)
  OBVIOUS
<1>2. /\ pc[t] = "prepare" /\ toSend[t] = {} /\ nReplies[t] = Cardinality(parts[t])
      /\ commitChan' = Append(commitChan, m)
      /\ UNCHANGED <<parts, maxTs, localClock, tracked, txnToClk, txnWaitFor, stackedClk, nStacked>>
  BY <1>1 DEF NotifyCommit, crVars
<1>3. /\ m \in CommitInfo /\ m.type = "nPartitions" /\ m.txn = t /\ m.clk = maxTs[t]
      /\ m.n = Cardinality(parts[t])
  BY <1>1, <1>2 DEF NPartitionsInfo, CommitInfo, TypeInv, TypeOK
<1>4. pc'[t] \in Committing /\ \A u \in Txns \ {t} : pc'[u] = pc[u]
  BY <1>0 DEF NotifyCommit, Committing
<1>5. t \notin StaticReaders /\ pc[t] \notin Committing
  <2>1. KindOK(t)
    BY DEF LifeInv, TxnOK
  <2> QED BY <1>2, <2>1 DEF KindOK, Committing
<1>6. \A u \in Txns : AppliedAt(u)' = AppliedAt(u)
  BY <1>0, OtherSteps DEF partVars, AppliedAt
<1>7. ClocksKept
  BY <1>2 DEF ClocksKept, Covered
<1>8. \A u \in Txns \ {t} : SameCount(u)
  <2> SUFFICES ASSUME NEW u \in Txns \ {t} PROVE SameCount(u)
    OBVIOUS
  <2>1. InfoFirst(u) /\ (u \in StaticReaders => parts'[u] = {})
    BY DEF ReplyInv, ReplyOK, InfoOK, LifeInv, TxnOK, KindOK
  <2>2. InfoMsgs(u)' = InfoMsgs(u) /\ NReplied(u)' = NReplied(u) /\ InfoFirst(u)'
    BY <1>2, <1>3, <2>1, ChanAppend
  <2> QED BY <1>2, <1>4, <2>1, <2>2 DEF SameCount
<1>9. \A u \in Txns \ {t} : ReplyOK(u)'
  BY <1>6, <1>7, <1>8, SameCountKeeps DEF ReplyInv, StageInv
<1>10. ReplyOK(t)'
  <2>1. t \notin tracked /\ InfoMsgs(t) = {} /\ NReplied(t) = 0
    BY <1>5 DEF ReplyInv, ReplyOK, NotCounted
  <2>2. InfoMsgs(t)' = {m} /\ InfoFirst(t)' /\ NReplied(t)' = 0
    BY <1>2, <1>3, <2>1, ChanAppend
  <2>3. AppliedAt(t) = {}
    <3> SUFFICES ASSUME NEW p \in AppliedAt(t) PROVE FALSE
      OBVIOUS
    <3>1. p \in Partitions
      BY DEF AppliedAt
    <3> QED BY <1>5, <3>1 DEF StageInv, StageOK, AppliedOK
  <2>4. Cardinality(AppliedAt(t)') = 0
    BY <1>6, <2>3, FS_EmptySet
  <2>5. NotCounted(t)' /\ TrackedOK(t)' /\ CompletedOK(t)'
    BY <1>2, <1>4, <1>5, <2>1, <2>2 DEF NotCounted, TrackedOK, CompletedOK, Completed
  <2>6. InfoOK(t)'
    BY <1>2, <1>3, <2>2, <2>4 DEF InfoOK
  <2> QED BY <1>5, <2>5, <2>6 DEF ReplyOK
<1> QED BY <1>9, <1>10 DEF ReplyInv

\* A partition that applies a commit adds one to both sides of the countdown.
LEMMA PartitionReplies ==
    ASSUME TypeInv, TypeInv', LifeInv, StageInv, ReplyInv, NEW q \in Partitions, Partition(q)
    PROVE  ReplyInv'
<1>1. UNCHANGED <<pc, parts, maxTs, localClock, tracked, txnToClk, txnWaitFor, stackedClk, nStacked>>
  BY DEF Partition, txnVars, crVars
<1>2. ClocksKept
  BY <1>1 DEF ClocksKept, Covered
<1>3. \A u \in Txns : InfoFirst(u) /\ (u \in StaticReaders => parts[u] = {})
  BY DEF ReplyInv, ReplyOK, InfoOK, LifeInv, TxnOK, KindOK
<1>4. CASE UNCHANGED <<db, stableClk, commitChan>>
  <2>1. \A u \in Txns : /\ InfoMsgs(u)' = InfoMsgs(u) /\ NReplied(u)' = NReplied(u) /\ InfoFirst(u)'
                        /\ AppliedAt(u)' = AppliedAt(u)
    BY <1>3, <1>4 DEF InfoMsgs, InfoAt, NReplied, RepliesAt, InfoFirst, AppliedAt
  <2>2. \A u \in Txns : SameCount(u)
    BY <1>1, <1>3, <2>1 DEF SameCount
  <2> QED BY <1>2, <2>1, <2>2, SameCountKeeps DEF ReplyInv, StageInv
<1>5. ASSUME NEW t \in Txns, AppliesAt(q, t)
      PROVE  ReplyInv'
  <2>1. PICK m : m = [type |-> "partReply", txn |-> t, n |-> 0, clk |-> NewTimestamp]
    OBVIOUS
  <2>2. m \in CommitInfo /\ m.type = "partReply" /\ m.txn = t /\ commitChan' = Append(commitChan, m)
    BY <1>5, <2>1, NewTimestampType DEF AppliesAt, CommitInfo
  <2>3. \A u \in Txns : InfoMsgs(u)' = InfoMsgs(u) /\ InfoFirst(u)'
    BY <1>3, <2>2, ChanAppend
  <2>4. NReplied(t)' = NReplied(t) + 1 /\ \A u \in Txns \ {t} : NReplied(u)' = NReplied(u)
    BY <2>2, ChanAppend
  <2>5. /\ AppliedAt(t)' = AppliedAt(t) \cup {q}
        /\ \A u \in Txns \ {t} : AppliedAt(u)' = AppliedAt(u)
    BY <1>5 DEF AppliesAt, AppliedAt
  <2>6. \A u \in Txns \ {t} : SameCount(u)
    BY <1>1, <1>3, <2>3, <2>4 DEF SameCount
  <2>7. \A u \in Txns \ {t} : ReplyOK(u)'
    BY <1>2, <2>5, <2>6, SameCountKeeps DEF ReplyInv, StageInv
  <2>8. ReplyOK(t)'
    <3>1. /\ NotCounted(t) /\ TrackedOK(t) /\ InfoOK(t) /\ CompletedOK(t)
          /\ t \in StaticReaders => maxTs[t] = NewTimestamp
      BY DEF ReplyInv, ReplyOK
    <3>2. /\ pc[t] \in Committing /\ q \in parts[t] /\ q \notin AppliedAt(t)
          /\ t \notin StaticReaders
      BY <1>3, <1>5 DEF AppliesAt
    <3>3. Cardinality(AppliedAt(t)') = Cardinality(AppliedAt(t)) + 1
      <4>1. AppliedAt(t) \in SUBSET Partitions
        BY DEF AppliedAt
      <4> QED BY <2>5, <3>2, <4>1, PartitionSets
    <3>4. Cardinality(AppliedAt(t)) \in Nat /\ Cardinality(parts[t]) \in Nat /\ NReplied(t) \in Nat
      <4>1. AppliedAt(t) \in SUBSET Partitions /\ parts[t] \in SUBSET Partitions
        BY DEF AppliedAt, TypeInv, TypeOK
      <4> QED BY <4>1, PartitionSets, CommitChanType
    <3>5. NotCounted(t)'
      BY <1>1, <3>2 DEF NotCounted
    <3>6. TrackedOK(t)'
      BY <1>1, <2>3, <2>4, <3>1, <3>3, <3>4 DEF TrackedOK
    <3>7. InfoOK(t)'
      BY <1>1, <2>3, <2>4, <3>1, <3>3, <3>4 DEF InfoOK
    <3>8. ~Completed(t)'
      <4>1. ~Completed(t)
        BY <3>1, <3>2 DEF CompletedOK
      <4> QED BY <1>1, <2>3, <4>1 DEF Completed
    <3> QED BY <3>2, <3>5, <3>6, <3>7, <3>8 DEF ReplyOK, CompletedOK
  <2> QED BY <2>7, <2>8 DEF ReplyInv
<1> QED BY <1>4, <1>5, PartitionStage

\* Merge reaches both clocks, and what they have reached.
LEMMA MergeReaches ==
    ASSUME NEW a \in Clock, NEW b \in Clock
    PROVE  /\ IsLowerOrEqual(a, Merge(a, b)) /\ IsLowerOrEqual(b, Merge(a, b))
           /\ \A c \in Clock : IsLowerOrEqual(c, a) \/ IsLowerOrEqual(c, b)
                                  => IsLowerOrEqual(c, Merge(a, b))
<1>1. \A r \in Replicas : /\ a[r] \in Nat /\ b[r] \in Nat /\ a[r] <= Merge(a, b)[r]
                          /\ b[r] <= Merge(a, b)[r] /\ Merge(a, b)[r] \in Nat
  BY DEF Merge, Clock
<1>2. \A c \in Clock : \A r \in Replicas : c[r] \in Nat
  BY DEF Clock
<1> QED BY <1>1, <1>2 DEF IsLowerOrEqual

\* What handleCommitReplies takes from its channel
LEMMA InfoTaken ==
    ASSUME TypeInv, ReplyInv, NEW type, TakesInfo(type)
    PROVE  \E m \in CommitInfo :
              /\ m = Head(commitChan) /\ m.type = type
              /\ \A u \in Txns : InfoFirst(u)'
              /\ type = "nPartitions" => m \in InfoMsgs(m.txn) /\ InfoMsgs(m.txn)' = {}
              /\ \A u \in Txns : type # "nPartitions" \/ u # m.txn => InfoMsgs(u)' = InfoMsgs(u)
              /\ type = "partReply" =>
                    NReplied(m.txn) > 0 /\ NReplied(m.txn)' = NReplied(m.txn) - 1
              /\ \A u \in Txns : type # "partReply" \/ u # m.txn => NReplied(u)' = NReplied(u)
<1>1. PICK m : m = Head(commitChan)
  OBVIOUS
<1>2. commitChan # <<>> /\ commitChan' = Tail(commitChan) /\ m.type = type
  BY <1>1 DEF TakesInfo
<1>3. m \in CommitInfo
  BY <1>1, <1>2, CommitChanType, TailFacts
<1>4. m.txn \in Txns
  BY <1>3 DEF CommitInfo
<1>5. \A u \in Txns : InfoFirst(u)
  BY DEF ReplyInv, ReplyOK, InfoOK
<1> QED BY <1>1, <1>2, <1>3, <1>4, <1>5, ChanTail

\* The countdown of a transaction begins.
LEMMA NPartitionsReplies ==
    ASSUME TypeInv, TypeInv', LifeInv, StageInv, ReplyInv, HandleCommitNPartitions
    PROVE  ReplyInv'
<1>0. /\ tracked \subseteq Txns /\ txnToClk \in [Txns -> Clock] /\ txnWaitFor \in [Txns -> Int]
  BY DEF TypeInv, TypeOK
<1>1. TakesInfo("nPartitions")
  BY DEF HandleCommitNPartitions
<1>2. PICK m \in CommitInfo :
              /\ m = Head(commitChan)
              /\ \A u \in Txns : InfoFirst(u)'
              /\ m \in InfoMsgs(m.txn) /\ InfoMsgs(m.txn)' = {}
              /\ \A u \in Txns : u # m.txn => InfoMsgs(u)' = InfoMsgs(u)
              /\ \A u \in Txns : NReplied(u)' = NReplied(u)
  BY <1>1, InfoTaken
<1>3. PICK t : t = m.txn
  OBVIOUS
<1>4. t \in Txns
  BY <1>3 DEF CommitInfo
<1>5. /\ tracked' = tracked \cup {t} /\ txnToClk' = [txnToClk EXCEPT ![t] = m.clk]
      /\ txnWaitFor' = [txnWaitFor EXCEPT ![t] = m.n]
      /\ UNCHANGED <<partVars, pc, parts, maxTs, localClock, stackedClk, nStacked>>
  BY <1>2, <1>3 DEF HandleCommitNPartitions, txnVars
<1>6. \A u \in Txns : AppliedAt(u)' = AppliedAt(u)
  BY <1>5 DEF partVars, AppliedAt
<1>7. ClocksKept
  BY <1>5 DEF ClocksKept, Covered
<1>8. \A u \in Txns \ {t} : SameCount(u)
  <2>1. \A u \in Txns : u \in StaticReaders => parts[u] = {}
    BY DEF LifeInv, TxnOK, KindOK
  <2> QED BY <1>0, <1>2, <1>3, <1>5, <2>1 DEF SameCount
<1>9. \A u \in Txns \ {t} : ReplyOK(u)'
  BY <1>6, <1>7, <1>8, SameCountKeeps DEF ReplyInv, StageInv
<1>10. ReplyOK(t)'
  <2>1. /\ NotCounted(t) /\ TrackedOK(t) /\ InfoOK(t) /\ CompletedOK(t)
        /\ t \in StaticReaders => maxTs[t] = NewTimestamp
    BY <1>4 DEF ReplyInv, ReplyOK
  <2>2. m \in InfoMsgs(t) /\ InfoMsgs(t)' = {} /\ NReplied(t)' = NReplied(t) /\ InfoFirst(t)'
    BY <1>2, <1>3, <1>4
  <2>3. /\ m.n = Cardinality(parts[t]) /\ m.clk = maxTs[t]
        /\ NReplied(t) = Cardinality(AppliedAt(t))
        /\ pc[t] \in Committing /\ t \notin StaticReaders
    BY <2>1, <2>2 DEF InfoOK, NotCounted
  <2>4. t \in tracked' /\ txnToClk'[t] = maxTs[t] /\ txnWaitFor'[t] = Cardinality(parts[t])
    BY <1>0, <1>4, <1>5, <2>3
  <2>5. Cardinality(AppliedAt(t)) \in Nat /\ Cardinality(parts[t]) \in Nat
    <3>1. AppliedAt(t) \in SUBSET Partitions /\ parts[t] \in SUBSET Partitions
      BY <1>4 DEF AppliedAt, TypeInv, TypeOK
    <3> QED BY <3>1, PartitionSets
  <2>6. TrackedOK(t)'
    BY <1>4, <1>5, <1>6, <2>2, <2>3, <2>4, <2>5 DEF TrackedOK
  <2>7. NotCounted(t)' /\ InfoOK(t)' /\ CompletedOK(t)'
    BY <1>5, <2>2, <2>3, <2>4 DEF NotCounted, InfoOK, CompletedOK, Completed
  <2> QED BY <2>3, <2>6, <2>7 DEF ReplyOK
<1> QED BY <1>9, <1>10 DEF ReplyInv

\* One partition less to wait for; the last one completes the transaction.
LEMMA PartReplyReplies ==
    ASSUME TypeInv, TypeInv', LifeInv, StageInv, ReplyInv, HandlePartCommitReply
    PROVE  ReplyInv'
<1>0. /\ tracked \subseteq Txns /\ txnToClk \in [Txns -> Clock] /\ txnWaitFor \in [Txns -> Int]
      /\ maxTs \in [Txns -> Clock] /\ localClock \in Clock /\ stackedClk \in Clock /\ nStacked \in Nat
  BY DEF TypeInv, TypeOK
<1>1. TakesInfo("partReply")
  BY DEF HandlePartCommitReply
<1>2. PICK m \in CommitInfo :
              /\ m = Head(commitChan)
              /\ \A u \in Txns : InfoFirst(u)'
              /\ \A u \in Txns : InfoMsgs(u)' = InfoMsgs(u)
              /\ NReplied(m.txn) > 0 /\ NReplied(m.txn)' = NReplied(m.txn) - 1
              /\ \A u \in Txns : u # m.txn => NReplied(u)' = NReplied(u)
  BY <1>1, InfoTaken
<1>3. PICK t : t = m.txn
  OBVIOUS
<1>4. t \in Txns
  BY <1>3 DEF CommitInfo
<1>5. PICK clk : clk = txnToClk[t]
  OBVIOUS
<1>6. /\ t \in tracked /\ txnWaitFor' = [txnWaitFor EXCEPT ![t] = txnWaitFor[t] - 1]
      /\ UNCHANGED <<partVars, pc, parts, maxTs, txnToClk>>
  BY <1>2, <1>3 DEF HandlePartCommitReply, txnVars
<1>7. \/ /\ txnWaitFor[t] # 1 /\ UNCHANGED <<tracked, localClock, stackedClk, nStacked>>
      \/ /\ txnWaitFor[t] = 1 /\ tracked' = tracked \ {t} /\ UNCHANGED localClock
         /\ stackedClk' = (IF nStacked = 0 THEN clk ELSE Merge(stackedClk, clk))
         /\ nStacked' = nStacked + 1
      \/ /\ txnWaitFor[t] = 1 /\ tracked' = tracked \ {t} /\ localClock' = Merge(localClock, clk)
         /\ UNCHANGED <<stackedClk, nStacked>>
  BY <1>2, <1>3, <1>5 DEF HandlePartCommitReply, AdvanceLocalClock
<1>8. /\ NotCounted(t) /\ TrackedOK(t) /\ InfoOK(t) /\ CompletedOK(t)
      /\ t \in StaticReaders => maxTs[t] = NewTimestamp
  BY <1>4 DEF ReplyInv, ReplyOK
<1>9. /\ clk = maxTs[t] /\ clk \in Clock /\ InfoMsgs(t) = {} /\ pc[t] \in Committing
      /\ t \notin StaticReaders
      /\ txnWaitFor[t] = Cardinality(parts[t]) - Cardinality(AppliedAt(t)) + NReplied(t)
  BY <1>0, <1>4, <1>5, <1>6, <1>8 DEF TrackedOK, NotCounted
<1>10. ClocksKept /\ (t \notin tracked' => Covered(clk)')
  <2>1. CASE UNCHANGED <<tracked, localClock, stackedClk, nStacked>>
    BY <1>6, <2>1 DEF ClocksKept, Covered
  <2>2. CASE /\ UNCHANGED localClock /\ nStacked' = nStacked + 1
             /\ stackedClk' = (IF nStacked = 0 THEN clk ELSE Merge(stackedClk, clk))
    <3>1. nStacked' > 0
      BY <1>0, <2>2
    <3>2. nStacked > 0 => stackedClk' = Merge(stackedClk, clk)
      BY <2>2
    <3>3. IsLowerOrEqual(clk, stackedClk')
      <4>1. CASE nStacked = 0
        BY <1>9, <2>2, <4>1 DEF IsLowerOrEqual, Clock
      <4>2. CASE nStacked # 0
        BY <1>0, <1>9, <2>2, <4>2, MergeReaches
      <4> QED BY <4>1, <4>2
    <3>4. \A c \in Clock : nStacked > 0 /\ IsLowerOrEqual(c, stackedClk)
                              => IsLowerOrEqual(c, stackedClk')
      BY <1>0, <1>9, <3>2, MergeReaches
    <3> QED BY <2>2, <3>1, <3>3, <3>4 DEF ClocksKept, Covered
  <2>3. CASE localClock' = Merge(localClock, clk) /\ UNCHANGED <<stackedClk, nStacked>>
    <3>1. /\ IsLowerOrEqual(clk, localClock')
          /\ \A c \in Clock : IsLowerOrEqual(c, localClock) => IsLowerOrEqual(c, localClock')
      BY <1>0, <1>9, <2>3, MergeReaches
    <3> QED BY <2>3, <3>1 DEF ClocksKept, Covered
  <2> QED BY <1>7, <2>1, <2>2, <2>3
<1>11. \A u \in Txns : AppliedAt(u)' = AppliedAt(u)
  BY <1>6 DEF partVars, AppliedAt
<1>12. \A u \in Txns \ {t} : SameCount(u)
  <2>1. \A u \in Txns : u \in StaticReaders => parts[u] = {}
    BY DEF LifeInv, TxnOK, KindOK
  <2>2. \A u \in Txns \ {t} : u \in tracked' <=> u \in tracked
    BY <1>7
  <2>3. \A u \in Txns \ {t} : txnWaitFor'[u] = txnWaitFor[u]
    BY <1>0, <1>6
  <2> QED BY <1>2, <1>3, <1>6, <2>1, <2>2, <2>3 DEF SameCount
<1>13. \A u \in Txns \ {t} : ReplyOK(u)'
  BY <1>10, <1>11, <1>12, SameCountKeeps DEF ReplyInv, StageInv
<1>14. ReplyOK(t)'
  <2>1. /\ InfoMsgs(t)' = {} /\ InfoFirst(t)' /\ NReplied(t) > 0 /\ NReplied(t)' = NReplied(t) - 1
        /\ NReplied(t) \in Nat
    BY <1>2, <1>3, <1>4, <1>9, CommitChanType
  <2>2. AppliedAt(t) \in SUBSET parts[t]
    <3> SUFFICES ASSUME NEW p \in AppliedAt(t) PROVE p \in parts[t]
      OBVIOUS
    <3>1. p \in Partitions
      BY DEF AppliedAt
    <3> QED BY <1>4, <3>1 DEF StageInv, StageOK, AppliedOK
  <2>3. /\ Cardinality(AppliedAt(t)) \in Nat /\ Cardinality(parts[t]) \in Nat
        /\ Cardinality(AppliedAt(t)) <= Cardinality(parts[t])
        /\ Cardinality(parts[t]) = Cardinality(AppliedAt(t)) => parts[t] = AppliedAt(t)
    <3>1. parts[t] \in SUBSET Partitions
      BY <1>4 DEF TypeInv, TypeOK
    <3> QED BY <2>2, <3>1, PartitionSets
  <2>4. txnWaitFor'[t] = txnWaitFor[t] - 1
    BY <1>0, <1>4, <1>6
  <2>5. NotCounted(t)' /\ InfoOK(t)'
    BY <1>6, <1>9, <2>1 DEF NotCounted, InfoOK
  <2>6. TrackedOK(t)'
    <3>1. Cardinality(AppliedAt(t))' = Cardinality(AppliedAt(t)) /\ parts'[t] = parts[t]
      BY <1>4, <1>6, <1>11
    <3>2. /\ txnToClk'[t] = maxTs'[t]
          /\ txnWaitFor'[t] = Cardinality(parts[t]) - Cardinality(AppliedAt(t)) + NReplied(t)'
      BY <1>5, <1>6, <1>9, <2>1, <2>3, <2>4
    <3> QED BY <2>1, <3>1, <3>2 DEF TrackedOK
  <2>7. CompletedOK(t)'
    <3> SUFFICES ASSUME t \notin tracked'
                 PROVE  AppliedAt(t)' = parts'[t] /\ NReplied(t)' = 0 /\ Covered(maxTs[t])'
      BY DEF CompletedOK, Completed
    <3>1. txnWaitFor[t] = 1
      BY <1>6, <1>7
    <3>2. NReplied(t) = 1 /\ Cardinality(parts[t]) = Cardinality(AppliedAt(t))
      BY <1>9, <2>1, <2>3, <3>1
    <3>3. Covered(maxTs[t])'
      BY <1>6, <1>9, <1>10 DEF Covered
    <3> QED BY <1>4, <1>6, <1>11, <2>1, <2>3, <3>2, <3>3
  <2> QED BY <1>9, <2>5, <2>6, <2>7 DEF ReplyOK
<1> QED BY <1>13, <1>14 DEF ReplyInv

\* The other steps of handleCommitReplies, and the requests for the safe clock, keep the counts
\* and lose no clock.
LEMMA OtherReplies ==
    ASSUME TypeInv, TypeInv', LifeInv, WaitInv, StageInv, ReplyInv,
           \/ HandleWaitClock \/ NotifyWaiting \/ FlushStacked
           \/ \E q \in Partitions : RequestSafeClk(q)
    PROVE  ReplyInv'
<1>0. localClock \in Clock /\ stackedClk \in Clock /\ nStacked \in Nat
  BY DEF TypeInv, TypeOK
<1>1. UNCHANGED <<partVars, parts, maxTs, tracked, txnToClk, txnWaitFor>>
  BY DEF HandleWaitClock, NotifyWaiting, FlushStacked, RequestSafeClk, txnVars, crVars
<1>2. \A u \in Txns : AppliedAt(u)' = AppliedAt(u) /\ (u \in StaticReaders => parts[u] = {})
  BY <1>1 DEF partVars, AppliedAt, LifeInv, TxnOK, KindOK
<1>3. \A u \in Txns : InfoMsgs(u)' = InfoMsgs(u) /\ NReplied(u)' = NReplied(u) /\ InfoFirst(u)'
  <2>1. CASE HandleWaitClock
    <3>1. TakesInfo("wait")
      BY <2>1 DEF HandleWaitClock
    <3> QED BY <3>1, InfoTaken
  <2>2. CASE NotifyWaiting \/ FlushStacked \/ \E q \in Partitions : RequestSafeClk(q)
    <3>1. commitChan' = commitChan /\ \A u \in Txns : InfoFirst(u)
      BY <2>2 DEF NotifyWaiting, FlushStacked, RequestSafeClk, chanVars, ReplyInv, ReplyOK, InfoOK
    <3> QED BY <3>1 DEF InfoMsgs, InfoAt, NReplied, RepliesAt, InfoFirst
  <2> QED BY <2>1, <2>2
<1>4. ClocksKept
  <2>1. CASE FlushStacked /\ MustFlush
    <3>1. localClock' = Merge(localClock, stackedClk)
      BY <2>1 DEF FlushStacked, AdvanceLocalClock
    <3>2. \A c \in Clock : IsLowerOrEqual(c, localClock) \/ IsLowerOrEqual(c, stackedClk)
                              => IsLowerOrEqual(c, localClock')
      BY <1>0, <3>1, MergeReaches
    <3> QED BY <3>2 DEF ClocksKept, Covered
  <2>2. CASE ~(FlushStacked /\ MustFlush)
    <3>1. UNCHANGED <<localClock, stackedClk, nStacked>>
      BY <2>2 DEF HandleWaitClock, NotifyWaiting, FlushStacked, RequestSafeClk, crVars
    <3> QED BY <3>1 DEF ClocksKept, Covered
  <2> QED BY <2>1, <2>2
<1>5. \A u \in Txns : /\ pc[u] \in Committing => pc'[u] \in Committing
                      /\ pc'[u] \in Committing => pc[u] \in Committing
  <2>1. CASE NotifyWaiting /\ FirstIsReady
    <3>1. PICK t : t = waitingTMs[1].txn
      OBVIOUS
    <3>2. 1 \in 1 .. Len(waitingTMs)
      BY <2>1, WaitersType DEF FirstIsReady
    <3>3. t \in Txns /\ pc[t] = "blocked"
      BY <3>1, <3>2, WaitersType DEF WaitInv, WaitersOnce
    <3>4. pc' = [pc EXCEPT ![t] = "active"]
      BY <2>1, <3>1 DEF NotifyWaiting
    <3>5. pc'[t] = "active" /\ \A u \in Txns \ {t} : pc'[u] = pc[u]
      BY <3>3, <3>4 DEF TypeInv, TypeOK
    <3> QED BY <3>3, <3>5 DEF Committing
  <2>2. CASE NotifyWaiting /\ ~FirstIsReady
    BY <2>2 DEF NotifyWaiting
  <2>3. CASE HandleWaitClock \/ FlushStacked \/ \E q \in Partitions : RequestSafeClk(q)
    BY <2>3 DEF HandleWaitClock, FlushStacked, RequestSafeClk, txnVars
  <2> QED BY <2>1, <2>2, <2>3
<1>6. \A u \in Txns : SameCount(u)
  BY <1>1, <1>2, <1>3, <1>5 DEF SameCount
<1> QED BY <1>2, <1>4, <1>6, SameCountKeeps DEF ReplyInv, StageInv

-----------------------------------------------------------------------------
(* What the countdown means *)


\* It holds in every state.
LEMMA RepliesHold == Spec => [](CommitInv /\ StageInv /\ ReplyInv)
<1>1. Init => StageInv /\ ReplyInv
  <2> SUFFICES ASSUME Init PROVE StageInv /\ ReplyInv
    OBVIOUS
  <2>1. /\ pc = [t \in Txns |-> "idle"] /\ db = [p \in Partitions |-> {}]
        /\ commitsOnHold = [p \in Partitions |-> {}] /\ tracked = {} /\ commitChan = <<>>
        /\ maxTs = [t \in Txns |-> NewTimestamp]
    BY DEF Init, MatInit
  <2>2. /\ \A t \in Txns : pc[t] \notin Committing \cup Aborting /\ AppliedAt(t) = {}
        /\ \A t \in Txns : \A p \in Partitions : HeldOf(p, t) = {}
    BY <2>1 DEF Committing, Aborting, AppliedAt, HeldOf
  <2>3. StageInv
    BY <2>2 DEF StageInv, StageOK, AppliedOK, CommitSomewhere, HeldHasUpdates, AbortFollows
  <2>4. Len(commitChan) = 0
    BY <2>1
  <2>5. \A t \in Txns : InfoAt(t) = {} /\ RepliesAt(t) = {}
    BY <2>4 DEF InfoAt, RepliesAt
  <2>6. \A t \in Txns : InfoMsgs(t) = {} /\ NReplied(t) = 0 /\ InfoFirst(t)
    BY <2>5, FS_EmptySet DEF InfoMsgs, NReplied, InfoFirst
  <2>7. \A t \in Txns : ReplyOK(t)
    BY <2>1, <2>2, <2>6 DEF ReplyOK, NotCounted, TrackedOK, InfoOK, CompletedOK, Completed
  <2> QED BY <2>3, <2>7 DEF ReplyInv
<1>2. CommitInv /\ CommitInv' /\ StageInv /\ ReplyInv /\ [Next]_vars => StageInv' /\ ReplyInv'
  <2> SUFFICES ASSUME CommitInv, CommitInv', StageInv, ReplyInv, [Next]_vars
               PROVE  StageInv' /\ ReplyInv'
    OBVIOUS
  <2>1. TypeInv /\ TypeInv' /\ LifeInv /\ LifeInv' /\ WaitInv
    BY DEF CommitInv
  <2>2. ASSUME NEW p \in Partitions, Partition(p) PROVE StageInv' /\ ReplyInv'
    BY <2>1, <2>2, PartitionStage, PartitionReplies
  <2>3. ASSUME NEW p \in Partitions, RequestSafeClk(p) PROVE StageInv' /\ ReplyInv'
    BY <2>1, <2>3, OtherSteps, SafeClkMoves, MovesStage, OtherReplies
  <2>4. ASSUME NEW t \in Txns, TxnStep(t) \/ ClientStep(t) PROVE StageInv' /\ ReplyInv'
    <3>1. UNCHANGED partVars
      BY <2>4, OtherSteps
    <3>2. \A u \in Txns : Moves(u)
      BY <2>1, <2>4, TxnMoves, ClientMoves
    <3> QED BY <2>1, <2>4, <3>1, <3>2, MovesStage, TxnReplies, NotifyReplies
  <2>5. ASSUME CommitReplies PROVE StageInv' /\ ReplyInv'
    <3>1. StageInv'
      BY <2>1, <2>5, OtherSteps, RepliesMoves, MovesStage
    <3> QED BY <2>1, <2>5, <3>1, NPartitionsReplies, PartReplyReplies, OtherReplies DEF CommitReplies
  <2>6. CASE UNCHANGED vars
    <3>1. UNCHANGED <<partVars, channels, pc, parts, toSend>>
      BY <2>6 DEF vars, chanVars, txnVars
    <3>2. StageInv'
      <4>1. \A u \in Txns : Moves(u)
        BY <3>1, QuietMoves DEF Sent, Waiting
      <4> QED BY <3>1, <4>1, MovesStage
    <3>3. /\ UNCHANGED <<commitChan, db, pc, parts, maxTs, tracked, txnToClk, txnWaitFor>>
          /\ UNCHANGED <<localClock, stackedClk, nStacked>>
      BY <2>6 DEF vars, chanVars, txnVars, partVars, crVars
    <3>4. \A u \in Txns : /\ InfoMsgs(u)' = InfoMsgs(u) /\ NReplied(u)' = NReplied(u)
                          /\ InfoFirst(u)' /\ AppliedAt(u)' = AppliedAt(u)
                          /\ u \in StaticReaders => parts[u] = {}
      BY <2>1, <3>3 DEF InfoMsgs, InfoAt, NReplied, RepliesAt, InfoFirst, AppliedAt,
                        ReplyInv, ReplyOK, InfoOK, LifeInv, TxnOK, KindOK
    <3>5. ClocksKept /\ \A u \in Txns : SameCount(u)
      BY <3>3, <3>4 DEF ClocksKept, Covered, SameCount
    <3> QED BY <2>1, <3>2, <3>4, <3>5, SameCountKeeps DEF ReplyInv, StageInv
  <2> QED BY <2>2, <2>3, <2>4, <2>5, <2>6 DEF Next
<1> QED BY <1>1, <1>2, CommitInvHolds, PTL DEF Spec

\* A message about t in commitChan, as the properties see it
LEMMA InChan ==
    ASSUME NEW t \in Txns
    PROVE  InfoMsgs(t) = {} <=> ~InCommitChan("nPartitions", t)
BY DEF InfoMsgs, InfoAt, InCommitChan

\* handleCommitReplies has received the number of partitions of a transaction before any of
\* them confirms its commit, although partitions and transactions send on their own.
THEOREM RepliesAreTracked == Spec => []ReplyIsTracked
<1>1. CommitInv /\ StageInv /\ ReplyInv => ReplyIsTracked
  <2> SUFFICES ASSUME CommitInv, ReplyInv, NEW j \in 1 .. Len(commitChan),
                      commitChan[j].type = "partReply", commitChan[j].txn \notin tracked
               PROVE  \E i \in 1 .. (j - 1) : /\ commitChan[i].type = "nPartitions"
                                              /\ commitChan[i].txn = commitChan[j].txn
    BY DEF ReplyIsTracked
  <2>1. PICK t : t = commitChan[j].txn
    OBVIOUS
  <2>2. TypeInv /\ Len(commitChan) \in Nat
    BY CommitChanType DEF CommitInv
  <2>3. t \in Txns
    BY <2>1, <2>2, CommitChanType DEF CommitInfo
  <2>4. j \in RepliesAt(t)
    BY <2>1 DEF RepliesAt
  <2>5. NReplied(t) # 0
    BY <2>2, <2>3, <2>4, CommitChanType
  <2>6. NotCounted(t) /\ CompletedOK(t) /\ InfoFirst(t)
    BY <2>3 DEF ReplyInv, ReplyOK, InfoOK
  <2>7. InfoMsgs(t) # {}
    BY <2>1, <2>5, <2>6 DEF NotCounted, CompletedOK, Completed
  <2>8. PICK i : i \in InfoAt(t)
    BY <2>7 DEF InfoMsgs
  <2>9. i # j
    BY <2>4, <2>8 DEF InfoAt, RepliesAt
  <2>10. i < j /\ i \in 1 .. Len(commitChan)
    BY <2>4, <2>6, <2>8, <2>9 DEF InfoFirst, InfoAt
  <2>11. i \in 1 .. (j - 1)
    BY <2>2, <2>10
  <2> QED BY <2>1, <2>8, <2>11 DEF InfoAt
<1> QED BY <1>1, RepliesHold, PTL

\* The server's clock advances for a transaction only when every partition that it involves has
\* applied it.
THEOREM CompletedAreApplied == Spec => []CompletedIsApplied
<1>1. CommitInv /\ StageInv /\ ReplyInv => CompletedIsApplied
  <2> SUFFICES ASSUME ReplyInv, NEW t \in Txns, pc[t] \in {"commit", "done"}, t \notin tracked,
                      ~InCommitChan("nPartitions", t), NEW p \in parts[t]
               PROVE  t \in db[p]
    BY DEF CompletedIsApplied
  <2>1. Completed(t) /\ CompletedOK(t)
    BY InChan DEF Completed, Committing, ReplyInv, ReplyOK
  <2>2. AppliedAt(t) = parts[t]
    BY <2>1 DEF CompletedOK
  <2> QED BY <2>2 DEF AppliedAt
<1> QED BY <1>1, RepliesHold, PTL

\* handleCommitReplies loses no completed transaction: its clock is in localClock or in the
\* stacked clock, in whatever order transactions complete.
THEOREM CompletedAreInClock == Spec => []CompletedIsInClock
<1>1. CommitInv /\ StageInv /\ ReplyInv => CompletedIsInClock
  <2> SUFFICES ASSUME ReplyInv, NEW t \in Txns, pc[t] \in {"commit", "done"}, t \notin tracked,
                      ~InCommitChan("nPartitions", t)
               PROVE  \/ IsLowerOrEqual(maxTs[t], localClock)
                      \/ nStacked > 0 /\ IsLowerOrEqual(maxTs[t], stackedClk)
    BY DEF CompletedIsInClock
  <2>1. Completed(t) /\ CompletedOK(t)
    BY InChan DEF Completed, Committing, ReplyInv, ReplyOK
  <2> QED BY <2>1 DEF CompletedOK, Covered
<1> QED BY <1>1, RepliesHold, PTL

\* A transaction that has ended leaves no pending update, no prepare and no held commit behind
\* at a partition that has served all its requests.
THEOREM EndedLeaveNothing == Spec => []NothingLeftBehind
<1>1. CommitInv /\ StageInv /\ ReplyInv => NothingLeftBehind
  <2> SUFFICES ASSUME CommitInv, StageInv, ReplyInv, NEW p \in Partitions, NEW t \in Txns,
                      Waiting(p, t) = {},
                      \/ pc[t] = "aborted"
                      \/ pc[t] = "done" /\ t \notin tracked /\ ~InCommitChan("nPartitions", t)
               PROVE  t \notin pendingOps[p] /\ ~IsPrepared(p, t) /\ ~IsHeld(p, t)
    BY DEF NothingLeftBehind
  <2>1. PartOK(p, t) /\ LoopOK(t) /\ StageOK(p, t) /\ Sent(p, t) = {}
    BY DEF CommitInv, LifeInv, TxnOK, StageInv, Sent
  <2>2. p \notin PendingAt(t) /\ p \notin PreparedAt(t) /\ HeldOf(p, t) = {}
    <3>1. CASE pc[t] = "aborted"
      <4>1. toSend[t] = {} /\ pc[t] \in Aborting
        BY <2>1, <3>1 DEF LoopOK, Aborting
      <4>2. p \notin PendingAt(t)
        BY <2>1, <4>1 DEF StageOK, AbortFollows
      <4> QED BY <2>1, <3>1, <4>2 DEF PartOK
    <3>2. CASE pc[t] = "done" /\ t \notin tracked /\ ~InCommitChan("nPartitions", t)
      <4>1. Completed(t) /\ CompletedOK(t)
        BY <3>2, InChan DEF Completed, Committing, ReplyInv, ReplyOK
      <4>2. p \in parts[t] => p \in AppliedAt(t)
        BY <4>1 DEF CompletedOK
      <4> QED BY <2>1, <4>2 DEF PartOK, StageOK, AppliedOK
    <3> QED BY <3>1, <3>2
  <2> QED BY <2>2 DEF PendingAt, PreparedAt, HeldOf, IsHeld
<1> QED BY <1>1, RepliesHold, PTL

-----------------------------------------------------------------------------
(***************************************************************************)
(* What the partitions promise those who read their state: a transaction   *)
(* that reads its own updates, a static read that takes no part in the     *)
(* commit protocol, and the logger of each partition.                      *)
(***************************************************************************)

-----------------------------------------------------------------------------
(* A transaction reads its own updates *)

\* A goroutine begins a read with no replies, and changes nothing else of it.
LEMMA GoroutineReads ==
    ASSUME TypeInv, WaitInv,
           \/ \E p \in Partitions : RequestSafeClk(p)
           \/ \E t \in Txns : TxnStep(t) \/ ClientStep(t)
           \/ CommitReplies
    PROVE  \A u \in Txns :
              /\ readChan'[u] = {} \/ readChan'[u] = readChan[u]
              /\ pc'[u] = "read" => readChan'[u] = {} \/ (pc[u] = "read" /\ parts'[u] = parts[u])
<1>0. /\ pc \in [Txns -> Phases] /\ parts \in [Txns -> SUBSET Partitions]
      /\ readChan \in [Txns -> SUBSET ReadReply]
  BY DEF TypeInv, TypeOK, MatTypeOK
<1> DEFINE Goal(u) ==
              /\ readChan'[u] = {} \/ readChan'[u] = readChan[u]
              /\ pc'[u] = "read" => readChan'[u] = {} \/ (pc[u] = "read" /\ parts'[u] = parts[u])
<1>1. ASSUME NEW t \in Txns, ClientStep(t) PROVE \A u \in Txns : Goal(u)
  <2>1. CASE Read(t)
    BY <1>0, <2>1 DEF Read
  <2>2. CASE ~Read(t)
    <3>1. readChan' = readChan /\ \A u \in Txns \ {t} : pc'[u] = pc[u] /\ parts'[u] = parts[u]
      BY <1>0, <1>1, <2>2 DEF ClientStep, StartTxn, GetClockToUse, SingleRead, StaticUpdate, Update,
                              Commit, Abort, LostConn, chanVars
    <3>2. pc'[t] # "read"
      BY <1>0, <1>1, <2>2 DEF ClientStep, StartTxn, GetClockToUse, SingleRead, StaticUpdate, Update,
                              Commit, Abort, LostConn
    <3> QED BY <3>1, <3>2
  <2> QED BY <2>1, <2>2
<1>2. ASSUME NEW t \in Txns, TxnStep(t) PROVE \A u \in Txns : Goal(u)
  <2>1. readChan' = readChan /\ parts' = parts /\ \A u \in Txns \ {t} : pc'[u] = pc[u]
    BY <1>0, <1>2 DEF TxnStep, SendWaitClock, SendRead, SendToPartition, EndRead, EndSingleRead,
                      ReceivePrepareReply, NotifyCommit, chanVars
  <2>2. pc'[t] = "read" => pc[t] = "read"
    <3>1. CASE \E p \in Partitions : SendToPartition(t, p)
      <4>1. /\ pc[t] \in {"write", "prepare", "commit", "abort"}
            /\ pc'[t] = pc[t] \/ pc'[t] = AfterLoop(t)
        BY <1>0, <3>1 DEF SendToPartition
      <4> QED BY <4>1 DEF AfterLoop
    <3>2. CASE ~ \E p \in Partitions : SendToPartition(t, p)
      BY <1>0, <1>2, <3>2 DEF TxnStep, SendWaitClock, SendRead, EndRead, EndSingleRead,
                              ReceivePrepareReply, NotifyCommit
    <3> QED BY <3>1, <3>2
  <2> QED BY <2>1, <2>2
<1>3. ASSUME CommitReplies PROVE \A u \in Txns : Goal(u)
  BY <1>3, RepliesPhases
<1>4. ASSUME NEW p \in Partitions, RequestSafeClk(p) PROVE \A u \in Txns : Goal(u)
  BY <1>4 DEF RequestSafeClk, txnVars
<1> QED BY <1>1, <1>2, <1>3, <1>4

\* What the reply of a partition to a read holds
LEMMA PartitionReads ==
    ASSUME TypeInv, LifeInv, NEW q \in Partitions, PartitionStep(q)
    PROVE  \/ UNCHANGED readChan
           \/ \E t \in Txns : \E m \in Sent(q, t) :
                 /\ m.type = "read" /\ Sent(q, t) = {m}
                 /\ readChan' = [readChan EXCEPT ![t] = readChan[t] \cup
                                   {[part |-> q, seen |-> db[q] \cup ({t} \cap pendingOps[q])]}]
           \/ \E t \in StaticReaders :
                 readChan' = [readChan EXCEPT ![t] = {[part |-> q, seen |-> db[q]]}]
<1>1. PICK m, t : m = Head(channels[q]) /\ t = m.txn
  OBVIOUS
<1>2. CASE HandleMatRead(q)
  <2>1. Takes(q, "read")
    BY <1>2 DEF HandleMatRead
  <2>2. t \in Txns
    BY <1>1, <2>1, TakesType DEF TypeInv, TypeOK
  <2>3. m.type = "read" /\ m \in Sent(q, t) /\ Sent(q, t) = {m}
    BY <1>1, <2>1, <2>2, SentTaken DEF LifeInv
  <2> QED BY <1>1, <1>2, <2>2, <2>3 DEF HandleMatRead
<1>3. CASE HandleMatStaticSingleRead(q)
  <2>1. Takes(q, "singleRead")
    BY <1>3 DEF HandleMatStaticSingleRead
  <2>2. t \in Txns
    BY <1>1, <2>1, TakesType DEF TypeInv, TypeOK
  <2>3. m.type = "singleRead" /\ m \in Sent(q, t)
    BY <1>1, <2>1, <2>2, SentTaken DEF LifeInv
  <2>4. t \in StaticReaders
    <3>1. MsgOK(m, q, t)
      BY <2>2, <2>3 DEF LifeInv, TxnOK, SentOK
    <3> QED BY <2>3, <3>1 DEF MsgOK
  <2> QED BY <1>1, <1>3, <2>2, <2>3, <2>4 DEF HandleMatStaticSingleRead
<1>4. CASE ~HandleMatRead(q) /\ ~HandleMatStaticSingleRead(q)
  BY <1>4 DEF PartitionStep, HandleMatStaticWrite, HandleMatWrite, HandleMatPrepare, HandleMatCommit,
              CheckHoldCommits, HandleMatAbort, HandleMatSafeClk
<1> QED BY <1>2, <1>3, <1>4

\* A transaction reads its own updates: the request for a read follows its writes in the channel
\* of each partition, and no abort or commit comes between.
THEOREM OwnUpdatesRead == Spec => []ReadsOwnUpdates
<1>1. Init => ReadsOwnUpdates
  BY ManagerConstants DEF Init, ReadsOwnUpdates
<1>2. CommitInv /\ ReadsOwnUpdates /\ [Next]_vars => ReadsOwnUpdates'
  <2> SUFFICES ASSUME CommitInv, ReadsOwnUpdates, [Next]_vars, NEW t \in Interactive,
                      pc'[t] = "read", NEW r \in readChan'[t], r.part \in parts'[t]
               PROVE  t \in r.seen
    BY DEF ReadsOwnUpdates
  <2>0. TypeInv /\ WaitInv /\ LifeInv /\ t \in Txns /\ t \notin StaticReaders
    BY ManagerConstants DEF CommitInv
  <2>1. ASSUME pc[t] = "read", parts'[t] = parts[t], r \in readChan[t] PROVE t \in r.seen
    BY <2>1 DEF ReadsOwnUpdates
  <2>2. ASSUME NEW q \in Partitions, Partition(q) PROVE t \in r.seen
    <3>1. pc[t] = "read" /\ parts'[t] = parts[t] /\ PartitionStep(q)
      BY <2>2 DEF Partition, txnVars
    <3>2. readChan \in [Txns -> SUBSET ReadReply]
      BY <2>0 DEF TypeInv, TypeOK, MatTypeOK
    <3>3. CASE r \in readChan[t]
      BY <2>1, <3>1, <3>3
    <3>4. CASE r \notin readChan[t]
      <4>1. ~ \E u \in StaticReaders :
                 readChan' = [readChan EXCEPT ![u] = {[part |-> q, seen |-> db[q]]}]
        <5> SUFFICES ASSUME NEW u \in StaticReaders, NEW new,
                            readChan' = [readChan EXCEPT ![u] = {new}]
                     PROVE  FALSE
          OBVIOUS
        <5> QED BY <2>0, <3>2, <3>4
      <4>0. readChan' # readChan
        BY <3>4
      <4>2. PICK u \in Txns : \E m \in Sent(q, u) :
                 /\ m.type = "read" /\ Sent(q, u) = {m}
                 /\ readChan' = [readChan EXCEPT ![u] = readChan[u] \cup
                                   {[part |-> q, seen |-> db[q] \cup ({u} \cap pendingOps[q])]}]
        BY <2>0, <3>1, <4>0, <4>1, PartitionReads
      <4>3. u = t
        BY <2>0, <3>2, <3>4, <4>2
      <4>4. PICK new : new = [part |-> q, seen |-> db[q] \cup ({t} \cap pendingOps[q])]
        OBVIOUS
      <4>5. r = new
        BY <2>0, <3>2, <3>4, <4>2, <4>3, <4>4
      <4>6. r.part = q /\ r.seen = db[q] \cup ({t} \cap pendingOps[q])
        BY <4>4, <4>5
      <4>7. PartOK(q, t) /\ q \in parts[t]
        BY <2>0, <3>1, <4>6 DEF LifeInv, TxnOK
      <4>8. q \in PendingAt(t)
        BY <3>1, <4>2, <4>3, <4>7 DEF PartOK
      <4> QED BY <4>6, <4>8 DEF PendingAt
    <3> QED BY <3>3, <3>4
  <2>3. CASE \/ \E p \in Partitions : RequestSafeClk(p)
             \/ \E u \in Txns : TxnStep(u) \/ ClientStep(u)
             \/ CommitReplies
    BY <2>0, <2>1, <2>3, GoroutineReads
  <2>4. CASE UNCHANGED vars
    BY <2>1, <2>4 DEF vars, chanVars, txnVars
  <2> QED BY <2>2, <2>3, <2>4 DEF Next
<1> QED BY <1>1, <1>2, CommitInvHolds, PTL DEF Spec

-----------------------------------------------------------------------------
(* What a partition has applied, and what it has still to apply *)

\* A committed transaction that p has not applied yet is not below the stable clock of p, nor
\* below anything p has told its logger.
AheadOf(p, t) ==
    pc[t] \in Committing /\ p \in parts[t] /\ p \notin AppliedAt(t) =>
        /\ stableClk[p][Self] <= maxTs[t][Self]
        /\ \A i \in 1 .. Len(logChan[p]) : LogAt(p, i) <= maxTs[t][Self]

CommitsAhead == \A t \in Txns : \A p \in Partitions : AheadOf(p, t)

\* It is prepared or held there, and its timestamp covers the clock p has prepared for it.
LEMMA CommitsAreAhead == CommitInv /\ StageInv => CommitsAhead
<1> SUFFICES ASSUME CommitInv, StageInv, NEW t \in Txns, NEW p \in Partitions,
                    pc[t] \in Committing, p \in parts[t], p \notin AppliedAt(t)
             PROVE  /\ stableClk[p][Self] <= maxTs[t][Self]
                    /\ \A i \in 1 .. Len(logChan[p]) : LogAt(p, i) <= maxTs[t][Self]
  BY DEF CommitsAhead, AheadOf
<1>0. TypeInv /\ LifeInv /\ SelfInv /\ MaxInv /\ OpenAbove(p)
  BY DEF CommitInv, OrdInv, OrdOK
<1>1. p \in PreparedAt(t) \/ HeldOf(p, t) # {}
  BY DEF StageInv, StageOK, CommitSomewhere
<1>2. PICK n \in Open(p) : n <= maxTs[t][Self]
  <2>1. CASE p \in PreparedAt(t)
    <3>1. PICK e \in prepClks[p] : e.clk[Self] <= maxTs[t][Self]
      BY <1>0, <2>1, CommitCovered DEF Committing
    <3> QED BY <3>1 DEF Open
  <2>2. CASE HeldOf(p, t) # {}
    <3>1. PICK h \in commitsOnHold[p] : h.txn = t
      BY <2>2 DEF HeldOf
    <3>2. h.clk = maxTs[t] /\ h.clk[Self] \in Nat
      BY <1>0, <3>1, HeldClk, ClockNumbers
    <3>3. h.clk[Self] \in Open(p)
      BY <3>1 DEF Open
    <3> QED BY <3>2, <3>3
  <2> QED BY <1>1, <2>1, <2>2
<1>3. /\ n \in Nat /\ stableClk[p][Self] \in Nat
      /\ \A i \in 1 .. Len(logChan[p]) : LogAt(p, i) \in Nat
  BY <1>0, <1>2, OrdTypes
<1>4. maxTs[t][Self] \in Nat
  BY <1>0, SelfOrder DEF SelfInv
<1> QED BY <1>0, <1>2, <1>3, <1>4 DEF OpenAbove

\* What the step of a partition does to its database, its clock and its log: it applies a
\* commit, and logs it if it has an effect; or it announces a clock; or it does neither.
LEMMA PartitionLogs ==
    ASSUME CommitInv, StageInv, NEW q \in Partitions, Partition(q)
    PROVE  \/ \E t \in Txns :
                 /\ AppliesAt(q, t)
                 /\ \/ t \in NoEffect /\ UNCHANGED logChan
                    \/ t \notin NoEffect /\ LogGrows(q, Request("commit", t, maxTs[t]))
           \/ /\ UNCHANGED <<db, stableClk>>
              /\ UNCHANGED logChan \/ \E clk \in SelfClock : LogGrows(q, Request("clk", NoTxn, clk))
<1>0. /\ TypeInv /\ LifeInv /\ SelfInv /\ PartitionStep(q)
      /\ db \in [Partitions -> SUBSET Txns] /\ Len(commitChan) \in Nat
      /\ now \in Nat
  BY CommitChanType DEF CommitInv, Partition, TypeInv, TypeOK, MatTypeOK
<1>1. ASSUME NEW t \in Txns, NEW clk, clk = maxTs[t], ApplyCommit(q, t, clk)
      PROVE  /\ AppliesAt(q, t)
             /\ \/ t \in NoEffect /\ UNCHANGED logChan
                \/ t \notin NoEffect /\ LogGrows(q, Request("commit", t, maxTs[t]))
  <2>1. PICK m : m = [type |-> "partReply", txn |-> t, n |-> 0, clk |-> NewTimestamp]
    OBVIOUS
  <2>2. commitChan' = Append(commitChan, m) /\ m \in CommitInfo
    BY <1>1, <2>1, NewTimestampType DEF ApplyCommit, CommitInfo
  <2>3. commitChan' # commitChan
    <3>1. commitChan \in Seq(CommitInfo)
      BY <1>0 DEF TypeInv, TypeOK, MatTypeOK
    <3>2. Len(commitChan') = Len(commitChan) + 1
      BY <2>2, <3>1, AppendFacts
    <3> QED BY <1>0, <3>2
  <2>4. PICK u \in Txns : AppliesAt(q, u)
    BY <1>0, <2>3, PartitionStage
  <2>5. db'[q] = db[q] \cup ({t} \cap pendingOps[q])
    BY <1>0, <1>1 DEF ApplyCommit
  <2>6. u = t /\ t \in pendingOps[q]
    BY <2>4, <2>5 DEF AppliesAt, AppliedAt
  <2> QED BY <1>1, <2>4, <2>6 DEF ApplyCommit, LogGrows
<1>2. CASE HandleMatCommit(q)
  <2>1. PICK t \in Txns, clk \in Clock :
              /\ clk = maxTs[t]
              /\ ApplyCommit(q, t, clk) \/ HoldCommit(q, t, clk)
    BY <1>0, <1>2, CommitTaken
  <2> QED BY <1>1, <2>1 DEF HoldCommit
<1>3. CASE CheckHoldCommits(q)
  <2>1. CASE UNCHANGED <<db, stableClk, logChan>>
    BY <2>1
  <2>2. ASSUME NEW h \in commitsOnHold[q], ApplyCommit(q, h.txn, h.clk)
        PROVE  \E t \in Txns : /\ AppliesAt(q, t)
                 /\ \/ t \in NoEffect /\ UNCHANGED logChan
                    \/ t \notin NoEffect /\ LogGrows(q, Request("commit", t, maxTs[t]))
    <3>1. PICK t, clk : t = h.txn /\ clk = h.clk
      OBVIOUS
    <3>2. t \in Txns /\ clk = maxTs[t] /\ ApplyCommit(q, t, clk)
      BY <1>0, <2>2, <3>1, HeldClk
    <3> QED BY <1>1, <3>2
  <2> QED BY <1>3, <2>1, <2>2 DEF CheckHoldCommits, HeapRoots
<1>4. CASE HandleMatSafeClk(q)
  <2>1. UNCHANGED <<db, stableClk>>
    BY <1>4 DEF HandleMatSafeClk
  <2>2. \A time \in now .. MaxTime : time \in Nat
    BY <1>0, MaterializerConstants
  <2>3. \A m \in HeapRoots(prepClks[q]) : m \in prepClks[q]
    BY SMTT(60) DEF HeapRoots
  <2> QED BY <1>0, <1>4, <2>1, <2>2, <2>3, AnnouncedSelf DEF HandleMatSafeClk, LogGrows
<1>5. CASE \/ HandleMatStaticWrite(q) \/ HandleMatPrepare(q) \/ HandleMatWrite(q)
           \/ HandleMatAbort(q) \/ HandleMatRead(q) \/ HandleMatStaticSingleRead(q)
  BY <1>5 DEF HandleMatStaticWrite, HandleMatPrepare, HandleMatWrite, HandleMatAbort,
              HandleMatRead, HandleMatStaticSingleRead, partVars
<1> QED BY <1>0, <1>2, <1>3, <1>4, <1>5 DEF PartitionStep

-----------------------------------------------------------------------------
(* The decisions the loggers see *)

\* A transaction that wrote nothing has no commit timestamp.
WroteNothing == \A t \in Txns : parts[t] = {} => maxTs[t] = NewTimestamp

\* No reply to a prepare comes for it.
LEMMA NextWrote == TypeInv /\ LifeInv /\ WaitInv /\ WroteNothing /\ [Next]_vars => WroteNothing'
<1> SUFFICES ASSUME TypeInv, LifeInv, WaitInv, WroteNothing, [Next]_vars
             PROVE  WroteNothing'
  OBVIOUS
<1>0. /\ parts \in [Txns -> SUBSET Partitions] /\ maxTs \in [Txns -> Clock]
      /\ replyChan \in [Txns -> Seq(Clock)] /\ nReplies \in [Txns -> Nat]
  BY DEF TypeInv, TypeOK, MatTypeOK
<1>1. ASSUME NEW t \in Txns, ClientStep(t) PROVE WroteNothing'
  <2>1. maxTs' = maxTs
    BY <1>1 DEF ClientStep, StartTxn, SingleRead, StaticUpdate, Read, Update, Commit, Abort, LostConn
  <2>2. \A P \in Targets : P # {}
    BY DEF Targets
  <2>3. \A u \in Txns : parts'[u] = {} => parts[u] = {}
    BY <1>0, <1>1, <2>2, ZenonT(60) DEF ClientStep, StartTxn, SingleRead, StaticUpdate, Read, Update, Commit,
                            Abort, LostConn
  <2> QED BY <2>1, <2>3 DEF WroteNothing
<1>2. ASSUME NEW t \in Txns, TxnStep(t) PROVE WroteNothing'
  <2>1. parts' = parts
    BY <1>2 DEF TxnStep, SendWaitClock, SendRead, SendToPartition, EndRead, EndSingleRead,
                ReceivePrepareReply, NotifyCommit
  <2>2. CASE ~ReceivePrepareReply(t)
    <3>1. maxTs' = maxTs
      BY <1>2, <2>2 DEF TxnStep, SendWaitClock, SendRead, SendToPartition, EndRead, EndSingleRead,
                        NotifyCommit
    <3> QED BY <2>1, <3>1 DEF WroteNothing
  <2>3. CASE ReceivePrepareReply(t)
    <3>1. /\ pc[t] = "prepare" /\ replyChan[t] # <<>>
          /\ \A u \in Txns \ {t} : maxTs'[u] = maxTs[u]
      BY <1>0, <2>3 DEF ReceivePrepareReply
    <3>2. Len(replyChan[t]) \in Nat \ {0} /\ nReplies[t] \in Nat
      BY <1>0, <3>1, NoLength
    <3>3. KindOK(t) /\ CountOK(t) /\ \A p \in Partitions : PartOK(p, t)
      BY DEF LifeInv, TxnOK
    <3>4. Cardinality(PreparedAt(t)) # 0
      BY <3>1, <3>2, <3>3 DEF KindOK, CountOK
    <3>5. PreparedAt(t) # {}
      BY <3>4, FS_EmptySet
    <3>6. parts[t] # {}
      BY <3>3, <3>5 DEF PartOK, PreparedAt
    <3> QED BY <2>1, <3>1, <3>6 DEF WroteNothing
  <2> QED BY <2>2, <2>3
<1>3. ASSUME UNCHANGED <<parts, maxTs>> PROVE WroteNothing'
  BY <1>3 DEF WroteNothing
<1> QED BY <1>1, <1>2, <1>3, RepliesPhases DEF Next, Partition, RequestSafeClk, txnVars, vars

\* A decision stays what it is, and only reads come to an end without one.
Stays(u) ==
    /\ pc[u] \in Committing => pc'[u] \in Committing /\ parts'[u] = parts[u] /\ maxTs'[u] = maxTs[u]
    /\ pc[u] \notin Committing /\ pc'[u] \in Committing => u \in StaticReaders

\* NotifyCommit is the only step that decides.
LEMMA OthersStay ==
    ASSUME TypeInv, LifeInv, WaitInv, [Next]_vars, \A t \in Txns : ~NotifyCommit(t)
    PROVE  \A u \in Txns : Stays(u)
<1>1. ASSUME NEW t \in Txns, TxnStep(t) \/ ClientStep(t) PROVE \A u \in Txns : Stays(u)
  BY <1>1, TxnCounts, TxnMoves, ClientMoves DEF Stays, Moves
<1>2. CASE CommitReplies
  BY <1>2, RepliesPhases DEF Stays, Committing
<1>3. CASE UNCHANGED <<pc, parts, maxTs>>
  BY <1>3 DEF Stays
<1> QED BY <1>1, <1>2, <1>3 DEF Next, Partition, RequestSafeClk, txnVars, vars

\* The loggers do not see a decision without effects.
Unseen(u) == pc[u] \notin Committing /\ (u \in NoEffect \/ parts'[u] = {})

\* Without others they see none.
LEMMA NoDecision ==
    ASSUME \A u \in Txns : Stays(u) \/ Unseen(u),
           WroteNothing', \A u \in StaticReaders : parts'[u] = {}
    PROVE  LogInvolved' = LogInvolved /\ LogCommitTs' = LogCommitTs
<1>1. \A u \in Txns : /\ (IF IsDecided(u) THEN parts[u] ELSE {})' = IF IsDecided(u) THEN parts[u] ELSE {}
                      /\ (IF IsDecided(u) THEN maxTs[u] ELSE NewTimestamp)' =
                            IF IsDecided(u) THEN maxTs[u] ELSE NewTimestamp
  BY DEF Stays, Unseen, IsDecided, Committing, WroteNothing, NewTimestamp
<1> QED BY <1>1 DEF LogInvolved, LogCommitTs

-----------------------------------------------------------------------------
(* The promise to the loggers *)

\* What PartitionLog sees of the server, for all the clocks there are
Log == INSTANCE PartitionLog WITH
          Timestamps <- Clock, involved <- LogInvolved, commitTs <- LogCommitTs

\* What PartitionLog calls the partitions and the comparisons of clocks are those of the server.
LEMMA LogSame ==
    /\ Log!Partitions = Partitions /\ Log!NewTimestamp = NewTimestamp
    /\ \A c, d : (Log!IsLower(c, d) <=> IsLower(c, d))
                 /\ (Log!IsLowerOrEqual(c, d) <=> IsLowerOrEqual(c, d))
BY DEF Log!Partitions, Partitions, Log!NewTimestamp, NewTimestamp, Log!IsLower, IsLower,
       Log!IsLowerOrEqual, IsLowerOrEqual

\* A partition has logged the transactions it has applied that have an effect.
LogIsDb ==
    \A p \in Partitions : \A t \in Txns : Log!IsLogged(p, t) <=> p \in AppliedAt(t) /\ t \notin NoEffect

\* The transactions a partition has still to log are ahead of it.
LEMMA UnloggedAhead ==
    ASSUME CommitsAhead, LogIsDb, NEW p \in Partitions, NEW t \in Log!Unlogged(p)
    PROVE  /\ t \in Txns /\ t \notin NoEffect /\ pc[t] \in Committing /\ p \in parts[t]
           /\ p \notin AppliedAt(t) /\ AheadOf(p, t)
           /\ LogCommitTs[t] = maxTs[t]
<1>1. t \in Txns /\ p \in LogInvolved[t] /\ ~Log!IsLogged(p, t)
  BY DEF Log!Unlogged
<1>2. IsDecided(t) /\ p \in parts[t]
  BY <1>1 DEF LogInvolved
<1>3. LogCommitTs[t] = maxTs[t]
  BY <1>1, <1>2 DEF LogCommitTs
<1> QED BY <1>1, <1>2, <1>3 DEF IsDecided, Committing, LogIsDb, CommitsAhead

\* The coordinator decides when it tells handleCommitReplies.
LEMMA NotifyDecides ==
    ASSUME CommitInv, CommitInv', StageInv', CommitsAhead', NEW t \in Txns, NotifyCommit(t),
           StageInv, t \notin NoEffect, parts[t] # {}
    PROVE  Log!LogNext
<1>0. /\ TypeInv /\ LifeInv /\ SelfInv /\ pc \in [Txns -> Phases]
      /\ parts \in [Txns -> SUBSET Partitions] /\ maxTs \in [Txns -> SelfClock]
      /\ SelfInv'
  BY DEF CommitInv, TypeInv, TypeOK, SelfInv
<1>1. /\ pc[t] = "prepare" /\ toSend[t] = {} /\ nReplies[t] = Cardinality(parts[t])
      /\ pc' = [pc EXCEPT ![t] = "commit"]
      /\ UNCHANGED <<parts, maxTs, logChan, db>>
  BY DEF NotifyCommit, partVars
<1>2. IsDecided(t)' /\ ~IsDecided(t) /\ \A u \in Txns \ {t} : IsDecided(u)' <=> IsDecided(u)
  BY <1>0, <1>1 DEF IsDecided
<1>3. /\ LogInvolved[t] = {}
      /\ LogInvolved' = [LogInvolved EXCEPT ![t] = parts[t]]
      /\ LogCommitTs' = [LogCommitTs EXCEPT ![t] = maxTs[t]]
  BY <1>1, <1>2 DEF LogInvolved, LogCommitTs
<1>4. ASSUME NEW p \in parts[t], NEW i \in 1 .. Len(logChan[p])
      PROVE  IsLowerOrEqual(logChan[p][i].clk, maxTs[t])
  <2>1. p \in Partitions /\ p \notin AppliedAt(t)
    BY <1>0, <1>1 DEF StageInv, StageOK, AppliedOK, Committing
  <2>2. AheadOf(p, t)' /\ p \notin AppliedAt(t)'
    BY <1>1, <2>1 DEF CommitsAhead, AppliedAt
  <2>3. pc'[t] \in Committing
    BY <1>0, <1>1 DEF Committing
  <2>4. LogAt(p, i) <= maxTs[t][Self]
    BY <1>1, <2>2, <2>3 DEF AheadOf, LogAt
  <2>5. logChan[p][i].clk \in SelfClock /\ maxTs[t] \in SelfClock
    BY <1>0, <2>1 DEF SelfInv
  <2> QED BY <2>4, <2>5, SelfOrder DEF LogAt
<1>5. Log!Decide(t, parts[t], maxTs[t])
  BY <1>1, <1>3, <1>4, LogSame DEF Log!Decide
<1>6. parts[t] \in (SUBSET Log!Partitions) \ {{}} /\ maxTs[t] \in Clock
  BY <1>0, LogSame DEF SelfClock
<1> QED BY <1>5, <1>6 DEF Log!LogNext

\* What is logged when the log of q grows
LEMMA LoggedGrows ==
    ASSUME TypeInv, NEW q \in Partitions, NEW req \in LogRequest, LogGrows(q, req)
    PROVE  \A p \in Partitions : \A u : Log!IsLogged(p, u)' <=> Log!IsLogged(p, u) \/ (p = q /\ u = req.txn)
<1>1. PICK n : n = Len(logChan[q])
  OBVIOUS
<1>2. /\ \A p \in Partitions \ {q} : logChan'[p] = logChan[p]
      /\ n \in Nat /\ Len(logChan'[q]) = n + 1
      /\ \A i \in 1 .. n : logChan'[q][i] = logChan[q][i]
      /\ \A i \in 1 .. (n + 1) : i \in 1 .. n \/ i = n + 1
      /\ logChan'[q][n + 1] = req
  BY <1>1, LogAppend
<1>3. \A p \in Partitions \ {q} : \A u : Log!IsLogged(p, u)' <=> Log!IsLogged(p, u)
  BY <1>2 DEF Log!IsLogged
<1>4. ASSUME NEW u PROVE Log!IsLogged(q, u)' <=> Log!IsLogged(q, u) \/ u = req.txn
  <2>1. ASSUME Log!IsLogged(q, u)' PROVE Log!IsLogged(q, u) \/ u = req.txn
    <3>1. PICK i \in 1 .. (n + 1) : logChan'[q][i].txn = u
      BY <1>2, <2>1 DEF Log!IsLogged
    <3> QED BY <1>1, <1>2, <3>1 DEF Log!IsLogged
  <2>2. ASSUME Log!IsLogged(q, u) PROVE Log!IsLogged(q, u)'
    <3>1. PICK i \in 1 .. n : logChan[q][i].txn = u
      BY <1>1, <2>2 DEF Log!IsLogged
    <3>2. i \in 1 .. (n + 1)
      BY <1>2
    <3> QED BY <1>2, <3>1, <3>2 DEF Log!IsLogged
  <2>3. ASSUME u = req.txn PROVE Log!IsLogged(q, u)'
    <3>1. n + 1 \in 1 .. (n + 1)
      BY <1>2
    <3> QED BY <1>2, <2>3, <3>1 DEF Log!IsLogged
  <2> QED BY <2>1, <2>2, <2>3
<1> QED BY <1>3, <1>4

\* A partition that applies a commit logs it as PartitionLog says, or has nothing to log.
LEMMA ApplyKeepsPromise ==
    ASSUME CommitInv, StageInv, CommitsAhead, CommitsAhead', LogIsDb, NEW q \in Partitions,
           NEW t \in Txns, AppliesAt(q, t), UNCHANGED <<pc, parts, maxTs>>,
           \/ t \in NoEffect /\ UNCHANGED logChan
           \/ t \notin NoEffect /\ LogGrows(q, Request("commit", t, maxTs[t]))
    PROVE  LogIsDb' /\ (Log!LogNext \/ UNCHANGED Log!logVars)
<1>0. /\ TypeInv /\ SelfInv /\ maxTs \in [Txns -> SelfClock] /\ stableClk \in [Partitions -> SelfClock]
      /\ pc[t] \in Committing /\ q \in parts[t] /\ q \notin AppliedAt(t) /\ q \in AppliedAt(t)'
      /\ \A u \in Txns : \A p \in Partitions :
            u # t \/ p # q => (p \in AppliedAt(u)' <=> p \in AppliedAt(u))
  BY DEF CommitInv, SelfInv, AppliesAt
<1>1. UNCHANGED <<LogInvolved, LogCommitTs>>
  BY DEF LogInvolved, LogCommitTs, IsDecided
<1>2. CASE t \in NoEffect /\ UNCHANGED logChan
  <2>1. \A p \in Partitions : \A u \in Txns : Log!IsLogged(p, u)' <=> Log!IsLogged(p, u)
    BY <1>2 DEF Log!IsLogged
  <2>2. LogIsDb'
    BY <1>0, <1>2, <2>1 DEF LogIsDb
  <2> QED BY <1>1, <1>2, <2>2 DEF Log!logVars
<1>3. CASE t \notin NoEffect /\ LogGrows(q, Request("commit", t, maxTs[t]))
  <2>1. PICK req : req = Request("commit", t, maxTs[t])
    OBVIOUS
  <2>2. req \in LogRequest /\ req.txn = t /\ LogGrows(q, req)
    BY <1>0, <1>3, <2>1 DEF Request, LogRequest, SelfClock
  <2>3. \A p \in Partitions : \A u \in Txns :
           Log!IsLogged(p, u)' <=> Log!IsLogged(p, u) \/ (p = q /\ u = t)
    BY <1>0, <2>2, LoggedGrows
  <2>4. LogIsDb'
    BY <1>0, <1>3, <2>3 DEF LogIsDb
  <2>5. t \in Log!Unlogged(q) /\ LogCommitTs[t] = maxTs[t]
    BY <1>0, <1>3 DEF Log!Unlogged, LogInvolved, LogCommitTs, IsDecided, Committing, LogIsDb
  <2>6. ASSUME NEW u \in Log!Unlogged(q) PROVE ~IsLower(LogCommitTs[u], LogCommitTs[t])
    <3>1. /\ u \in Txns /\ pc[u] \in Committing /\ q \in parts[u] /\ q \notin AppliedAt(u)
          /\ LogCommitTs[u] = maxTs[u]
      BY UnloggedAhead
    <3>2. /\ maxTs[t] \in SelfClock /\ maxTs[u] \in SelfClock
          /\ maxTs[t][Self] \in Nat /\ maxTs[u][Self] \in Nat
          /\ IsLower(maxTs[u], maxTs[t]) <=> maxTs[u][Self] < maxTs[t][Self]
      BY <1>0, <3>1, SelfOrder
    <3>3. CASE u = t
      BY <2>5, <3>2, <3>3
    <3>4. CASE u # t
      <4>1. stableClk'[q][Self] <= maxTs[u][Self]
        BY <1>0, <3>1, <3>4 DEF CommitsAhead, AheadOf
      <4>2. stableClk'[q] = Merge(stableClk[q], maxTs[t])
        BY <1>0 DEF AppliesAt
      <4>3. /\ stableClk'[q][Self] = IF stableClk[q][Self] > maxTs[t][Self] THEN stableClk[q][Self]
                                     ELSE maxTs[t][Self]
            /\ stableClk[q][Self] \in Nat
        BY <1>0, <4>2, SelfMerge, SelfOrder
      <4> QED BY <2>5, <3>1, <3>2, <4>1, <4>3
    <3> QED BY <3>3, <3>4
  <2>7. req = Log!CommitEntry(t)
    BY <2>1, <2>5 DEF Log!CommitEntry, Request
  <2>8. Log!LogCommit(q, t)
    BY <1>1, <2>2, <2>5, <2>6, <2>7, LogSame DEF Log!LogCommit, LogGrows
  <2> QED BY <2>4, <2>8, LogSame DEF Log!LogNext
<1> QED BY <1>2, <1>3

\* A clock that a partition announces is not above what it has still to log.
LEMMA AnnounceKeepsPromise ==
    ASSUME CommitInv, StageInv, CommitsAhead, CommitsAhead', LogIsDb, NEW q \in Partitions,
           NEW clk \in SelfClock, LogGrows(q, Request("clk", NoTxn, clk)),
           UNCHANGED <<db, pc, parts, maxTs>>
    PROVE  LogIsDb' /\ Log!LogNext
<1>0. TypeInv /\ maxTs \in [Txns -> SelfClock] /\ clk \in Clock
  BY DEF CommitInv, SelfInv, SelfClock
<1>1. PICK req : req = Request("clk", NoTxn, clk)
  OBVIOUS
<1>2. req \in LogRequest /\ req.txn = NoTxn /\ req.clk = clk /\ LogGrows(q, req)
  BY <1>0, <1>1 DEF Request, LogRequest
<1>3. \A p \in Partitions : \A u \in Txns : Log!IsLogged(p, u)' <=> Log!IsLogged(p, u)
  BY <1>0, <1>2, LoggedGrows, MaterializerConstants
<1>4. LogIsDb'
  BY <1>3 DEF LogIsDb, AppliedAt
<1>5. ASSUME NEW t \in Log!Unlogged(q) PROVE IsLowerOrEqual(clk, LogCommitTs[t])
  <2>1. /\ t \in Txns /\ pc[t] \in Committing /\ q \in parts[t] /\ q \notin AppliedAt(t)
        /\ LogCommitTs[t] = maxTs[t]
    BY UnloggedAhead
  <2>2. PICK n : n = Len(logChan[q])
    OBVIOUS
  <2>3. n \in Nat /\ Len(logChan'[q]) = n + 1 /\ logChan'[q][n + 1] = req
    BY <1>0, <1>2, <2>2, LogAppend
  <2>4. q \notin AppliedAt(t)' /\ AheadOf(q, t)'
    BY <2>1 DEF AppliedAt, CommitsAhead
  <2>5. n + 1 \in 1 .. Len(logChan'[q])
    BY <2>3
  <2>6. \A i \in 1 .. Len(logChan'[q]) : logChan'[q][i].clk[Self] <= maxTs[t][Self]
    BY <2>1, <2>4 DEF AheadOf, LogAt
  <2>7. clk[Self] <= maxTs[t][Self]
    BY <1>2, <2>3, <2>5, <2>6
  <2> QED BY <1>0, <2>1, <2>7, SelfOrder
<1>6. req = Log!ClkEntry(clk)
  BY <1>1 DEF Log!ClkEntry, Request
<1>7. UNCHANGED <<LogInvolved, LogCommitTs>>
  BY DEF LogInvolved, LogCommitTs, IsDecided
<1>8. Log!AnnounceClk(q, clk)
  BY <1>2, <1>5, <1>6, <1>7, LogSame DEF Log!AnnounceClk, LogGrows
<1> QED BY <1>0, <1>4, <1>8, LogSame DEF Log!LogNext

\* Every step of the server is a step of PartitionLog or leaves what it sees alone.
LEMMA StepKeepsPromise ==
    ASSUME CommitInv, CommitInv', StageInv, StageInv', CommitsAhead, CommitsAhead', LogIsDb,
           WroteNothing', [Next]_vars
    PROVE  LogIsDb' /\ [Log!LogNext]_(Log!logVars)
<1>0. TypeInv /\ LifeInv /\ WaitInv /\ LifeInv'
  BY DEF CommitInv
<1>1. \A u \in StaticReaders : parts'[u] = {}
  BY <1>0, ManagerConstants DEF LifeInv, TxnOK, KindOK
<1>2. ASSUME NEW q \in Partitions, Partition(q)
      PROVE  LogIsDb' /\ [Log!LogNext]_(Log!logVars)
  <2>1. UNCHANGED <<pc, parts, maxTs>>
    BY <1>2 DEF Partition, txnVars
  <2>2. CASE UNCHANGED <<db, logChan>>
    <3>1. \A p \in Partitions : \A u \in Txns : Log!IsLogged(p, u)' <=> Log!IsLogged(p, u)
      BY <2>2 DEF Log!IsLogged
    <3>2. LogIsDb'
      BY <2>2, <3>1 DEF LogIsDb, AppliedAt
    <3> QED BY <2>1, <2>2, <3>2 DEF Log!logVars, LogInvolved, LogCommitTs, IsDecided
  <2> QED BY <1>2, <2>1, <2>2, PartitionLogs, ApplyKeepsPromise, AnnounceKeepsPromise
<1>3. ASSUME UNCHANGED partVars
      PROVE  LogIsDb' /\ UNCHANGED logChan
  <2>1. \A p \in Partitions : \A u \in Txns : Log!IsLogged(p, u)' <=> Log!IsLogged(p, u)
    BY <1>3 DEF Log!IsLogged, partVars
  <2> QED BY <1>3, <2>1 DEF LogIsDb, AppliedAt, partVars
<1>4. ASSUME NEW t \in Txns, NotifyCommit(t)
      PROVE  LogIsDb' /\ [Log!LogNext]_(Log!logVars)
  <2>1. UNCHANGED partVars
    BY <1>4 DEF NotifyCommit
  <2>2. CASE t \notin NoEffect /\ parts[t] # {}
    BY <1>3, <1>4, <2>1, <2>2, NotifyDecides
  <2>3. CASE t \in NoEffect \/ parts[t] = {}
    <3>1. /\ pc[t] \notin Committing /\ UNCHANGED <<parts, maxTs>>
          /\ \A u \in Txns \ {t} : pc'[u] = pc[u]
      BY <1>0, <1>4 DEF NotifyCommit, Committing, TypeInv, TypeOK
    <3>2. \A u \in Txns : Stays(u) \/ Unseen(u)
      BY <2>3, <3>1 DEF Stays, Unseen
    <3> QED BY <1>1, <1>3, <2>1, <3>2, NoDecision DEF Log!logVars
  <2> QED BY <2>2, <2>3
<1>5. CASE UNCHANGED partVars /\ \A t \in Txns : ~NotifyCommit(t)
  <2>1. \A u \in Txns : Stays(u)
    BY <1>0, <1>5, OthersStay
  <2>2. \A u \in Txns : Stays(u) \/ Unseen(u)
    BY <2>1
  <2> QED BY <1>1, <1>3, <1>5, <2>2, NoDecision DEF Log!logVars
<1>6. UNCHANGED partVars \/ \E q \in Partitions : Partition(q)
  BY OtherSteps DEF Next, vars
<1> QED BY <1>2, <1>4, <1>5, <1>6

\* The partitions and the transaction manager keep the promise that PartitionLog states to the
\* loggers: transactions are decided once, each of their partitions logs them once and in the
\* order of the timestamps, and nothing is logged below a clock that has been announced.
THEOREM PromiseIsKept == Spec => Log!LogSpec
<1>1. Init => Log!LogInit /\ LogIsDb /\ WroteNothing
  <2> SUFFICES ASSUME Init PROVE Log!LogInit /\ LogIsDb /\ WroteNothing
    OBVIOUS
  <2>1. /\ pc = [t \in Txns |-> "idle"] /\ db = [p \in Partitions |-> {}]
        /\ logChan = [p \in Partitions |-> <<>>] /\ maxTs = [t \in Txns |-> NewTimestamp]
    BY DEF Init, MatInit
  <2>2. \A t \in Txns : ~IsDecided(t)
    BY <2>1 DEF IsDecided
  <2>3. Log!LogInit
    BY <2>1, <2>2, LogSame DEF Log!LogInit, LogInvolved, LogCommitTs
  <2>4. \A p \in Partitions : Len(logChan[p]) = 0
    BY <2>1
  <2>5. LogIsDb
    BY <2>1, <2>4 DEF LogIsDb, Log!IsLogged, AppliedAt
  <2> QED BY <2>1, <2>3, <2>5 DEF WroteNothing
<1>2. CommitInv /\ StageInv => CommitsAhead /\ TypeInv /\ LifeInv /\ WaitInv
  BY CommitsAreAhead DEF CommitInv
<1>3. TypeInv /\ LifeInv /\ WaitInv /\ WroteNothing /\ [Next]_vars => WroteNothing'
  BY NextWrote
<1>4. /\ CommitInv /\ CommitInv' /\ StageInv /\ StageInv' /\ CommitsAhead /\ CommitsAhead'
      /\ LogIsDb /\ WroteNothing' /\ [Next]_vars
      => LogIsDb' /\ [Log!LogNext]_(Log!logVars)
  BY StepKeepsPromise
<1> QED BY <1>1, <1>2, <1>3, <1>4, RepliesHold, PTL DEF Spec, Log!LogSpec

-----------------------------------------------------------------------------
(* A static read of one object *)

\* What a partition has applied is not above its stable clock.
AppliedBelow == \A u \in Txns : \A p \in AppliedAt(u) : maxTs[u][Self] <= stableClk[p][Self]

\* A decision stays what it is.
LEMMA DecidedStay ==
    ASSUME TypeInv, LifeInv, WaitInv, [Next]_vars, NEW u \in Txns, pc[u] \in Committing
    PROVE  pc'[u] \in Committing /\ parts'[u] = parts[u] /\ maxTs'[u] = maxTs[u]
<1>1. CASE \A t \in Txns : ~NotifyCommit(t)
  BY <1>1, OthersStay DEF Stays
<1>2. ASSUME NEW t \in Txns, NotifyCommit(t)
      PROVE  pc'[u] \in Committing /\ parts'[u] = parts[u] /\ maxTs'[u] = maxTs[u]
  BY <1>2 DEF NotifyCommit, Committing, TypeInv, TypeOK
<1> QED BY <1>1, <1>2

\* The stable clock of a partition does not go back.
LEMMA StableAdvances ==
    ASSUME TypeInv, SelfInv, SelfInv', [Next]_vars, NEW p \in Partitions
    PROVE  /\ stableClk[p][Self] \in Nat /\ stableClk'[p][Self] \in Nat
           /\ stableClk[p][Self] <= stableClk'[p][Self]
<1>1. stableClk[p] \in SelfClock /\ stableClk'[p] \in SelfClock
  BY DEF SelfInv
<1>2. IsLowerOrEqual(stableClk[p], stableClk'[p])
  BY NextClocks DEF ClocksStep
<1> QED BY <1>1, <1>2, SelfOrder

\* applyCommit merges the timestamp of the commit it applies into the stable clock.
LEMMA NextApplied ==
    ASSUME CommitInv, CommitInv', StageInv, AppliedBelow, [Next]_vars
    PROVE  AppliedBelow'
<1>0. /\ TypeInv /\ LifeInv /\ WaitInv /\ SelfInv /\ SelfInv'
      /\ stableClk \in [Partitions -> SelfClock] /\ maxTs \in [Txns -> SelfClock]
      /\ maxTs' \in [Txns -> SelfClock]
  BY DEF CommitInv, SelfInv
<1> SUFFICES ASSUME NEW u \in Txns, NEW p \in AppliedAt(u)'
             PROVE  maxTs'[u][Self] <= stableClk'[p][Self]
  BY DEF AppliedBelow
<1>1. /\ p \in Partitions /\ stableClk[p][Self] \in Nat /\ stableClk'[p][Self] \in Nat
      /\ stableClk[p][Self] <= stableClk'[p][Self] /\ maxTs[u][Self] \in Nat
  BY <1>0, StableAdvances, SelfOrder DEF AppliedAt
<1>2. CASE p \in AppliedAt(u)
  <2>1. pc[u] \in Committing
    BY <1>1, <1>2 DEF StageInv, StageOK, AppliedOK
  <2>2. maxTs'[u] = maxTs[u] /\ maxTs[u][Self] <= stableClk[p][Self]
    BY <1>0, <1>2, <2>1, DecidedStay DEF AppliedBelow
  <2> QED BY <1>1, <2>2
<1>3. CASE p \notin AppliedAt(u)
  <2>1. PICK q \in Partitions : Partition(q)
    <3>1. CASE UNCHANGED partVars
      BY <1>3, <3>1 DEF AppliedAt, partVars
    <3> QED BY <3>1, OtherSteps DEF Next, vars
  <2>2. PICK t \in Txns : AppliesAt(q, t)
    <3>1. CASE UNCHANGED db
      BY <1>3, <3>1 DEF AppliedAt
    <3> QED BY <1>0, <2>1, <3>1, PartitionStage
  <2>3. u = t /\ p = q /\ stableClk'[q] = Merge(stableClk[q], maxTs[t]) /\ maxTs' = maxTs
    BY <1>0, <1>1, <1>3, <2>1, <2>2 DEF AppliesAt, Partition, txnVars
  <2>4. /\ stableClk'[q][Self] = IF stableClk[q][Self] > maxTs[t][Self] THEN stableClk[q][Self]
                                 ELSE maxTs[t][Self]
    BY <1>0, <2>3, SelfMerge
  <2> QED BY <1>1, <2>3, <2>4
<1> QED BY <1>2, <1>3

\* The reply r is a snapshot of its partition at clock c: it has only seen commits up to c, and
\* all the ones below c.  The partition has reached c.
Snapshot(r, c) ==
    /\ c \in SelfClock /\ r.part \in Partitions /\ c[Self] <= stableClk[r.part][Self]
    /\ \A u \in Txns :
          /\ u \in r.seen => pc[u] \in Committing /\ maxTs[u][Self] <= c[Self]
          /\ r.part \in parts[u] /\ pc[u] \in Committing /\ maxTs[u][Self] < c[Self] => u \in r.seen

\* What a partition has applied is a snapshot at its stable clock.
LEMMA DbIsSnapshot ==
    ASSUME CommitInv, StageInv, CommitsAhead, AppliedBelow, NEW q \in Partitions,
           NEW r, r.part = q, r.seen = db[q], NEW c, c = stableClk[q]
    PROVE  Snapshot(r, c)
<1>0. c \in SelfClock /\ c[Self] \in Nat /\ \A u \in Txns : maxTs[u][Self] \in Nat
  BY SelfOrder DEF CommitInv, SelfInv
<1>1. ASSUME NEW u \in Txns, u \in db[q] PROVE pc[u] \in Committing /\ maxTs[u][Self] <= c[Self]
  <2>1. q \in AppliedAt(u)
    BY <1>1 DEF AppliedAt
  <2> QED BY <2>1 DEF AppliedBelow, StageInv, StageOK, AppliedOK
<1>2. ASSUME NEW u \in Txns, q \in parts[u], pc[u] \in Committing, maxTs[u][Self] < c[Self]
      PROVE  u \in db[q]
  <2>1. q \in AppliedAt(u)
    BY <1>0, <1>2 DEF CommitsAhead, AheadOf
  <2> QED BY <2>1 DEF AppliedAt
<1> QED BY <1>0, <1>1, <1>2 DEF Snapshot

\* It stays one: what commits later is not below the clock its partitions have reached.
LEMMA SnapshotsKept ==
    ASSUME CommitInv, CommitInv', StageInv, CommitsAhead', [Next]_vars, NEW r, NEW c, Snapshot(r, c)
    PROVE  Snapshot(r, c)'
<1>0. /\ TypeInv /\ LifeInv /\ WaitInv /\ SelfInv /\ SelfInv'
      /\ c[Self] \in Nat /\ \A u \in Txns : maxTs'[u][Self] \in Nat
  BY SelfOrder DEF CommitInv, SelfInv, Snapshot
<1>1. PICK p \in Partitions : p = r.part
  BY DEF Snapshot
<1>2. c[Self] <= stableClk'[p][Self] /\ stableClk'[p][Self] \in Nat
  BY <1>0, <1>1, StableAdvances DEF Snapshot
<1>3. ASSUME NEW u \in Txns, u \in r.seen PROVE pc'[u] \in Committing /\ maxTs'[u][Self] <= c[Self]
  BY <1>0, <1>3, DecidedStay DEF Snapshot
<1>4. ASSUME NEW u \in Txns, p \in parts'[u], pc'[u] \in Committing, maxTs'[u][Self] < c[Self]
      PROVE  u \in r.seen
  <2>1. CASE pc[u] \in Committing
    BY <1>0, <1>1, <1>4, <2>1, DecidedStay DEF Snapshot
  <2>2. CASE pc[u] \notin Committing
    <3>1. p \notin AppliedAt(u)
      BY <2>2 DEF StageInv, StageOK, AppliedOK
    <3>2. UNCHANGED partVars
      <4>1. ~ \E q \in Partitions : Partition(q)
        BY <1>4, <2>2 DEF Partition, txnVars
      <4> QED BY <4>1, OtherSteps DEF Next, vars
    <3>3. p \notin AppliedAt(u)'
      BY <3>1, <3>2 DEF AppliedAt, partVars
    <3>4. stableClk'[p][Self] <= maxTs'[u][Self]
      BY <1>4, <3>3 DEF CommitsAhead, AheadOf
    <3> QED BY <1>0, <1>2, <1>4, <3>4
  <2> QED BY <2>1, <2>2
<1> QED BY <1>1, <1>2, <1>3, <1>4 DEF Snapshot

\* The partitions where a request of t waits
AskedAt(t) == {p \in Partitions : Sent(p, t) # {}}

\* Before a static read asks a partition
Early == {"idle", "wait", "blocked", "active"}

\* The clocks that the reply of a static read of one object may carry
ReadClks(t) == IF pc[t] = "single" THEN Replies(t) ELSE {txnClk[t]}

\* A static read that has not asked anything has no replies; "reading" tells which of the two
\* kinds of read it is.
ReaderPhase(t) ==
    /\ pc[t] \in Early => reading[t] = {} /\ readChan[t] = {} /\ Replies(t) = {}
    /\ pc[t] = "read" => reading[t] # {}
    /\ pc[t] = "single" => reading[t] = {}

\* A static read of one object asks one partition, and has no reply while the request waits.
OneRequest(t) ==
    pc[t] \in {"single", "done"} => \A p \in AskedAt(t) :
        pc[t] = "single" /\ readChan[t] = {} /\ Replies(t) = {} /\ AskedAt(t) = {p}

\* What it has received is a snapshot at the clock of the reply.
ReadSnapshot(t) ==
    pc[t] \in {"single", "done"} /\ reading[t] = {} =>
        \A r \in readChan[t] : \A c \in ReadClks(t) : Snapshot(r, c)

ReaderOK(t) == ReaderPhase(t) /\ OneRequest(t) /\ ReadSnapshot(t)

ReaderInv == \A t \in StaticReaders : ReaderOK(t)

\* A step that does not concern a static read t
SameReader(t) ==
    /\ reading'[t] = reading[t] /\ readChan'[t] = readChan[t] /\ Replies(t)' = Replies(t)
    /\ AskedAt(t)' = AskedAt(t)
    /\ \/ pc'[t] = pc[t] /\ txnClk'[t] = txnClk[t]
       \/ pc[t] \in Early /\ pc'[t] \in Early

\* What the read has received stays a snapshot.
AllSnapshotsKept == \A r, c : Snapshot(r, c) => Snapshot(r, c)'

LEMMA SameReaderKeeps ==
    ASSUME NEW t \in Txns, ReaderOK(t), SameReader(t), AllSnapshotsKept
    PROVE  ReaderOK(t)'
<1>1. ReaderPhase(t)'
  BY DEF ReaderOK, ReaderPhase, SameReader, Early
<1>2. OneRequest(t)'
  BY DEF ReaderOK, OneRequest, SameReader, Early
<1>3. ReadSnapshot(t)'
  <2> SUFFICES ASSUME pc'[t] \in {"single", "done"}, reading'[t] = {},
                      NEW r \in readChan'[t], NEW c \in ReadClks(t)'
               PROVE  Snapshot(r, c)'
    BY DEF ReadSnapshot
  <2>1. pc'[t] = pc[t] /\ txnClk'[t] = txnClk[t]
    BY DEF SameReader, Early
  <2>2. c \in ReadClks(t) /\ r \in readChan[t]
    BY <2>1 DEF ReadClks, SameReader
  <2>3. Snapshot(r, c)
    BY <2>1, <2>2 DEF ReaderOK, ReadSnapshot, SameReader
  <2> QED BY <2>3 DEF AllSnapshotsKept
<1> QED BY <1>1, <1>2, <1>3 DEF ReaderOK

\* A static read has no request at a partition before it asks, and only reads.
LEMMA ReaderSends ==
    ASSUME TypeInv, LifeInv, NEW t \in Txns, t \in StaticReaders, NEW p \in Partitions,
           NEW m \in Sent(p, t)
    PROVE  \/ m.type = "read" /\ pc[t] = "read" /\ p \in reading[t] /\ \A r \in readChan[t] : r.part # p
           \/ m.type = "singleRead" /\ pc[t] \in {"single", "done"}
<1>1. MsgOK(m, p, t) /\ KindOK(t) /\ PartOK(p, t)
  BY DEF LifeInv, TxnOK, SentOK
<1>2. m.type \in {"staticWrite", "write", "prepare", "commit", "abort", "read", "singleRead"}
  BY SentType DEF TxnReqTypes
<1>3. t \notin Interactive /\ parts[t] = {}
  BY <1>1, ManagerConstants DEF KindOK
<1>4. m.type \notin {"staticWrite", "write", "prepare", "abort"}
  BY <1>1, <1>3 DEF MsgOK, KindOK
<1>5. m.type # "commit"
  <2>1. m.type = "commit" => p \in PreparedAt(t)
    BY <1>1, Zenon DEF MsgOK
  <2>2. p \in PreparedAt(t) => p \in parts[t]
    BY <1>1, ZenonT(60) DEF PartOK
  <2> QED BY <1>3, <2>1, <2>2
<1> QED BY <1>1, <1>2, <1>4, <1>5 DEF MsgOK

\* What the step of a partition does to a static read t: nothing, or it replies to one of its
\* requests.
LEMMA PartitionReader ==
    ASSUME TypeInv, LifeInv, NEW q \in Partitions, Partition(q), NEW t \in Txns, t \in StaticReaders
    PROVE  \/ SameReader(t)
           \/ pc[t] = "read" /\ pc'[t] = "read" /\ reading'[t] = reading[t]
           \/ /\ pc[t] \in {"single", "done"} /\ q \in AskedAt(t) /\ AskedAt(t)' = AskedAt(t) \ {q}
              /\ pc'[t] = pc[t] /\ txnClk'[t] = txnClk[t] /\ reading'[t] = reading[t]
              /\ readChan'[t] = {[part |-> q, seen |-> db[q]]}
              /\ Replies(t)' = Replies(t) \cup {stableClk[q]}
<1>0. /\ PartitionStep(q) /\ UNCHANGED <<pc, reading, txnClk>>
      /\ readChan \in [Txns -> SUBSET ReadReply] /\ replyChan \in [Txns -> Seq(Clock)]
      /\ stableClk \in [Partitions -> Clock]
  BY DEF Partition, txnVars, TypeInv, TypeOK, MatTypeOK
<1>1. PICK m : m = Head(channels[q])
  OBVIOUS
<1>2. CASE CheckHoldCommits(q)
  <2>1. UNCHANGED <<channels, replyChan, readChan>>
    BY <1>2 DEF CheckHoldCommits
  <2>2. AskedAt(t)' = AskedAt(t) /\ Replies(t)' = Replies(t)
    BY <2>1 DEF AskedAt, Sent, Waiting, Replies
  <2> QED BY <1>0, <2>1, <2>2 DEF SameReader
<1>3. CASE \E type : Takes(q, type)
  <2>1. PICK type : Takes(q, type)
    BY <1>3
  <2>2. /\ m.type = type /\ m \in Sent(q, m.txn)
        /\ \A p \in Partitions, u \in Txns : p # q \/ u # m.txn => Sent(p, u)' = Sent(p, u)
        /\ m.txn \in Txns /\ type # "write" => Sent(q, m.txn) = {m} /\ Sent(q, m.txn)' = {}
    BY <1>1, <2>1, SentTaken DEF LifeInv
  <2>3. CASE m.txn # t
    <3>1. AskedAt(t)' = AskedAt(t)
      <4>1. \A p \in Partitions : Sent(p, t)' = Sent(p, t)
        BY <2>2, <2>3, ZenonT(60)
      <4> QED BY <4>1 DEF AskedAt
    <3>2. readChan'[t] = readChan[t] /\ replyChan'[t] = replyChan[t]
      BY <1>0, <1>1, <2>3 DEF PartitionStep, HandleMatStaticWrite, HandleMatWrite, HandleMatPrepare,
          HandleMatCommit, CheckHoldCommits, HandleMatAbort, HandleMatRead,
          HandleMatStaticSingleRead, HandleMatSafeClk, PrepareClock
    <3> QED BY <1>0, <3>1, <3>2, Zenon DEF SameReader, Replies
  <2>4. CASE m.txn = t
    <3>1. \/ m.type = "read" /\ pc[t] = "read"
          \/ m.type = "singleRead" /\ pc[t] \in {"single", "done"}
      BY <2>2, <2>4, ReaderSends
    <3>2. CASE m.type = "singleRead" /\ pc[t] \in {"single", "done"}
      <4>1. HandleMatStaticSingleRead(q)
        BY <1>0, <1>1, <3>2, <2>1, <2>2 DEF PartitionStep, HandleMatStaticWrite, HandleMatWrite, HandleMatPrepare,
          HandleMatCommit, CheckHoldCommits, HandleMatAbort, HandleMatRead, HandleMatSafeClk, Takes
      <4>2. /\ readChan' = [readChan EXCEPT ![t] = {[part |-> q, seen |-> db[q]]}]
            /\ replyChan' = [replyChan EXCEPT ![t] = Append(replyChan[t], stableClk[q])]
        BY <1>1, <2>4, <4>1 DEF HandleMatStaticSingleRead
      <4>3. readChan'[t] = {[part |-> q, seen |-> db[q]]}
        BY <1>0, <4>2
      <4>4. Replies(t)' = Replies(t) \cup {stableClk[q]}
        BY <1>0, <4>2, RepliesAppend
      <4>5. q \in AskedAt(t) /\ AskedAt(t)' = AskedAt(t) \ {q}
        BY <2>2, <2>4, <3>2 DEF AskedAt
      <4> QED BY <1>0, <3>2, <4>3, <4>4, <4>5, SMTT(60)
    <3> QED BY <1>0, <3>1, <3>2
  <2> QED BY <2>3, <2>4
<1> QED BY <1>0, <1>2, <1>3 DEF PartitionStep, HandleMatStaticWrite, HandleMatWrite, HandleMatPrepare,
          HandleMatCommit, HandleMatAbort, HandleMatRead, HandleMatStaticSingleRead, HandleMatSafeClk

\* A partition answers a static read with a snapshot.
LEMMA PartitionReaderKeeps ==
    ASSUME CommitInv, StageInv, CommitsAhead, AppliedBelow, AllSnapshotsKept, NEW q \in Partitions,
           Partition(q), NEW t \in Txns, t \in StaticReaders, ReaderOK(t)
    PROVE  ReaderOK(t)'
<1>0. TypeInv /\ LifeInv /\ ReaderPhase(t) /\ OneRequest(t)
  BY DEF CommitInv, ReaderOK
<1>1. CASE SameReader(t)
  BY <1>1, SameReaderKeeps
<1>2. CASE pc[t] = "read" /\ pc'[t] = "read" /\ reading'[t] = reading[t]
  BY <1>0, <1>2 DEF ReaderOK, ReaderPhase, OneRequest, ReadSnapshot, Early
<1>3. CASE /\ pc[t] \in {"single", "done"} /\ q \in AskedAt(t) /\ AskedAt(t)' = AskedAt(t) \ {q}
           /\ pc'[t] = pc[t] /\ txnClk'[t] = txnClk[t] /\ reading'[t] = reading[t]
           /\ readChan'[t] = {[part |-> q, seen |-> db[q]]}
           /\ Replies(t)' = Replies(t) \cup {stableClk[q]}
  <2>1. pc[t] = "single" /\ Replies(t) = {} /\ AskedAt(t)' = {} /\ reading[t] = {}
    BY <1>0, <1>3 DEF OneRequest, ReaderPhase
  <2>2. PICK r, c : r = [part |-> q, seen |-> db[q]] /\ c = stableClk[q]
    OBVIOUS
  <2>3. Snapshot(r, c)'
    BY <2>2, DbIsSnapshot DEF AllSnapshotsKept
  <2>4. readChan'[t] = {r} /\ Replies(t)' = {c}
    BY <1>3, <2>1, <2>2
  <2>5. ReadClks(t)' = {c}
    BY <1>3, <2>1, <2>4 DEF ReadClks
  <2>6. ReadSnapshot(t)'
    BY <2>3, <2>4, <2>5 DEF ReadSnapshot
  <2>7. ReaderPhase(t)' /\ OneRequest(t)'
    BY <1>3, <2>1 DEF ReaderPhase, OneRequest, Early
  <2> QED BY <2>6, <2>7 DEF ReaderOK
<1> QED BY <1>0, <1>1, <1>2, <1>3, PartitionReader

\* The requests that the goroutine of a transaction sends are its own.
LEMMA OwnRequests ==
    ASSUME TypeInv, NEW u \in Txns, TxnStep(u) \/ ClientStep(u)
    PROVE  \A t \in Txns \ {u} : AskedAt(t)' = AskedAt(t)
<1>0. txnClk \in [Txns -> Clock] /\ maxTs \in [Txns -> Clock]
  BY DEF TypeInv, TypeOK
<1>1. ASSUME NEW q \in Partitions, NEW m \in MatRequest, m.txn = u, SendRequest(q, m)
      PROVE  \A t \in Txns \ {u} : AskedAt(t)' = AskedAt(t)
  BY <1>1, SentAppends DEF AskedAt
<1>2. ASSUME NEW q \in Partitions, SendRead(u, q)
      PROVE  \A t \in Txns \ {u} : AskedAt(t)' = AskedAt(t)
  <2>1. PICK m : m = Request("read", u, txnClk[u])
    OBVIOUS
  <2>2. SendRequest(q, m) /\ m \in MatRequest /\ m.txn = u
    BY <1>0, <1>2, <2>1 DEF SendRead, Request, MatRequest, TxnReqTypes
  <2> QED BY <1>1, <2>2
<1>3. ASSUME NEW q \in Partitions, SendToPartition(u, q)
      PROVE  \A t \in Txns \ {u} : AskedAt(t)' = AskedAt(t)
  <2>1. PICK m : m = LoopRequest(u)
    OBVIOUS
  <2>2. pc[u] \in {"write", "prepare", "commit", "abort"} /\ SendRequest(q, m)
    BY <1>3, <2>1 DEF SendToPartition
  <2>3. m \in MatRequest /\ m.txn = u
    BY <1>0, <2>1, <2>2, NewTimestampType DEF LoopRequest, Request, MatRequest, TxnReqTypes
  <2> QED BY <1>1, <2>2, <2>3
<1>4. ASSUME SingleRead(u)
      PROVE  \A t \in Txns \ {u} : AskedAt(t)' = AskedAt(t)
  <2>1. PICK m : m = Request("singleRead", u, NewTimestamp)
    OBVIOUS
  <2>2. PICK q \in Partitions : SendRequest(q, m)
    BY <1>4, <2>1 DEF SingleRead
  <2>3. m \in MatRequest /\ m.txn = u
    BY <2>1, NewTimestampType DEF Request, MatRequest, TxnReqTypes
  <2> QED BY <1>1, <2>2, <2>3
<1>5. ASSUME UNCHANGED channels PROVE \A t \in Txns \ {u} : AskedAt(t)' = AskedAt(t)
  BY <1>5 DEF AskedAt, Sent, Waiting
<1>6. CASE ClientStep(u)
  BY <1>4, <1>5, <1>6 DEF ClientStep, StartTxn, StaticUpdate, Read, Update, Commit, Abort, LostConn,
                          chanVars
<1>7. CASE TxnStep(u)
  BY <1>2, <1>3, <1>5, <1>7 DEF TxnStep, SendWaitClock, EndRead, EndSingleRead,
                                ReceivePrepareReply, NotifyCommit, chanVars
<1> QED BY <1>6, <1>7

\* The steps of other goroutines do not concern a static read.
LEMMA OtherReader ==
    ASSUME TypeInv, NEW u \in Txns, TxnStep(u) \/ ClientStep(u), NEW t \in Txns, t # u
    PROVE  SameReader(t)
<1>0. /\ pc \in [Txns -> Phases] /\ reading \in [Txns -> SUBSET Partitions]
      /\ txnClk \in [Txns -> Clock] /\ readChan \in [Txns -> SUBSET ReadReply]
      /\ replyChan \in [Txns -> Seq(Clock)]
  BY DEF TypeInv, TypeOK, MatTypeOK
<1>1. CASE ClientStep(u)
  <2>1. /\ pc'[t] = pc[t] /\ reading'[t] = reading[t] /\ txnClk'[t] = txnClk[t]
        /\ readChan'[t] = readChan[t] /\ replyChan'[t] = replyChan[t]
    BY <1>0, <1>1 DEF ClientStep, StartTxn, GetClockToUse, SingleRead, StaticUpdate, Read, Update,
                      Commit, Abort, LostConn, chanVars
  <2> QED BY <1>1, <2>1, OwnRequests DEF SameReader, Replies
<1>2. CASE TxnStep(u)
  <2>1. /\ pc'[t] = pc[t] /\ reading'[t] = reading[t] /\ txnClk'[t] = txnClk[t]
        /\ readChan'[t] = readChan[t] /\ replyChan'[t] = replyChan[t]
    BY <1>0, <1>2 DEF TxnStep, SendWaitClock, SendRead, SendToPartition, EndRead, EndSingleRead,
                      ReceivePrepareReply, NotifyCommit, chanVars
  <2> QED BY <1>2, <2>1, OwnRequests DEF SameReader, Replies
<1> QED BY <1>1, <1>2

\* A static read keeps the facts about itself.
LEMMA OwnReader ==
    ASSUME TypeInv, LifeInv, AllSnapshotsKept, NEW t \in Txns, t \in StaticReaders, ReaderOK(t),
           TxnStep(t) \/ ClientStep(t)
    PROVE  ReaderOK(t)'
<1>0. /\ pc \in [Txns -> Phases] /\ reading \in [Txns -> SUBSET Partitions]
      /\ txnClk \in [Txns -> Clock] /\ readChan \in [Txns -> SUBSET ReadReply]
      /\ replyChan \in [Txns -> Seq(Clock)]
      /\ ReaderPhase(t) /\ OneRequest(t) /\ ReadSnapshot(t)
  BY DEF TypeInv, TypeOK, MatTypeOK, ReaderOK
<1>1. t \notin Interactive /\ t \notin StaticUpdaters
      /\ pc[t] \in {"idle", "wait", "blocked", "active", "read", "single", "done"}
  BY ManagerConstants DEF LifeInv, TxnOK, KindOK
<1>2. CASE StartTxn(t) \/ SendWaitClock(t)
  <2>1. /\ UNCHANGED <<channels, replyChan, readChan, reading>>
        /\ pc[t] \in {"idle", "wait"} /\ pc'[t] \in {"active", "wait", "blocked"}
    BY <1>0, <1>2 DEF StartTxn, GetClockToUse, SendWaitClock, chanVars
  <2>2. AskedAt(t)' = AskedAt(t) /\ Replies(t)' = Replies(t)
    BY <2>1 DEF AskedAt, Sent, Waiting, Replies
  <2>3. SameReader(t)
    BY <2>1, <2>2 DEF SameReader, Early
  <2> QED BY <2>3, SameReaderKeeps
<1>3. CASE Read(t) \/ \E p \in Partitions : SendRead(t, p)
  <2>1. \A P \in Targets : P # {}
    BY DEF Targets
  <2>2. pc'[t] = "read" /\ reading'[t] # {}
    <3>1. CASE Read(t)
      BY <1>0, <2>1, <3>1 DEF Read
    <3>2. CASE \E p \in Partitions : SendRead(t, p)
      BY <1>0, <3>2 DEF SendRead, ReaderPhase
    <3> QED BY <1>3, <3>1, <3>2
  <2> QED BY <2>2 DEF ReaderOK, ReaderPhase, OneRequest, ReadSnapshot, Early
<1>4. CASE EndRead(t)
  <2>1. /\ pc[t] = "read" /\ pc'[t] = "done" /\ {r.part : r \in readChan[t]} = reading[t]
        /\ UNCHANGED <<channels, reading>>
    BY <1>0, <1>4 DEF EndRead, chanVars
  <2>2. AskedAt(t) = {}
    <3> SUFFICES ASSUME NEW p \in Partitions, NEW m \in Sent(p, t) PROVE FALSE
      BY DEF AskedAt
    <3>1. p \in reading[t] /\ \A r \in readChan[t] : r.part # p
      BY <2>1, ReaderSends
    <3> QED BY <2>1, <3>1
  <2>3. AskedAt(t)' = {}
    <3>1. AskedAt(t)' = AskedAt(t)
      BY <2>1 DEF AskedAt, Sent, Waiting
    <3> QED BY <2>2, <3>1
  <2>4. reading'[t] # {}
    BY <1>0, <2>1 DEF ReaderPhase
  <2> QED BY <2>1, <2>3, <2>4 DEF ReaderOK, ReaderPhase, OneRequest, ReadSnapshot, Early
<1>5. CASE SingleRead(t)
  <2>1. PICK m : m = Request("singleRead", t, NewTimestamp)
    OBVIOUS
  <2>2. PICK q \in Partitions : SendRequest(q, m)
    BY <1>5, <2>1 DEF SingleRead
  <2>3. m \in MatRequest /\ m.txn = t
    BY <2>1, NewTimestampType DEF Request, MatRequest, TxnReqTypes
  <2>4. pc[t] = "idle" /\ pc'[t] = "single" /\ UNCHANGED <<replyChan, readChan, reading>>
    BY <1>0, <1>5 DEF SingleRead
  <2>5. \A p \in Partitions : Sent(p, t) = {}
    BY <2>4, ReaderSends
  <2>6. AskedAt(t)' = {q}
    BY <2>2, <2>3, <2>5, SentAppends DEF AskedAt
  <2>7. reading[t] = {} /\ readChan[t] = {} /\ Replies(t) = {}
    BY <1>0, <2>4 DEF ReaderPhase, Early
  <2>8. Replies(t)' = {}
    BY <2>4, <2>7 DEF Replies
  <2> QED BY <2>4, <2>6, <2>7, <2>8 DEF ReaderOK, ReaderPhase, OneRequest, ReadSnapshot, Early
<1>6. CASE EndSingleRead(t)
  <2>1. PICK c : c = Head(replyChan[t])
    OBVIOUS
  <2>2. /\ pc[t] = "single" /\ replyChan[t] # <<>> /\ pc'[t] = "done" /\ txnClk'[t] = c
        /\ replyChan' = [replyChan EXCEPT ![t] = Tail(replyChan[t])]
        /\ UNCHANGED <<channels, readChan, reading>>
    BY <1>0, <1>6, <2>1 DEF EndSingleRead
  <2>3. c \in Replies(t)
    BY <2>1, <2>2, RepliesTail
  <2>4. AskedAt(t) = {} /\ reading[t] = {}
    BY <1>0, <2>2, <2>3 DEF OneRequest, ReaderPhase
  <2>5. AskedAt(t)' = {}
    <3>1. AskedAt(t)' = AskedAt(t)
      BY <2>2 DEF AskedAt, Sent, Waiting
    <3> QED BY <2>4, <3>1
  <2>6. \A r \in readChan[t] : Snapshot(r, c)
    BY <1>0, <2>2, <2>3, <2>4 DEF ReadSnapshot, ReadClks
  <2>7. ReadClks(t)' = {c}
    BY <2>2 DEF ReadClks
  <2>8. ReadSnapshot(t)'
    BY <2>2, <2>6, <2>7 DEF ReadSnapshot, AllSnapshotsKept
  <2> QED BY <2>2, <2>5, <2>8 DEF ReaderOK, ReaderPhase, OneRequest, Early
<1> QED BY <1>1, <1>2, <1>3, <1>4, <1>5, <1>6 DEF TxnStep, ClientStep, StaticUpdate, Update, Commit,
              Abort, LostConn, SendToPartition, ReceivePrepareReply, NotifyCommit

\* A static read of one object returns a snapshot of its partition at the clock it replies,
\* although it takes no part in the commit protocol.
THEOREM SingleReadsAreSnapshots == Spec => []SingleReadIsSnapshot
<1>1. Init => AppliedBelow /\ ReaderInv
  <2> SUFFICES ASSUME Init PROVE AppliedBelow /\ ReaderInv
    OBVIOUS
  <2>1. /\ pc = [t \in Txns |-> "idle"] /\ db = [p \in Partitions |-> {}]
        /\ reading = [t \in Txns |-> {}] /\ readChan = [t \in Txns |-> {}]
        /\ replyChan = [t \in Txns |-> <<>>]
    BY DEF Init, MatInit
  <2>2. AppliedBelow
    BY <2>1 DEF AppliedBelow, AppliedAt
  <2>3. \A t \in Txns : Len(replyChan[t]) = 0
    BY <2>1
  <2>4. \A t \in Txns : Replies(t) = {}
    BY <2>3 DEF Replies
  <2>5. \A t \in Txns : ReaderOK(t)
    BY <2>1, <2>4 DEF ReaderOK, ReaderPhase, OneRequest, ReadSnapshot, Early
  <2> QED BY <2>2, <2>5, ManagerConstants DEF ReaderInv
<1>2. CommitInv /\ StageInv => CommitsAhead
  BY CommitsAreAhead
<1>3. /\ CommitInv /\ CommitInv' /\ StageInv /\ CommitsAhead /\ CommitsAhead'
      /\ AppliedBelow /\ ReaderInv /\ [Next]_vars
      => AppliedBelow' /\ ReaderInv'
  <2> SUFFICES ASSUME CommitInv, CommitInv', StageInv, CommitsAhead, CommitsAhead',
                      AppliedBelow, ReaderInv, [Next]_vars
               PROVE  AppliedBelow' /\ ReaderInv'
    OBVIOUS
  <2>1. TypeInv /\ LifeInv /\ WaitInv
    BY DEF CommitInv
  <2>2. AllSnapshotsKept
    BY SnapshotsKept DEF AllSnapshotsKept
  <2>3. ASSUME NEW t \in StaticReaders PROVE ReaderOK(t)'
    <3>0. t \in Txns /\ ReaderOK(t)
      BY ManagerConstants DEF ReaderInv
    <3>1. ASSUME NEW q \in Partitions, Partition(q) PROVE ReaderOK(t)'
      BY <2>2, <3>0, <3>1, PartitionReaderKeeps
    <3>2. ASSUME NEW q \in Partitions, RequestSafeClk(q) PROVE SameReader(t)
      <4>1. PICK m : m = Request("safeClk", NoTxn, NewTimestamp)
        OBVIOUS
      <4>2. m \in MatRequest /\ m.txn = NoTxn /\ NoTxn # t /\ SendRequest(q, m)
        BY <3>0, <3>2, <4>1, NewTimestampType, MaterializerConstants
        DEF RequestSafeClk, Request, MatRequest
      <4>3. \A p \in Partitions : Sent(p, t)' = Sent(p, t)
        BY <2>1, <3>0, <4>2, SentAppends
      <4> QED BY <3>2, <4>3 DEF RequestSafeClk, txnVars, SameReader, AskedAt, Replies
    <3>3. ASSUME NEW u \in Txns, TxnStep(u) \/ ClientStep(u) PROVE ReaderOK(t)'
      BY <2>1, <2>2, <3>0, <3>3, OtherReader, SameReaderKeeps, OwnReader
    <3>4. ASSUME CommitReplies PROVE SameReader(t)
      <4>1. /\ UNCHANGED <<channels, replyChan, readChan, reading>>
            /\ pc'[t] = pc[t] \/ (pc[t] = "blocked" /\ pc'[t] = "active")
            /\ pc[t] # "blocked" => txnClk'[t] = txnClk[t]
        BY <2>1, <3>0, <3>4, RepliesPhases
      <4>2. AskedAt(t)' = AskedAt(t) /\ Replies(t)' = Replies(t)
        BY <4>1 DEF AskedAt, Sent, Waiting, Replies
      <4> QED BY <4>1, <4>2 DEF SameReader, Early
    <3>5. ASSUME UNCHANGED vars PROVE SameReader(t)
      BY <3>5 DEF vars, chanVars, txnVars, SameReader, AskedAt, Sent, Waiting, Replies
    <3> QED BY <2>2, <3>0, <3>1, <3>2, <3>3, <3>4, <3>5, SameReaderKeeps DEF Next
  <2> QED BY <2>3, NextApplied DEF ReaderInv
<1>4. CommitInv /\ ReaderInv => SingleReadIsSnapshot
  <2> SUFFICES ASSUME CommitInv, ReaderInv, NEW t \in StaticReaders, NEW r \in readChan[t],
                      pc[t] = "done", reading[t] = {}, NEW u \in Txns, r.part \in parts[u]
               PROVE  /\ u \in r.seen => IsLowerOrEqual(maxTs[u], txnClk[t])
                      /\ pc[u] \in {"commit", "done"} /\ IsLower(maxTs[u], txnClk[t]) => u \in r.seen
    BY DEF SingleReadIsSnapshot
  <2>1. Snapshot(r, txnClk[t])
    BY DEF ReaderInv, ReaderOK, ReadSnapshot, ReadClks
  <2>2. PICK c : c = txnClk[t]
    OBVIOUS
  <2>3. Snapshot(r, c) /\ c \in SelfClock /\ maxTs[u] \in SelfClock
    BY <2>1, <2>2 DEF Snapshot, CommitInv, SelfInv
  <2>4. /\ IsLowerOrEqual(maxTs[u], c) <=> maxTs[u][Self] <= c[Self]
        /\ IsLower(maxTs[u], c) <=> maxTs[u][Self] < c[Self]
    BY <2>3, SelfOrder
  <2> QED BY <2>2, <2>3, <2>4 DEF Snapshot, Committing
<1> QED BY <1>1, <1>2, <1>3, <1>4, RepliesHold, PTL DEF Spec

=============================================================================
