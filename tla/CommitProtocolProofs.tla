------------------------- MODULE CommitProtocolProofs -------------------------
(***************************************************************************)
(* The commit protocol between the goroutine of a transaction and the      *)
(* partitions it involves: where a transaction is, what of it waits in the *)
(* channels and what each partition knows of it.                           *)
(***************************************************************************)
EXTENDS TransactionManagerProofs, FiniteSetTheorems

-----------------------------------------------------------------------------
(* The requests of a transaction that wait at a partition *)

Sent(p, t) == {channels[p][i] : i \in Waiting(p, t)}

HeldOf(p, t) == {h \in commitsOnHold[p] : h.txn = t}

PreparedAt(t) == {p \in Partitions : IsPrepared(p, t)}

\* Only a write is followed by another request of its transaction in a channel.
OnlyWritesFollowed ==
    \A p \in Partitions : \A i, j \in 1 .. Len(channels[p]) :
        i < j /\ channels[p][i].txn = channels[p][j].txn /\ channels[p][i].txn \in Txns
           => channels[p][i].type = "write"

\* Append, entry by entry.
LEMMA AppendFacts ==
    ASSUME NEW S, NEW s \in Seq(S), NEW x \in S
    PROVE  /\ Append(s, x) \in Seq(S) /\ Len(s) \in Nat /\ Len(Append(s, x)) = Len(s) + 1
           /\ \A i \in 1 .. Len(s) : Append(s, x)[i] = s[i] /\ i \in 1 .. Len(Append(s, x))
           /\ Append(s, x)[Len(s) + 1] = x
           /\ \A i \in 1 .. Len(Append(s, x)) : i \in 1 .. Len(s) \/ i = Len(s) + 1
OBVIOUS

\* Tail, entry by entry.
LEMMA TailFacts ==
    ASSUME NEW S, NEW s \in Seq(S), s # <<>>
    PROVE  /\ Tail(s) \in Seq(S) /\ Len(s) \in Nat /\ Len(s) >= 1 /\ Len(Tail(s)) = Len(s) - 1
           /\ \A i \in 1 .. (Len(s) - 1) : Tail(s)[i] = s[i + 1]
           /\ Head(s) = s[1] /\ Head(s) \in S
OBVIOUS

\* A sequence of length 0 is the empty one.
LEMMA NoLength ==
    ASSUME NEW S, NEW s \in Seq(S), Len(s) = 0
    PROVE  s = <<>>
OBVIOUS

\* The requests have their type.
LEMMA ChannelType ==
    ASSUME TypeInv, NEW p \in Partitions
    PROVE  /\ channels[p] \in Seq(MatRequest) /\ Len(channels[p]) \in Nat
           /\ \A i \in 1 .. Len(channels[p]) : channels[p][i] \in MatRequest
<1>1. channels \in [Partitions -> Seq(MatRequest)]
  BY DEF TypeInv, TypeOK, MatTypeOK
<1>2. channels[p] \in Seq(MatRequest)
  BY <1>1
<1> QED BY <1>2

\* A request that is sent joins the ones of its transaction at its partition.
LEMMA SentAppends ==
    ASSUME TypeInv, NEW q \in Partitions, NEW req \in MatRequest, SendRequest(q, req)
    PROVE  /\ \A p \in Partitions, t \in Txns : p # q \/ t # req.txn => Sent(p, t)' = Sent(p, t)
           /\ Sent(q, req.txn)' = Sent(q, req.txn) \cup {req}
<1>1. channels \in [Partitions -> Seq(MatRequest)]
  BY DEF TypeInv, TypeOK, MatTypeOK
<1>2. channels' = [channels EXCEPT ![q] = Append(channels[q], req)]
  BY DEF SendRequest
<1>3. \A p \in Partitions : p # q => channels'[p] = channels[p]
  BY <1>1, <1>2
<1>4. channels'[q] = Append(channels[q], req)
  BY <1>1, <1>2
<1>5. channels[q] \in Seq(MatRequest) /\ Len(channels[q]) \in Nat
  BY ChannelType
<1>6. /\ Len(channels'[q]) = Len(channels[q]) + 1
      /\ \A i \in 1 .. Len(channels[q]) : channels'[q][i] = channels[q][i]
      /\ channels'[q][Len(channels[q]) + 1] = req
  BY <1>4, <1>5
<1>7. \A t \in Txns : \A p \in Partitions : p # q => Sent(p, t)' = Sent(p, t)
  BY <1>3 DEF Sent, Waiting
<1>8. \A t \in Txns : t # req.txn => Sent(q, t)' = Sent(q, t)
  <2> SUFFICES ASSUME NEW t \in Txns, t # req.txn PROVE Sent(q, t)' = Sent(q, t)
    OBVIOUS
  <2>1. Waiting(q, t)' = Waiting(q, t)
    BY <1>5, <1>6, SMTT(60) DEF Waiting
  <2>2. \A i \in Waiting(q, t) : channels'[q][i] = channels[q][i]
    BY <1>6 DEF Waiting
  <2> QED BY <2>1, <2>2 DEF Sent
<1>9. Sent(q, req.txn)' = Sent(q, req.txn) \cup {req}
  <2>1. Waiting(q, req.txn)' = Waiting(q, req.txn) \cup {Len(channels[q]) + 1}
    BY <1>5, <1>6 DEF Waiting
  <2>2. \A i \in Waiting(q, req.txn) : channels'[q][i] = channels[q][i]
    BY <1>6 DEF Waiting
  <2> QED BY <1>6, <2>1, <2>2 DEF Sent
<1> QED BY <1>7, <1>8, <1>9

\* A request that is taken leaves the others; if it is not a write, it was the only one of
\* its transaction.
LEMMA SentTaken ==
    ASSUME TypeInv, OnlyWritesFollowed, NEW q \in Partitions, NEW type, Takes(q, type),
           NEW m, m = Head(channels[q])
    PROVE  /\ m \in MatRequest /\ m.type = type
           /\ \A p \in Partitions, t \in Txns : p # q \/ t # m.txn => Sent(p, t)' = Sent(p, t)
           /\ m \in Sent(q, m.txn)
           /\ Sent(q, m.txn)' \subseteq Sent(q, m.txn)
           /\ \A k \in Sent(q, m.txn) : k = m \/ k \in Sent(q, m.txn)'
           /\ m.txn \in Txns /\ type # "write" => Sent(q, m.txn) = {m} /\ Sent(q, m.txn)' = {}
<1>0. PICK n : n = Len(channels[q])
  OBVIOUS
<1>1. channels \in [Partitions -> Seq(MatRequest)]
  BY DEF TypeInv, TypeOK, MatTypeOK
<1>2. /\ channels[q] # <<>> /\ m.type = type
      /\ channels' = [channels EXCEPT ![q] = Tail(channels[q])]
  BY DEF Takes
<1>3. \A p \in Partitions : p # q => channels'[p] = channels[p]
  BY <1>1, <1>2
<1>4. channels'[q] = Tail(channels[q])
  BY <1>1, <1>2
<1>5. channels[q] \in Seq(MatRequest) /\ n \in Nat
  BY <1>0, ChannelType
<1>6. /\ Len(channels'[q]) = n - 1 /\ n >= 1
      /\ \A i \in 1 .. (n - 1) : channels'[q][i] = channels[q][i + 1]
      /\ channels[q][1] = m /\ m \in MatRequest
  BY <1>0, <1>2, <1>4, <1>5, TailFacts
<1>7. \A t \in Txns : \A p \in Partitions : p # q => Sent(p, t)' = Sent(p, t)
  BY <1>3 DEF Sent, Waiting
<1>8. \A t : Sent(q, t)' \subseteq Sent(q, t)
  <2> SUFFICES ASSUME NEW t, NEW k \in Sent(q, t)' PROVE k \in Sent(q, t)
    OBVIOUS
  <2>1. PICK i \in 1 .. (n - 1) : channels'[q][i].txn = t /\ k = channels'[q][i]
    BY <1>6 DEF Sent, Waiting
  <2>2. i + 1 \in 1 .. n /\ channels[q][i + 1] = k /\ channels[q][i + 1].txn = t
    BY <1>5, <1>6, <2>1
  <2> QED BY <1>0, <2>2 DEF Sent, Waiting
<1>9. \A t : \A k \in Sent(q, t) : k = m \/ k \in Sent(q, t)'
  <2> SUFFICES ASSUME NEW t, NEW k \in Sent(q, t), k # m PROVE k \in Sent(q, t)'
    OBVIOUS
  <2>1. PICK i \in 1 .. n : channels[q][i].txn = t /\ k = channels[q][i]
    BY <1>0 DEF Sent, Waiting
  <2>2. i # 1
    BY <1>6, <2>1
  <2>3. i - 1 \in 1 .. (n - 1) /\ (i - 1) + 1 = i
    BY <1>5, <2>2
  <2>4. channels'[q][i - 1] = k /\ channels'[q][i - 1].txn = t
    BY <1>6, <2>1, <2>3
  <2> QED BY <1>6, <2>3, <2>4 DEF Sent, Waiting
<1>10. \A t : \A k \in Sent(q, t) : k.txn = t
  BY DEF Sent, Waiting
<1>11. \A t \in Txns : t # m.txn => Sent(q, t)' = Sent(q, t)
  <2> SUFFICES ASSUME NEW t \in Txns, t # m.txn PROVE Sent(q, t)' = Sent(q, t)
    OBVIOUS
  <2>1. \A k \in Sent(q, t) : k \in Sent(q, t)'
    BY <1>9, <1>10
  <2>2. \A k \in Sent(q, t)' : k \in Sent(q, t)
    BY <1>8
  <2> QED BY <2>1, <2>2
<1>12. m \in Sent(q, m.txn)
  BY <1>0, <1>5, <1>6 DEF Sent, Waiting
<1>13. ASSUME m.txn \in Txns, type # "write"
       PROVE  Sent(q, m.txn) = {m} /\ Sent(q, m.txn)' = {}
  <2>1. \A i \in 1 .. n : channels[q][i].txn = m.txn => i = 1
    <3> SUFFICES ASSUME NEW i \in 1 .. n, channels[q][i].txn = m.txn, 1 < i PROVE FALSE
      BY <1>5
    <3>1. 1 \in 1 .. n
      BY <1>5, <1>6
    <3> QED BY <1>0, <1>2, <1>6, <1>13, <3>1 DEF OnlyWritesFollowed
  <2>2. Sent(q, m.txn)' = {}
    <3> SUFFICES ASSUME NEW i \in 1 .. (n - 1), channels'[q][i].txn = m.txn PROVE FALSE
      BY <1>6 DEF Sent, Waiting
    <3>1. i + 1 \in 1 .. n /\ i + 1 # 1 /\ channels[q][i + 1].txn = m.txn
      BY <1>5, <1>6
    <3> QED BY <2>1, <3>1
  <2>3. \A k \in Sent(q, m.txn) : k = m
    BY <1>9, <2>2
  <2> QED BY <1>12, <2>2, <2>3
<1> QED BY <1>2, <1>6, <1>7, <1>8, <1>9, <1>11, <1>12, <1>13

\* Sending a request keeps the order of the channels.
LEMMA AppendKeepsOrder ==
    ASSUME TypeInv, OnlyWritesFollowed, NEW q \in Partitions, NEW req \in MatRequest,
           SendRequest(q, req), req.txn \in Txns => \A m \in Sent(q, req.txn) : m.type = "write"
    PROVE  OnlyWritesFollowed'
<1>1. channels \in [Partitions -> Seq(MatRequest)]
  BY DEF TypeInv, TypeOK, MatTypeOK
<1>2. channels' = [channels EXCEPT ![q] = Append(channels[q], req)]
  BY DEF SendRequest
<1>3. \A p \in Partitions : p # q => channels'[p] = channels[p]
  BY <1>1, <1>2
<1>4. channels'[q] = Append(channels[q], req)
  BY <1>1, <1>2
<1>5. channels[q] \in Seq(MatRequest) /\ Len(channels[q]) \in Nat
  BY ChannelType
<1>6. /\ Len(channels'[q]) = Len(channels[q]) + 1
      /\ \A i \in 1 .. Len(channels[q]) : channels'[q][i] = channels[q][i]
      /\ channels'[q][Len(channels[q]) + 1] = req
  BY <1>4, <1>5
<1> SUFFICES ASSUME NEW i \in 1 .. Len(channels'[q]), NEW j \in 1 .. Len(channels'[q]), i < j,
                    channels'[q][i].txn = channels'[q][j].txn, channels'[q][i].txn \in Txns
             PROVE  channels'[q][i].type = "write"
  BY <1>3 DEF OnlyWritesFollowed
<1>7. i \in 1 .. Len(channels[q]) /\ channels'[q][i] = channels[q][i]
  BY <1>5, <1>6, SMTT(60)
<1>8. CASE j \in 1 .. Len(channels[q])
  BY <1>6, <1>7, <1>8, SMTT(60) DEF OnlyWritesFollowed
<1>9. CASE j = Len(channels[q]) + 1
  <2>1. channels[q][i].txn = req.txn /\ req.txn \in Txns
    BY <1>6, <1>7, <1>9
  <2>2. channels[q][i] \in Sent(q, req.txn)
    BY <1>7, <2>1 DEF Sent, Waiting
  <2> QED BY <1>7, <2>1, <2>2
<1> QED BY <1>5, <1>6, <1>8, <1>9

\* Taking a request keeps the order of the channels.
LEMMA TailKeepsOrder ==
    ASSUME TypeInv, OnlyWritesFollowed, NEW q \in Partitions, NEW type, Takes(q, type)
    PROVE  OnlyWritesFollowed'
<1>1. channels \in [Partitions -> Seq(MatRequest)]
  BY DEF TypeInv, TypeOK, MatTypeOK
<1>2. channels[q] # <<>> /\ channels' = [channels EXCEPT ![q] = Tail(channels[q])]
  BY DEF Takes
<1>3. \A p \in Partitions : p # q => channels'[p] = channels[p]
  BY <1>1, <1>2
<1>4. channels'[q] = Tail(channels[q])
  BY <1>1, <1>2
<1>5. channels[q] \in Seq(MatRequest) /\ Len(channels[q]) \in Nat
  BY ChannelType
<1>6. /\ Len(channels'[q]) = Len(channels[q]) - 1
      /\ \A i \in 1 .. (Len(channels[q]) - 1) : channels'[q][i] = channels[q][i + 1]
  BY <1>2, <1>4, <1>5, TailFacts
<1> SUFFICES ASSUME NEW i \in 1 .. Len(channels'[q]), NEW j \in 1 .. Len(channels'[q]), i < j,
                    channels'[q][i].txn = channels'[q][j].txn, channels'[q][i].txn \in Txns
             PROVE  channels'[q][i].type = "write"
  BY <1>3 DEF OnlyWritesFollowed
<1>7. /\ i + 1 \in 1 .. Len(channels[q]) /\ j + 1 \in 1 .. Len(channels[q]) /\ i + 1 < j + 1
      /\ i \in 1 .. (Len(channels[q]) - 1) /\ j \in 1 .. (Len(channels[q]) - 1)
  BY <1>5, <1>6
<1>8. channels'[q][i] = channels[q][i + 1] /\ channels'[q][j] = channels[q][j + 1]
  BY <1>6, <1>7
<1> QED BY <1>7, <1>8 DEF OnlyWritesFollowed

-----------------------------------------------------------------------------
(* The life of a transaction *)

PendingAt(t) == {p \in Partitions : t \in pendingOps[p]}

\* Each kind of transaction goes through its own phases.
KindOK(t) ==
    /\ t \in StaticUpdaters => pc[t] \in {"idle", "prepare", "commit", "done"}
    /\ t \in Interactive => pc[t] # "single"
    /\ t \in StaticReaders =>
          /\ pc[t] \in {"idle", "wait", "blocked", "active", "read", "single", "done"}
          /\ parts[t] = {}
    /\ pc[t] \in {"idle", "wait", "blocked"} => parts[t] = {}

\* A loop over partitions goes over the ones written; outside of one nothing is to be sent.
LoopOK(t) ==
    /\ pc[t] \notin {"read", "write", "prepare", "commit", "abort"} => toSend[t] = {}
    /\ pc[t] \in {"write", "prepare", "commit", "abort"} => toSend[t] \subseteq parts[t]
    /\ pc[t] = "read" => /\ toSend[t] \subseteq reading[t]
                         /\ \A r \in readChan[t] : r.part \notin toSend[t]

\* The prepare replies received and waiting are as many as the partitions that have prepared.
CountOK(t) ==
    t \notin StaticReaders =>
        /\ pc[t] \notin {"prepare", "commit", "done"} => nReplies[t] = 0 /\ replyChan[t] = <<>>
        /\ pc[t] = "prepare" => nReplies[t] + Len(replyChan[t]) = Cardinality(PreparedAt(t))
        /\ pc[t] \in {"commit", "done"} => nReplies[t] = Cardinality(parts[t]) /\ replyChan[t] = <<>>

\* What a request that still waits at p says about the transaction that sent it
MsgOK(m, p, t) ==
    /\ m.type = "write" =>
          /\ t \in Interactive /\ p \in parts[t] /\ p \notin PreparedAt(t)
          /\ pc[t] \in {"active", "write", "read", "prepare", "abort", "aborted", "lost"}
    /\ m.type \in {"prepare", "staticWrite"} =>
          /\ pc[t] = "prepare" /\ p \in parts[t] /\ p \notin toSend[t] /\ p \notin PreparedAt(t)
          /\ m.type = "prepare" => t \in Interactive
    /\ m.type = "commit" =>
          /\ pc[t] \in {"commit", "done"} /\ p \notin toSend[t] /\ p \in PreparedAt(t)
          /\ m.clk = maxTs[t]
    /\ m.type = "abort" => pc[t] \in {"abort", "aborted"} /\ p \notin toSend[t]
    /\ m.type = "read" =>
          /\ pc[t] = "read" /\ p \in reading[t] /\ p \notin toSend[t]
          /\ \A r \in readChan[t] : r.part # p
    /\ m.type = "singleRead" => t \in StaticReaders /\ pc[t] \in {"single", "done"}

SentOK(p, t) == \A m \in Sent(p, t) : MsgOK(m, p, t)

\* What the state of p says about a transaction: prepared, its commit still to be sent, with
\* pending updates, with updates on their way, with a commit on hold
PartOK(p, t) ==
    /\ p \in PreparedAt(t) =>
          /\ p \in PendingAt(t) /\ p \in parts[t] /\ pc[t] \in {"prepare", "commit", "done"}
          /\ pc[t] = "prepare" => p \notin toSend[t]
    /\ pc[t] = "commit" /\ p \in toSend[t] => p \in PreparedAt(t)
    /\ p \in PendingAt(t) => p \in parts[t]
    /\ /\ t \in Interactive /\ p \in parts[t] /\ pc[t] \in {"active", "write", "read", "prepare"}
       /\ ~(pc[t] = "write" /\ p \in toSend[t])
       => p \in PendingAt(t) \/ \E m \in Sent(p, t) : m.type = "write"
    /\ \A h \in HeldOf(p, t) :
          /\ pc[t] \in {"commit", "done"} /\ p \in parts[t] /\ p \notin toSend[t]
          /\ p \notin PreparedAt(t) /\ h.clk = maxTs[t]

TxnOK(t) ==
    /\ KindOK(t) /\ LoopOK(t) /\ CountOK(t)
    /\ \A p \in Partitions : SentOK(p, t) /\ PartOK(p, t)

LifeInv == OnlyWritesFollowed /\ \A t \in Txns : TxnOK(t)

\* What a step leaves alone that is about other transactions
SameAtPartitions(u) ==
    /\ PreparedAt(u)' = PreparedAt(u)
    /\ PendingAt(u)' = PendingAt(u)
    /\ \A p \in Partitions : Sent(p, u)' = Sent(p, u) /\ HeldOf(p, u)' = HeldOf(p, u)

SameTxn(u) ==
    /\ pc'[u] = pc[u] /\ parts'[u] = parts[u] /\ toSend'[u] = toSend[u]
    /\ reading'[u] = reading[u] /\ nReplies'[u] = nReplies[u] /\ maxTs'[u] = maxTs[u]
    /\ replyChan'[u] = replyChan[u] /\ readChan'[u] = readChan[u]
    /\ SameAtPartitions(u)

\* The facts about a transaction do not change with others.
LEMMA SameTxnKeeps ==
    ASSUME NEW u \in Txns, TxnOK(u), SameTxn(u)
    PROVE  TxnOK(u)'
<1> USE DEF SameTxn, SameAtPartitions, TxnOK
<1>1. KindOK(u)' /\ LoopOK(u)'
  BY DEF KindOK, LoopOK
<1>2. CountOK(u)'
  BY DEF CountOK
<1>3. \A p \in Partitions : SentOK(p, u)'
  BY DEF SentOK, MsgOK
<1>4. \A p \in Partitions : PartOK(p, u)'
  BY DEF PartOK
<1> QED BY <1>1, <1>2, <1>3, <1>4

\* A request of a transaction is of a known type.
LEMMA SentType ==
    ASSUME TypeInv, NEW p \in Partitions, NEW t \in Txns, NEW m \in Sent(p, t)
    PROVE  m \in MatRequest /\ m.txn = t /\ m.type \in TxnReqTypes
<1>1. m \in MatRequest /\ m.txn = t
  BY ChannelType DEF Sent, Waiting
<1> QED BY <1>1, MaterializerConstants DEF MatRequest

\* Steps that leave the partitions alone
LEMMA PartitionSame ==
    ASSUME UNCHANGED <<prepClks, pendingOps, commitsOnHold>>
    PROVE  /\ \A u \in Txns : PreparedAt(u)' = PreparedAt(u) /\ PendingAt(u)' = PendingAt(u)
           /\ \A u \in Txns : \A p \in Partitions : HeldOf(p, u)' = HeldOf(p, u)
<1>1. \A u \in Txns : PreparedAt(u)' = PreparedAt(u)
  BY DEF PreparedAt, IsPrepared
<1>2. \A u \in Txns : PendingAt(u)' = PendingAt(u)
  BY DEF PendingAt
<1>3. \A u \in Txns : \A p \in Partitions : HeldOf(p, u)' = HeldOf(p, u)
  BY DEF HeldOf
<1> QED BY <1>1, <1>2, <1>3

\* Steps that neither send nor serve requests
LEMMA LocalSame ==
    ASSUME UNCHANGED <<channels, prepClks, pendingOps, commitsOnHold>>
    PROVE  /\ \A u \in Txns : SameAtPartitions(u)
           /\ OnlyWritesFollowed => OnlyWritesFollowed'
<1>1. \A u \in Txns : \A p \in Partitions : Sent(p, u)' = Sent(p, u)
  BY DEF Sent, Waiting
<1>2. OnlyWritesFollowed => OnlyWritesFollowed'
  BY DEF OnlyWritesFollowed
<1> QED BY <1>1, <1>2, PartitionSame DEF SameAtPartitions

\* The requests of the clients keep the facts.
LEMMA ClientStepLife ==
    ASSUME TypeInv, LifeInv, NEW t \in Txns, ClientStep(t)
    PROVE  LifeInv'
<1>0. /\ pc \in [Txns -> Phases] /\ parts \in [Txns -> SUBSET Partitions]
      /\ toSend \in [Txns -> SUBSET Partitions] /\ reading \in [Txns -> SUBSET Partitions]
      /\ nReplies \in [Txns -> Nat] /\ readChan \in [Txns -> SUBSET ReadReply]
      /\ replyChan \in [Txns -> Seq(Clock)]
  BY DEF TypeInv, TypeOK, MatTypeOK
<1>1. OnlyWritesFollowed /\ TxnOK(t) /\ \A u \in Txns : TxnOK(u)
  BY DEF LifeInv
<1>2. /\ KindOK(t) /\ LoopOK(t) /\ CountOK(t)
      /\ \A p \in Partitions : SentOK(p, t) /\ PartOK(p, t)
  BY <1>1 DEF TxnOK
<1>3. ASSUME UNCHANGED <<channels, prepClks, pendingOps, commitsOnHold>>,
             \A u \in Txns \ {t} : SameAtPartitions(u) => SameTxn(u),
             SameAtPartitions(t) => TxnOK(t)'
      PROVE  LifeInv'
  <2>1. (\A u \in Txns : SameAtPartitions(u)) /\ OnlyWritesFollowed'
    BY <1>1, <1>3, LocalSame
  <2>2. \A u \in Txns \ {t} : TxnOK(u)'
    BY <1>1, <1>3, <2>1, SameTxnKeeps
  <2> QED BY <1>3, <2>1, <2>2 DEF LifeInv
<1>4. CASE StartTxn(t)
  <2>1. /\ t \in Interactive \cup StaticReaders /\ pc[t] = "idle"
        /\ pc' \in {[pc EXCEPT ![t] = "active"], [pc EXCEPT ![t] = "wait"]}
        /\ UNCHANGED <<channels, prepClks, pendingOps, commitsOnHold, replyChan, readChan, parts,
                       toSend, reading, nReplies, maxTs>>
    BY <1>4 DEF StartTxn, GetClockToUse, partVars, chanVars
  <2>2. pc'[t] \in {"active", "wait"} /\ \A u \in Txns \ {t} : pc'[u] = pc[u]
    BY <1>0, <2>1
  <2>3. \A u \in Txns \ {t} : SameAtPartitions(u) => SameTxn(u)
    BY <2>1, <2>2 DEF SameTxn
  <2>4. ASSUME SameAtPartitions(t) PROVE TxnOK(t)'
    <3>1. KindOK(t)' /\ LoopOK(t)' /\ CountOK(t)'
      BY <1>2, <2>1, <2>2, <2>4, ManagerConstants DEF KindOK, LoopOK, CountOK
    <3>2. \A p \in Partitions : SentOK(p, t)'
      BY <1>2, <2>1, <2>2, <2>4 DEF SentOK, MsgOK, SameAtPartitions
    <3>3. \A p \in Partitions : PartOK(p, t)'
      BY <1>2, <2>1, <2>2, <2>4 DEF PartOK, SameAtPartitions, KindOK
    <3> QED BY <3>1, <3>2, <3>3 DEF TxnOK
  <2> QED BY <1>3, <2>1, <2>3, <2>4
<1>5. CASE SingleRead(t)
  <2>1. /\ t \in StaticReaders /\ pc[t] = "idle"
        /\ pc' = [pc EXCEPT ![t] = "single"]
        /\ UNCHANGED <<prepClks, pendingOps, commitsOnHold, replyChan, readChan, parts,
                       toSend, reading, nReplies, maxTs>>
    BY <1>5 DEF SingleRead, partVars
  <2>2. PICK q \in Partitions : SendRequest(q, Request("singleRead", t, NewTimestamp))
    BY <1>5 DEF SingleRead
  <2>3. PICK m : m = Request("singleRead", t, NewTimestamp)
    OBVIOUS
  <2>4. m \in MatRequest /\ m.txn = t /\ m.type = "singleRead" /\ SendRequest(q, m)
    BY <2>2, <2>3, NewTimestampType DEF Request, MatRequest, TxnReqTypes
  <2>5. /\ \A p \in Partitions, u \in Txns : p # q \/ u # t => Sent(p, u)' = Sent(p, u)
        /\ Sent(q, t)' = Sent(q, t) \cup {m}
    BY <2>4, SentAppends
  <2>6. pc'[t] = "single" /\ \A u \in Txns \ {t} : pc'[u] = pc[u]
    BY <1>0, <2>1
  <2>7. \A p \in Partitions : Sent(p, t) = {}
    <3> SUFFICES ASSUME NEW p \in Partitions, NEW k \in Sent(p, t) PROVE FALSE
      OBVIOUS
    <3>1. k.type \in TxnReqTypes
      BY SentType
    <3> QED BY <1>2, <2>1, <3>1 DEF SentOK, MsgOK, TxnReqTypes
  <2>8. OnlyWritesFollowed'
    BY <1>1, <2>4, <2>7, AppendKeepsOrder
  <2>9. /\ \A u \in Txns : PreparedAt(u)' = PreparedAt(u) /\ PendingAt(u)' = PendingAt(u)
        /\ \A u \in Txns : \A p \in Partitions : HeldOf(p, u)' = HeldOf(p, u)
    BY <2>1, PartitionSame
  <2>10. \A u \in Txns \ {t} : TxnOK(u)'
    <3>1. \A u \in Txns \ {t} : SameTxn(u)
      BY <2>1, <2>5, <2>6, <2>9 DEF SameTxn, SameAtPartitions
    <3> QED BY <1>1, <3>1, SameTxnKeeps
  <2>11. TxnOK(t)'
    <3>1. KindOK(t)' /\ LoopOK(t)' /\ CountOK(t)'
      BY <1>2, <2>1, <2>6, ManagerConstants DEF KindOK, LoopOK, CountOK
    <3>2. \A p \in Partitions : \A k \in Sent(p, t)' : k = m
      BY <2>5, <2>7
    <3>3. \A p \in Partitions : SentOK(p, t)'
      BY <2>1, <2>4, <2>6, <3>2 DEF SentOK, MsgOK
    <3>4. \A p \in Partitions : PartOK(p, t)'
      BY <1>2, <2>1, <2>6, <2>9, ManagerConstants DEF PartOK
    <3> QED BY <3>1, <3>3, <3>4 DEF TxnOK
  <2> QED BY <2>8, <2>10, <2>11 DEF LifeInv
<1>6. CASE StaticUpdate(t)
  <2>1. PICK P \in SUBSET Partitions : /\ parts' = [parts EXCEPT ![t] = P]
                                       /\ toSend' = [toSend EXCEPT ![t] = P]
    BY <1>6 DEF StaticUpdate, Targets
  <2>2. /\ t \in StaticUpdaters /\ pc[t] = "idle" /\ pc' = [pc EXCEPT ![t] = "prepare"]
        /\ UNCHANGED <<channels, prepClks, pendingOps, commitsOnHold, replyChan, readChan,
                       reading, nReplies, maxTs>>
    BY <1>6 DEF StaticUpdate, partVars, chanVars
  <2>3. /\ pc'[t] = "prepare" /\ parts'[t] = P /\ toSend'[t] = P
        /\ \A u \in Txns \ {t} : pc'[u] = pc[u] /\ parts'[u] = parts[u] /\ toSend'[u] = toSend[u]
    BY <1>0, <2>1, <2>2
  <2>4. \A u \in Txns \ {t} : SameAtPartitions(u) => SameTxn(u)
    BY <2>2, <2>3 DEF SameTxn
  <2>5. ASSUME SameAtPartitions(t) PROVE TxnOK(t)'
    <3>1. KindOK(t)' /\ LoopOK(t)'
      BY <1>2, <2>2, <2>3, ManagerConstants DEF KindOK, LoopOK
    <3>2. PreparedAt(t) = {} /\ PreparedAt(t)' = {}
      BY <1>2, <2>2, <2>5 DEF PartOK, SameAtPartitions, PreparedAt
    <3>3. CountOK(t)'
      BY <1>2, <2>2, <2>3, <3>2, FS_EmptySet, ManagerConstants DEF CountOK
    <3>4. \A p \in Partitions : SentOK(p, t)'
      BY <1>2, <2>2, <2>3, <2>5 DEF SentOK, MsgOK, SameAtPartitions
    <3>5. \A p \in Partitions : PartOK(p, t)'
      BY <1>2, <2>2, <2>3, <2>5, <3>2, ManagerConstants DEF PartOK, SameAtPartitions, KindOK
    <3> QED BY <3>1, <3>3, <3>4, <3>5 DEF TxnOK
  <2> QED BY <1>3, <2>2, <2>4, <2>5
<1>7. CASE Read(t)
  <2>1. PICK P \in SUBSET Partitions : /\ reading' = [reading EXCEPT ![t] = P]
                                       /\ toSend' = [toSend EXCEPT ![t] = P]
    BY <1>7 DEF Read, Targets
  <2>2. /\ pc[t] = "active" /\ pc' = [pc EXCEPT ![t] = "read"]
        /\ readChan' = [readChan EXCEPT ![t] = {}]
        /\ UNCHANGED <<channels, prepClks, pendingOps, commitsOnHold, replyChan, parts,
                       nReplies, maxTs>>
    BY <1>7 DEF Read, partVars
  <2>3. /\ pc'[t] = "read" /\ reading'[t] = P /\ toSend'[t] = P /\ readChan'[t] = {}
        /\ \A u \in Txns \ {t} : /\ pc'[u] = pc[u] /\ reading'[u] = reading[u]
                                 /\ toSend'[u] = toSend[u] /\ readChan'[u] = readChan[u]
    BY <1>0, <2>1, <2>2
  <2>4. \A u \in Txns \ {t} : SameAtPartitions(u) => SameTxn(u)
    BY <2>2, <2>3 DEF SameTxn
  <2>5. ASSUME SameAtPartitions(t) PROVE TxnOK(t)'
    <3>1. KindOK(t)' /\ LoopOK(t)' /\ CountOK(t)'
      BY <1>2, <2>2, <2>3, ManagerConstants DEF KindOK, LoopOK, CountOK
    <3>2. \A p \in Partitions : SentOK(p, t)'
      BY <1>2, <2>2, <2>3, <2>5 DEF SentOK, MsgOK, SameAtPartitions
    <3>3. \A p \in Partitions : PartOK(p, t)'
      BY <1>2, <2>2, <2>3, <2>5 DEF PartOK, SameAtPartitions
    <3> QED BY <3>1, <3>2, <3>3 DEF TxnOK
  <2> QED BY <1>3, <2>2, <2>4, <2>5
<1>8. CASE Update(t)
  <2>1. PICK P \in SUBSET Partitions : /\ parts' = [parts EXCEPT ![t] = parts[t] \cup P]
                                       /\ toSend' = [toSend EXCEPT ![t] = P]
    BY <1>8 DEF Update, Targets
  <2>2. /\ t \in Interactive /\ pc[t] = "active" /\ pc' = [pc EXCEPT ![t] = "write"]
        /\ UNCHANGED <<channels, prepClks, pendingOps, commitsOnHold, replyChan, readChan,
                       reading, nReplies, maxTs>>
    BY <1>8 DEF Update, partVars, chanVars
  <2>3. /\ pc'[t] = "write" /\ parts'[t] = parts[t] \cup P /\ toSend'[t] = P
        /\ \A u \in Txns \ {t} : pc'[u] = pc[u] /\ parts'[u] = parts[u] /\ toSend'[u] = toSend[u]
    BY <1>0, <2>1, <2>2
  <2>4. \A u \in Txns \ {t} : SameAtPartitions(u) => SameTxn(u)
    BY <2>2, <2>3 DEF SameTxn
  <2>5. ASSUME SameAtPartitions(t) PROVE TxnOK(t)'
    <3>1. KindOK(t)' /\ LoopOK(t)' /\ CountOK(t)'
      BY <1>2, <2>2, <2>3, ManagerConstants DEF KindOK, LoopOK, CountOK
    <3>2. \A p \in Partitions : SentOK(p, t)'
      BY <1>2, <2>2, <2>3, <2>5 DEF SentOK, MsgOK, SameAtPartitions
    <3>3. \A p \in Partitions : PartOK(p, t)'
      BY <1>2, <2>2, <2>3, <2>5 DEF PartOK, SameAtPartitions
    <3> QED BY <3>1, <3>2, <3>3 DEF TxnOK
  <2> QED BY <1>3, <2>2, <2>4, <2>5
<1>9. CASE Commit(t)
  <2>1. /\ t \in Interactive /\ pc[t] = "active" /\ pc' = [pc EXCEPT ![t] = "prepare"]
        /\ toSend' = [toSend EXCEPT ![t] = parts[t]]
        /\ UNCHANGED <<channels, prepClks, pendingOps, commitsOnHold, replyChan, readChan, parts,
                       reading, nReplies, maxTs>>
    BY <1>9 DEF Commit, partVars, chanVars
  <2>2. /\ pc'[t] = "prepare" /\ toSend'[t] = parts[t]
        /\ \A u \in Txns \ {t} : pc'[u] = pc[u] /\ toSend'[u] = toSend[u]
    BY <1>0, <2>1
  <2>3. \A u \in Txns \ {t} : SameAtPartitions(u) => SameTxn(u)
    BY <2>1, <2>2 DEF SameTxn
  <2>4. ASSUME SameAtPartitions(t) PROVE TxnOK(t)'
    <3>1. KindOK(t)' /\ LoopOK(t)'
      BY <1>2, <2>1, <2>2, ManagerConstants DEF KindOK, LoopOK
    <3>2. PreparedAt(t) = {} /\ PreparedAt(t)' = {}
      BY <1>2, <2>1, <2>4 DEF PartOK, SameAtPartitions, PreparedAt
    <3>3. CountOK(t)'
      BY <1>2, <2>1, <2>2, <3>2, FS_EmptySet, ManagerConstants DEF CountOK
    <3>4. \A p \in Partitions : SentOK(p, t)'
      BY <1>2, <2>1, <2>2, <2>4 DEF SentOK, MsgOK, SameAtPartitions
    <3>5. \A p \in Partitions : PartOK(p, t)'
      BY <1>2, <2>1, <2>2, <2>4, <3>2 DEF PartOK, SameAtPartitions
    <3> QED BY <3>1, <3>3, <3>4, <3>5 DEF TxnOK
  <2> QED BY <1>3, <2>1, <2>3, <2>4
<1>10. CASE Abort(t)
  <2>1. /\ t \in Interactive /\ pc[t] = "active"
        /\ pc' = [pc EXCEPT ![t] = IF parts[t] = {} THEN "aborted" ELSE "abort"]
        /\ toSend' = [toSend EXCEPT ![t] = parts[t]]
        /\ UNCHANGED <<channels, prepClks, pendingOps, commitsOnHold, replyChan, readChan, parts,
                       reading, nReplies, maxTs>>
    BY <1>10 DEF Abort, partVars, chanVars
  <2>2. /\ pc'[t] \in {"abort", "aborted"} /\ toSend'[t] = parts[t]
        /\ pc'[t] = "aborted" => parts[t] = {}
        /\ \A u \in Txns \ {t} : pc'[u] = pc[u] /\ toSend'[u] = toSend[u]
    BY <1>0, <2>1
  <2>3. \A u \in Txns \ {t} : SameAtPartitions(u) => SameTxn(u)
    BY <2>1, <2>2 DEF SameTxn
  <2>4. ASSUME SameAtPartitions(t) PROVE TxnOK(t)'
    <3>1. KindOK(t)' /\ LoopOK(t)' /\ CountOK(t)'
      BY <1>2, <2>1, <2>2, ManagerConstants DEF KindOK, LoopOK, CountOK
    <3>2. \A p \in Partitions : SentOK(p, t)'
      BY <1>2, <2>1, <2>2, <2>4 DEF SentOK, MsgOK, SameAtPartitions
    <3>3. \A p \in Partitions : PartOK(p, t)'
      BY <1>2, <2>1, <2>2, <2>4 DEF PartOK, SameAtPartitions
    <3> QED BY <3>1, <3>2, <3>3 DEF TxnOK
  <2> QED BY <1>3, <2>1, <2>3, <2>4
<1>11. CASE LostConn(t)
  <2>1. /\ t \in Interactive /\ pc[t] = "active" /\ pc' = [pc EXCEPT ![t] = "lost"]
        /\ UNCHANGED <<channels, prepClks, pendingOps, commitsOnHold, replyChan, readChan, parts,
                       toSend, reading, nReplies, maxTs>>
    BY <1>11 DEF LostConn, partVars, chanVars
  <2>2. pc'[t] = "lost" /\ \A u \in Txns \ {t} : pc'[u] = pc[u]
    BY <1>0, <2>1
  <2>3. \A u \in Txns \ {t} : SameAtPartitions(u) => SameTxn(u)
    BY <2>1, <2>2 DEF SameTxn
  <2>4. ASSUME SameAtPartitions(t) PROVE TxnOK(t)'
    <3>1. KindOK(t)' /\ LoopOK(t)' /\ CountOK(t)'
      BY <1>2, <2>1, <2>2, ManagerConstants DEF KindOK, LoopOK, CountOK
    <3>2. \A p \in Partitions : SentOK(p, t)'
      BY <1>2, <2>1, <2>2, <2>4 DEF SentOK, MsgOK, SameAtPartitions
    <3>3. \A p \in Partitions : PartOK(p, t)'
      BY <1>2, <2>1, <2>2, <2>4 DEF PartOK, SameAtPartitions
    <3> QED BY <3>1, <3>2, <3>3 DEF TxnOK
  <2> QED BY <1>3, <2>1, <2>3, <2>4
<1> QED BY <1>4, <1>5, <1>6, <1>7, <1>8, <1>9, <1>10, <1>11 DEF ClientStep

\* A request that t sends to q leaves the facts about the other transactions alone.
LEMMA SendLife ==
    ASSUME TypeInv, LifeInv, NEW t \in Txns, NEW q \in Partitions, NEW m \in MatRequest,
           m.txn = t, SendRequest(q, m), \A k \in Sent(q, t) : k.type = "write",
           UNCHANGED <<prepClks, pendingOps, commitsOnHold>>,
           \A u \in Txns \ {t} : SameAtPartitions(u) => SameTxn(u)
    PROVE  /\ OnlyWritesFollowed'
           /\ \A u \in Txns \ {t} : TxnOK(u)'
           /\ PreparedAt(t)' = PreparedAt(t) /\ PendingAt(t)' = PendingAt(t)
           /\ \A p \in Partitions : HeldOf(p, t)' = HeldOf(p, t)
           /\ \A p \in Partitions : p # q => Sent(p, t)' = Sent(p, t)
           /\ Sent(q, t)' = Sent(q, t) \cup {m}
<1>1. OnlyWritesFollowed'
  BY AppendKeepsOrder DEF LifeInv
<1>2. /\ \A p \in Partitions, u \in Txns : p # q \/ u # t => Sent(p, u)' = Sent(p, u)
      /\ Sent(q, t)' = Sent(q, t) \cup {m}
  BY SentAppends
<1>3. /\ \A u \in Txns : PreparedAt(u)' = PreparedAt(u) /\ PendingAt(u)' = PendingAt(u)
      /\ \A u \in Txns : \A p \in Partitions : HeldOf(p, u)' = HeldOf(p, u)
  BY PartitionSame
<1>4. \A u \in Txns \ {t} : SameAtPartitions(u)
  BY <1>2, <1>3 DEF SameAtPartitions
<1>5. \A u \in Txns \ {t} : TxnOK(u)'
  BY <1>4, SameTxnKeeps DEF LifeInv
<1> QED BY <1>1, <1>2, <1>3, <1>5

\* Cardinalities of sets of partitions
LEMMA PartitionSets ==
    ASSUME NEW S \in SUBSET Partitions
    PROVE  /\ IsFiniteSet(S) /\ Cardinality(S) \in Nat
           /\ \A T \in SUBSET S : /\ Cardinality(T) \in Nat /\ Cardinality(T) <= Cardinality(S)
                                  /\ Cardinality(S) = Cardinality(T) => S = T
           /\ \A x \in Partitions \ S : Cardinality(S \cup {x}) = Cardinality(S) + 1
<1>1. IsFiniteSet(Partitions)
  BY MaterializerConstants, FS_Interval DEF Partitions
<1>2. IsFiniteSet(S)
  BY <1>1, FS_Subset
<1>3. \A T \in SUBSET S : IsFiniteSet(T) /\ Cardinality(T) <= Cardinality(S)
                          /\ (Cardinality(S) = Cardinality(T) => S = T)
  BY <1>2, FS_Subset
<1> QED BY <1>2, <1>3, FS_CardinalityType, FS_AddElement

\* One iteration of a loop over the partitions of a transaction keeps the facts.
LEMMA SendToPartitionLife ==
    ASSUME TypeInv, LifeInv, NEW t \in Txns, NEW q \in Partitions, SendToPartition(t, q)
    PROVE  LifeInv'
<1>0. /\ pc \in [Txns -> Phases] /\ toSend \in [Txns -> SUBSET Partitions]
      /\ maxTs \in [Txns -> Clock]
  BY DEF TypeInv, TypeOK
<1>1. /\ KindOK(t) /\ LoopOK(t) /\ CountOK(t)
      /\ \A p \in Partitions : SentOK(p, t) /\ PartOK(p, t)
  BY DEF LifeInv, TxnOK
<1>2. /\ pc[t] \in {"write", "prepare", "commit", "abort"} /\ q \in toSend[t]
      /\ toSend' = [toSend EXCEPT ![t] = toSend[t] \ {q}]
      /\ pc' = [pc EXCEPT ![t] = IF toSend[t] = {q} THEN AfterLoop(t) ELSE pc[t]]
      /\ UNCHANGED <<prepClks, pendingOps, commitsOnHold, replyChan, readChan, parts, reading,
                     nReplies, maxTs>>
  BY DEF SendToPartition, partVars
<1>3. PICK m : m = LoopRequest(t)
  OBVIOUS
<1>4. SendRequest(q, m)
  BY <1>3 DEF SendToPartition
<1>5. /\ m \in MatRequest /\ m.txn = t
      /\ pc[t] = "write" => m.type = "write"
      /\ pc[t] = "prepare" => m.type \in {"prepare", "staticWrite"} /\ (m.type = "prepare" => t \notin StaticUpdaters)
      /\ pc[t] = "commit" => m.type = "commit" /\ m.clk = maxTs[t]
      /\ pc[t] = "abort" => m.type = "abort"
  BY <1>0, <1>2, <1>3, NewTimestampType DEF LoopRequest, Request, MatRequest, TxnReqTypes
<1>6. /\ toSend'[t] = toSend[t] \ {q}
      /\ toSend[t] # {q} => pc'[t] = pc[t]
      /\ toSend[t] = {q} => pc'[t] = AfterLoop(t)
      /\ \A u \in Txns \ {t} : pc'[u] = pc[u] /\ toSend'[u] = toSend[u]
  BY <1>0, <1>2
<1>7. \A k \in Sent(q, t) : k.type = "write"
  <2> SUFFICES ASSUME NEW k \in Sent(q, t) PROVE k.type = "write"
    OBVIOUS
  <2>1. k.type \in TxnReqTypes
    BY SentType
  <2> QED BY <1>1, <1>2, <2>1 DEF SentOK, MsgOK, TxnReqTypes
<1>8. \A u \in Txns \ {t} : SameAtPartitions(u) => SameTxn(u)
  BY <1>2, <1>6 DEF SameTxn
<1>9. /\ OnlyWritesFollowed'
      /\ \A u \in Txns \ {t} : TxnOK(u)'
      /\ PreparedAt(t)' = PreparedAt(t) /\ PendingAt(t)' = PendingAt(t)
      /\ \A p \in Partitions : HeldOf(p, t)' = HeldOf(p, t)
      /\ \A p \in Partitions : p # q => Sent(p, t)' = Sent(p, t)
      /\ Sent(q, t)' = Sent(q, t) \cup {m}
  BY <1>2, <1>4, <1>5, <1>7, <1>8, SendLife
<1>10. KindOK(t)' /\ LoopOK(t)' /\ CountOK(t)'
  BY <1>1, <1>2, <1>6, <1>9 DEF KindOK, LoopOK, CountOK, AfterLoop
<1>11. t \in Interactive \/ t \in StaticUpdaters
  BY <1>1, <1>2, ManagerConstants DEF KindOK
<1>12. \A p \in Partitions : SentOK(p, t)'
  <2> SUFFICES ASSUME NEW p \in Partitions, NEW k \in Sent(p, t)'
               PROVE  MsgOK(k, p, t)'
    BY DEF SentOK
  <2>1. CASE k \in Sent(p, t)
    <3>1. MsgOK(k, p, t)
      BY <1>1, <2>1 DEF SentOK
    <3> QED BY <1>2, <1>6, <1>9, <3>1 DEF MsgOK, AfterLoop
  <2>2. CASE p = q /\ k = m
    BY <1>1, <1>2, <1>5, <1>6, <1>9, <1>11, <2>2 DEF MsgOK, AfterLoop, LoopOK, PartOK, KindOK
  <2> QED BY <1>9, <2>1, <2>2
<1>13. \A p \in Partitions : PartOK(p, t)'
  BY <1>1, <1>2, <1>5, <1>6, <1>9 DEF PartOK, LoopOK, AfterLoop
<1> QED BY <1>9, <1>10, <1>12, <1>13 DEF LifeInv, TxnOK

\* When as many partitions have replied as the transaction involves, all have prepared it and
\* no reply is left.
LEMMA AllPrepared ==
    ASSUME TypeInv, NEW t \in Txns, TxnOK(t), pc[t] = "prepare", toSend[t] = {},
           nReplies[t] = Cardinality(parts[t])
    PROVE  PreparedAt(t) = parts[t] /\ replyChan[t] = <<>>
<1>1. /\ parts[t] \in SUBSET Partitions /\ nReplies[t] \in Nat
      /\ replyChan[t] \in Seq(Clock) /\ Len(replyChan[t]) \in Nat
  BY DEF TypeInv, TypeOK, MatTypeOK
<1>2. PreparedAt(t) \subseteq parts[t]
  BY DEF TxnOK, PartOK, PreparedAt
<1>3. nReplies[t] + Len(replyChan[t]) = Cardinality(PreparedAt(t))
  BY ManagerConstants DEF TxnOK, CountOK, KindOK
<1>4. /\ Cardinality(PreparedAt(t)) \in Nat /\ Cardinality(PreparedAt(t)) <= Cardinality(parts[t])
      /\ Cardinality(parts[t]) = Cardinality(PreparedAt(t)) => parts[t] = PreparedAt(t)
  BY <1>1, <1>2, PartitionSets
<1>5. Len(replyChan[t]) = 0 /\ Cardinality(parts[t]) = Cardinality(PreparedAt(t))
  BY <1>1, <1>3, <1>4
<1> QED BY <1>1, <1>4, <1>5, NoLength

\* The steps of the goroutine of a transaction keep the facts.
LEMMA TxnStepLife ==
    ASSUME TypeInv, LifeInv, NEW t \in Txns, TxnStep(t)
    PROVE  LifeInv'
<1>0. /\ pc \in [Txns -> Phases] /\ parts \in [Txns -> SUBSET Partitions]
      /\ toSend \in [Txns -> SUBSET Partitions] /\ nReplies \in [Txns -> Nat]
      /\ maxTs \in [Txns -> Clock] /\ txnClk \in [Txns -> Clock]
      /\ replyChan \in [Txns -> Seq(Clock)]
  BY DEF TypeInv, TypeOK, MatTypeOK
<1>1. OnlyWritesFollowed /\ TxnOK(t) /\ \A u \in Txns : TxnOK(u)
  BY DEF LifeInv
<1>2. /\ KindOK(t) /\ LoopOK(t) /\ CountOK(t)
      /\ \A p \in Partitions : SentOK(p, t) /\ PartOK(p, t)
  BY <1>1 DEF TxnOK
<1>3. ASSUME UNCHANGED <<channels, prepClks, pendingOps, commitsOnHold>>,
             \A u \in Txns \ {t} : SameAtPartitions(u) => SameTxn(u),
             SameAtPartitions(t) => TxnOK(t)'
      PROVE  LifeInv'
  <2>1. (\A u \in Txns : SameAtPartitions(u)) /\ OnlyWritesFollowed'
    BY <1>1, <1>3, LocalSame
  <2>2. \A u \in Txns \ {t} : TxnOK(u)'
    BY <1>1, <1>3, <2>1, SameTxnKeeps
  <2> QED BY <1>3, <2>1, <2>2 DEF LifeInv
<1>4. CASE SendWaitClock(t)
  <2>1. /\ pc[t] = "wait" /\ pc' = [pc EXCEPT ![t] = "blocked"]
        /\ UNCHANGED <<channels, prepClks, pendingOps, commitsOnHold, replyChan, readChan, parts,
                       toSend, reading, nReplies, maxTs>>
    BY <1>4 DEF SendWaitClock, partVars
  <2>2. pc'[t] = "blocked" /\ \A u \in Txns \ {t} : pc'[u] = pc[u]
    BY <1>0, <2>1
  <2>3. \A u \in Txns \ {t} : SameAtPartitions(u) => SameTxn(u)
    BY <2>1, <2>2 DEF SameTxn
  <2>4. ASSUME SameAtPartitions(t) PROVE TxnOK(t)'
    <3>1. KindOK(t)' /\ LoopOK(t)' /\ CountOK(t)'
      BY <1>2, <2>1, <2>2, ManagerConstants DEF KindOK, LoopOK, CountOK
    <3>2. \A p \in Partitions : SentOK(p, t)'
      BY <1>2, <2>1, <2>2, <2>4 DEF SentOK, MsgOK, SameAtPartitions
    <3>3. \A p \in Partitions : PartOK(p, t)'
      BY <1>2, <2>1, <2>2, <2>4 DEF PartOK, SameAtPartitions
    <3> QED BY <3>1, <3>2, <3>3 DEF TxnOK
  <2> QED BY <1>3, <2>1, <2>3, <2>4
<1>5. ASSUME NEW q \in Partitions, SendRead(t, q)
      PROVE  LifeInv'
  <2>1. /\ pc[t] = "read" /\ q \in toSend[t] /\ toSend' = [toSend EXCEPT ![t] = toSend[t] \ {q}]
        /\ UNCHANGED <<prepClks, pendingOps, commitsOnHold, replyChan, readChan, pc, parts, reading,
                       nReplies, maxTs>>
    BY <1>5 DEF SendRead, partVars
  <2>2. PICK m : m = Request("read", t, txnClk[t])
    OBVIOUS
  <2>3. SendRequest(q, m) /\ m \in MatRequest /\ m.txn = t /\ m.type = "read"
    BY <1>0, <1>5, <2>2 DEF SendRead, Request, MatRequest, TxnReqTypes
  <2>4. /\ toSend'[t] = toSend[t] \ {q}
        /\ \A u \in Txns \ {t} : toSend'[u] = toSend[u]
    BY <1>0, <2>1
  <2>5. \A k \in Sent(q, t) : k.type = "write"
    <3> SUFFICES ASSUME NEW k \in Sent(q, t) PROVE k.type = "write"
      OBVIOUS
    <3>1. k.type \in TxnReqTypes
      BY SentType
    <3> QED BY <1>2, <2>1, <3>1 DEF SentOK, MsgOK, TxnReqTypes
  <2>6. \A u \in Txns \ {t} : SameAtPartitions(u) => SameTxn(u)
    BY <2>1, <2>4 DEF SameTxn
  <2>7. /\ OnlyWritesFollowed'
        /\ \A u \in Txns \ {t} : TxnOK(u)'
        /\ PreparedAt(t)' = PreparedAt(t) /\ PendingAt(t)' = PendingAt(t)
        /\ \A p \in Partitions : HeldOf(p, t)' = HeldOf(p, t)
        /\ \A p \in Partitions : p # q => Sent(p, t)' = Sent(p, t)
        /\ Sent(q, t)' = Sent(q, t) \cup {m}
    BY <2>1, <2>3, <2>5, <2>6, SendLife
  <2>8. KindOK(t)' /\ LoopOK(t)' /\ CountOK(t)'
    BY <1>2, <2>1, <2>4, <2>7 DEF KindOK, LoopOK, CountOK
  <2>9. \A p \in Partitions : SentOK(p, t)'
    <3> SUFFICES ASSUME NEW p \in Partitions, NEW k \in Sent(p, t)'
                 PROVE  MsgOK(k, p, t)'
      BY DEF SentOK
    <3>1. CASE k \in Sent(p, t)
      <4>1. MsgOK(k, p, t)
        BY <1>2, <3>1 DEF SentOK
      <4> QED BY <2>1, <2>4, <2>7, <4>1 DEF MsgOK
    <3>2. CASE p = q /\ k = m
      BY <1>2, <2>1, <2>3, <2>4, <3>2 DEF MsgOK, LoopOK
    <3> QED BY <2>7, <3>1, <3>2
  <2>10. \A p \in Partitions : PartOK(p, t)'
    BY <1>2, <2>1, <2>4, <2>7 DEF PartOK
  <2> QED BY <2>7, <2>8, <2>9, <2>10 DEF LifeInv, TxnOK
<1>6. CASE EndRead(t)
  <2>1. /\ pc[t] = "read" /\ toSend[t] = {} /\ {r.part : r \in readChan[t]} = reading[t]
        /\ pc' = [pc EXCEPT ![t] = IF t \in StaticReaders THEN "done" ELSE "active"]
        /\ UNCHANGED <<channels, prepClks, pendingOps, commitsOnHold, replyChan, readChan, parts,
                       toSend, reading, nReplies, maxTs>>
    BY <1>6 DEF EndRead, partVars, chanVars
  <2>2. /\ t \in StaticReaders => pc'[t] = "done"
        /\ t \notin StaticReaders => pc'[t] = "active"
        /\ \A u \in Txns \ {t} : pc'[u] = pc[u]
    BY <1>0, <2>1
  <2>3. \A u \in Txns \ {t} : SameAtPartitions(u) => SameTxn(u)
    BY <2>1, <2>2 DEF SameTxn
  <2>4. \A p \in Partitions : \A m \in Sent(p, t) : m.type # "read"
    BY <1>2, <2>1 DEF SentOK, MsgOK
  <2>5. ASSUME SameAtPartitions(t) PROVE TxnOK(t)'
    <3>1. KindOK(t)' /\ LoopOK(t)' /\ CountOK(t)'
      BY <1>2, <2>1, <2>2, ManagerConstants DEF KindOK, LoopOK, CountOK
    <3>2. \A p \in Partitions : SentOK(p, t)'
      BY <1>2, <2>1, <2>2, <2>4, <2>5, ManagerConstants DEF SentOK, MsgOK, SameAtPartitions
    <3>3. \A p \in Partitions : PartOK(p, t)'
      BY <1>2, <2>1, <2>2, <2>5, ManagerConstants DEF PartOK, SameAtPartitions
    <3> QED BY <3>1, <3>2, <3>3 DEF TxnOK
  <2> QED BY <1>3, <2>1, <2>3, <2>5
<1>7. CASE EndSingleRead(t)
  <2>1. /\ pc[t] = "single" /\ replyChan' = [replyChan EXCEPT ![t] = Tail(replyChan[t])]
        /\ pc' = [pc EXCEPT ![t] = "done"]
        /\ UNCHANGED <<channels, prepClks, pendingOps, commitsOnHold, readChan, parts,
                       toSend, reading, nReplies, maxTs>>
    BY <1>7 DEF EndSingleRead, partVars
  <2>2. pc'[t] = "done" /\ \A u \in Txns \ {t} : pc'[u] = pc[u] /\ replyChan'[u] = replyChan[u]
    BY <1>0, <2>1
  <2>3. \A u \in Txns \ {t} : SameAtPartitions(u) => SameTxn(u)
    BY <2>1, <2>2 DEF SameTxn
  <2>4. t \in StaticReaders
    BY <1>2, <2>1, ManagerConstants DEF KindOK
  <2>5. ASSUME SameAtPartitions(t) PROVE TxnOK(t)'
    <3>1. KindOK(t)' /\ LoopOK(t)' /\ CountOK(t)'
      BY <1>2, <2>1, <2>2, <2>4, ManagerConstants DEF KindOK, LoopOK, CountOK
    <3>2. \A p \in Partitions : SentOK(p, t)'
      BY <1>2, <2>1, <2>2, <2>5 DEF SentOK, MsgOK, SameAtPartitions
    <3>3. \A p \in Partitions : PartOK(p, t)'
      BY <1>2, <2>1, <2>2, <2>5 DEF PartOK, SameAtPartitions
    <3> QED BY <3>1, <3>2, <3>3 DEF TxnOK
  <2> QED BY <1>3, <2>1, <2>3, <2>5
<1>8. CASE ReceivePrepareReply(t)
  <2>1. /\ pc[t] = "prepare" /\ replyChan[t] # <<>>
        /\ maxTs' = [maxTs EXCEPT ![t] = MaxTimestamp(maxTs[t], Head(replyChan[t]))]
        /\ replyChan' = [replyChan EXCEPT ![t] = Tail(replyChan[t])]
        /\ nReplies' = [nReplies EXCEPT ![t] = nReplies[t] + 1]
        /\ UNCHANGED <<channels, prepClks, pendingOps, commitsOnHold, readChan, pc, parts, toSend,
                       reading>>
    BY <1>8 DEF ReceivePrepareReply, partVars
  <2>2. /\ nReplies'[t] = nReplies[t] + 1 /\ replyChan'[t] = Tail(replyChan[t])
        /\ \A u \in Txns \ {t} : /\ maxTs'[u] = maxTs[u] /\ replyChan'[u] = replyChan[u]
                                 /\ nReplies'[u] = nReplies[u]
    BY <1>0, <2>1
  <2>3. /\ Len(replyChan'[t]) = Len(replyChan[t]) - 1 /\ Len(replyChan[t]) \in Nat
        /\ nReplies[t] \in Nat
    BY <1>0, <2>1, <2>2, TailFacts
  <2>4. \A u \in Txns \ {t} : SameAtPartitions(u) => SameTxn(u)
    BY <2>1, <2>2 DEF SameTxn
  <2>5. ASSUME SameAtPartitions(t) PROVE TxnOK(t)'
    <3>1. KindOK(t)' /\ LoopOK(t)'
      BY <1>2, <2>1 DEF KindOK, LoopOK
    <3>2. nReplies'[t] + Len(replyChan'[t]) = nReplies[t] + Len(replyChan[t])
      BY <2>2, <2>3
    <3>3. CountOK(t)'
      BY <1>2, <2>1, <2>5, <3>2 DEF CountOK, SameAtPartitions
    <3>4. \A p \in Partitions : SentOK(p, t)'
      BY <1>2, <2>1, <2>5 DEF SentOK, MsgOK, SameAtPartitions
    <3>5. \A p \in Partitions : PartOK(p, t)'
      BY <1>2, <2>1, <2>5 DEF PartOK, SameAtPartitions
    <3> QED BY <3>1, <3>3, <3>4, <3>5 DEF TxnOK
  <2> QED BY <1>3, <2>1, <2>4, <2>5
<1>9. CASE NotifyCommit(t)
  <2>1. /\ pc[t] = "prepare" /\ toSend[t] = {} /\ nReplies[t] = Cardinality(parts[t])
        /\ toSend' = [toSend EXCEPT ![t] = parts[t]]
        /\ pc' = [pc EXCEPT ![t] = IF parts[t] = {} THEN "done" ELSE "commit"]
        /\ UNCHANGED <<channels, prepClks, pendingOps, commitsOnHold, replyChan, readChan, parts,
                       reading, nReplies, maxTs>>
    BY <1>9 DEF NotifyCommit, partVars
  <2>2. /\ toSend'[t] = parts[t] /\ pc'[t] \in {"done", "commit"}
        /\ pc'[t] = "done" => parts[t] = {}
        /\ \A u \in Txns \ {t} : pc'[u] = pc[u] /\ toSend'[u] = toSend[u]
    BY <1>0, <2>1
  <2>3. \A u \in Txns \ {t} : SameAtPartitions(u) => SameTxn(u)
    BY <2>1, <2>2 DEF SameTxn
  <2>4. PreparedAt(t) = parts[t] /\ replyChan[t] = <<>>
    BY <1>1, <2>1, AllPrepared
  <2>5. t \notin StaticReaders
    BY <1>2, <2>1 DEF KindOK
  <2>6. ASSUME SameAtPartitions(t) PROVE TxnOK(t)'
    <3>1. KindOK(t)' /\ LoopOK(t)' /\ CountOK(t)'
      BY <1>2, <2>1, <2>2, <2>4, <2>5, ManagerConstants DEF KindOK, LoopOK, CountOK
    <3>2. \A p \in Partitions : SentOK(p, t)'
      BY <1>2, <2>1, <2>2, <2>4, <2>6 DEF SentOK, MsgOK, SameAtPartitions
    <3>3. \A p \in Partitions : PartOK(p, t)'
      BY <1>2, <2>1, <2>2, <2>4, <2>6 DEF PartOK, SameAtPartitions
    <3> QED BY <3>1, <3>2, <3>3 DEF TxnOK
  <2> QED BY <1>3, <2>1, <2>3, <2>6
<1> QED BY <1>4, <1>5, <1>6, <1>7, <1>8, <1>9, SendToPartitionLife DEF TxnStep

\* handleCommitReplies keeps the facts.
LEMMA CommitRepliesLife ==
    ASSUME TypeInv, WaitInv, LifeInv, CommitReplies
    PROVE  LifeInv'
<1>1. OnlyWritesFollowed /\ \A u \in Txns : TxnOK(u)
  BY DEF LifeInv
<1>2. ASSUME UNCHANGED <<channels, replyChan, readChan, partVars, txnVars>>
      PROVE  LifeInv'
  <2>1. (\A u \in Txns : SameAtPartitions(u)) /\ OnlyWritesFollowed'
    BY <1>1, <1>2, LocalSame DEF partVars
  <2>2. \A u \in Txns : SameTxn(u)
    BY <1>2, <2>1 DEF SameTxn, txnVars
  <2> QED BY <1>1, <2>1, <2>2, SameTxnKeeps DEF LifeInv
<1>3. CASE HandleCommitNPartitions \/ HandlePartCommitReply \/ HandleWaitClock \/ FlushStacked
  BY <1>2, <1>3 DEF HandleCommitNPartitions, HandlePartCommitReply, HandleWaitClock, FlushStacked,
                    chanVars
<1>4. CASE NotifyWaiting /\ ~FirstIsReady
  BY <1>2, <1>4 DEF NotifyWaiting, chanVars, txnVars
<1>5. CASE NotifyWaiting /\ FirstIsReady
  <2>1. PICK t : t = waitingTMs[1].txn
    OBVIOUS
  <2>2. 1 \in 1 .. Len(waitingTMs)
    BY <1>5, WaitersType DEF FirstIsReady
  <2>3. t \in Txns /\ pc[t] = "blocked"
    BY <2>1, <2>2, WaitersType DEF WaitInv, WaitersOnce
  <2>4. /\ pc' = [pc EXCEPT ![t] = "active"]
        /\ UNCHANGED <<channels, prepClks, pendingOps, commitsOnHold, replyChan, readChan, parts,
                       toSend, reading, nReplies, maxTs>>
    BY <1>5, <2>1 DEF NotifyWaiting, partVars, chanVars
  <2>5. pc'[t] = "active" /\ \A u \in Txns \ {t} : pc'[u] = pc[u]
    BY <2>3, <2>4 DEF TypeInv, TypeOK
  <2>6. (\A u \in Txns : SameAtPartitions(u)) /\ OnlyWritesFollowed'
    BY <1>1, <2>4, LocalSame
  <2>7. \A u \in Txns \ {t} : SameTxn(u)
    BY <2>4, <2>5, <2>6 DEF SameTxn
  <2>8. \A u \in Txns \ {t} : TxnOK(u)'
    BY <1>1, <2>7, SameTxnKeeps
  <2>9. TxnOK(t)'
    <3>1. /\ KindOK(t) /\ LoopOK(t) /\ CountOK(t) /\ SameAtPartitions(t)
          /\ \A p \in Partitions : SentOK(p, t) /\ PartOK(p, t)
      BY <1>1, <2>3, <2>6 DEF TxnOK
    <3>2. KindOK(t)' /\ LoopOK(t)' /\ CountOK(t)'
      BY <2>3, <2>4, <2>5, <3>1, ManagerConstants DEF KindOK, LoopOK, CountOK
    <3>3. \A p \in Partitions : SentOK(p, t)'
      BY <2>3, <2>4, <2>5, <3>1 DEF SentOK, MsgOK, SameAtPartitions
    <3>4. \A p \in Partitions : PartOK(p, t)'
      BY <2>3, <2>4, <2>5, <3>1 DEF PartOK, SameAtPartitions, KindOK
    <3> QED BY <3>2, <3>3, <3>4 DEF TxnOK
  <2> QED BY <2>6, <2>8, <2>9 DEF LifeInv
<1> QED BY <1>3, <1>4, <1>5 DEF CommitReplies

\* So does a request for the safe clock.
LEMMA RequestSafeClkLife ==
    ASSUME TypeInv, LifeInv, NEW q \in Partitions, RequestSafeClk(q)
    PROVE  LifeInv'
<1>1. OnlyWritesFollowed /\ \A u \in Txns : TxnOK(u)
  BY DEF LifeInv
<1>2. PICK m : m = Request("safeClk", NoTxn, NewTimestamp)
  OBVIOUS
<1>3. m \in MatRequest /\ m.txn \notin Txns /\ SendRequest(q, m)
  BY <1>2, NewTimestampType, MaterializerConstants DEF RequestSafeClk, Request, MatRequest
<1>4. OnlyWritesFollowed' /\ \A u \in Txns : \A p \in Partitions : Sent(p, u)' = Sent(p, u)
  BY <1>1, <1>3, AppendKeepsOrder, SentAppends
<1>5. UNCHANGED <<partVars, replyChan, readChan, txnVars>>
  BY DEF RequestSafeClk
<1>6. \A u \in Txns : SameTxn(u)
  BY <1>4, <1>5, PartitionSame DEF SameTxn, SameAtPartitions, partVars, txnVars
<1> QED BY <1>1, <1>4, <1>6, SameTxnKeeps DEF LifeInv

\* prepareClock makes q one of the partitions that have prepared t and sends a reply.
LEMMA PrepareClockEffect ==
    ASSUME TypeInv, NEW q \in Partitions, NEW t \in Txns, NEW time \in Nat, PrepareClock(q, t, time)
    PROVE  /\ PreparedAt(t)' = PreparedAt(t) \cup {q}
           /\ \A u \in Txns \ {t} : PreparedAt(u)' = PreparedAt(u) /\ replyChan'[u] = replyChan[u]
           /\ replyChan'[t] = Append(replyChan[t], NextClk(q, time))
           /\ Len(replyChan[t]) \in Nat /\ Len(replyChan'[t]) = Len(replyChan[t]) + 1
<1>0. PICK new : new = NextClk(q, time)
  OBVIOUS
<1>1. prepClks \in [Partitions -> SUBSET TxnClkPair] /\ replyChan \in [Txns -> Seq(Clock)]
  BY DEF TypeInv, TypeOK, MatTypeOK
<1>2. /\ prepClks' = [prepClks EXCEPT ![q] = prepClks[q] \cup {[txn |-> t, clk |-> new]}]
      /\ replyChan' = [replyChan EXCEPT ![t] = Append(replyChan[t], new)]
  BY <1>0 DEF PrepareClock
<1>3. new \in Clock
  BY <1>0, NextClkType DEF TypeInv, TypeOK
<1>4. /\ replyChan'[t] = Append(replyChan[t], new)
      /\ \A u \in Txns \ {t} : replyChan'[u] = replyChan[u]
  BY <1>1, <1>2
<1>5. replyChan[t] \in Seq(Clock)
  BY <1>1
<1>6. Len(replyChan[t]) \in Nat /\ Len(replyChan'[t]) = Len(replyChan[t]) + 1
  BY <1>3, <1>4, <1>5, AppendFacts
<1>7. /\ \A p \in Partitions \ {q} : prepClks'[p] = prepClks[p]
      /\ prepClks'[q] = prepClks[q] \cup {[txn |-> t, clk |-> new]}
  BY <1>1, <1>2
<1>8. \A u \in Txns : \A p \in Partitions :
         IsPrepared(p, u)' <=> IsPrepared(p, u) \/ (p = q /\ u = t)
  <2> SUFFICES ASSUME NEW u \in Txns, NEW p \in Partitions
               PROVE  (\E e \in prepClks'[p] : e.txn = u)
                         <=> (\E e \in prepClks[p] : e.txn = u) \/ (p = q /\ u = t)
    BY DEF IsPrepared
  <2>1. CASE p # q
    BY <1>7, <2>1
  <2>2. CASE p = q
    <3>1. PICK pair : pair = [txn |-> t, clk |-> new]
      OBVIOUS
    <3>2. pair.txn = t /\ prepClks'[p] = prepClks[p] \cup {pair}
      BY <1>7, <2>2, <3>1
    <3> QED BY <2>2, <3>2
  <2> QED BY <2>1, <2>2
<1>9. PreparedAt(t)' = PreparedAt(t) \cup {q} /\ \A u \in Txns \ {t} : PreparedAt(u)' = PreparedAt(u)
  BY <1>8 DEF PreparedAt
<1> QED BY <1>0, <1>4, <1>6, <1>9

\* Only the goroutine of a transaction changes where it is; a partition changes its replies.
LEMMA PartitionFrame ==
    ASSUME NEW q \in Partitions, Partition(q)
    PROVE  UNCHANGED <<pc, parts, toSend, reading, nReplies, maxTs>>
BY DEF Partition, txnVars

\* A transaction prepares at q: handleMatStaticWrite and handleMatPrepare.
LEMMA PrepareLife ==
    ASSUME TypeInv, LifeInv, NEW q \in Partitions, NEW type \in {"staticWrite", "prepare"},
           Takes(q, type), NEW time \in Nat, PrepareClock(q, Head(channels[q]).txn, time),
           \/ type = "prepare" /\ UNCHANGED pendingOps
           \/ /\ type = "staticWrite"
              /\ pendingOps' = [pendingOps EXCEPT ![q] = pendingOps[q] \cup {Head(channels[q]).txn}],
           UNCHANGED <<commitsOnHold, readChan, pc, parts, toSend, reading, nReplies, maxTs>>
    PROVE  LifeInv'
<1>1. PICK m : m = Head(channels[q])
  OBVIOUS
<1>2. PICK t : t = m.txn
  OBVIOUS
<1>3. OnlyWritesFollowed /\ \A u \in Txns : TxnOK(u)
  BY DEF LifeInv
<1>4. /\ m \in MatRequest /\ m.type = type
      /\ \A p \in Partitions, u \in Txns : p # q \/ u # t => Sent(p, u)' = Sent(p, u)
      /\ m \in Sent(q, t)
      /\ t \in Txns => Sent(q, t) = {m} /\ Sent(q, t)' = {}
  BY <1>1, <1>2, <1>3, SentTaken
<1>5. t \in Txns
  BY <1>1, <1>2, TakesType DEF TypeInv, TypeOK
<1>6. OnlyWritesFollowed'
  BY <1>3, TailKeepsOrder
<1>7. /\ PreparedAt(t)' = PreparedAt(t) \cup {q}
      /\ \A u \in Txns \ {t} : PreparedAt(u)' = PreparedAt(u) /\ replyChan'[u] = replyChan[u]
      /\ Len(replyChan[t]) \in Nat /\ Len(replyChan'[t]) = Len(replyChan[t]) + 1
  BY <1>1, <1>2, <1>5, PrepareClockEffect
<1>8. \A u \in Txns : \A p \in Partitions : HeldOf(p, u)' = HeldOf(p, u)
  BY DEF HeldOf
<1>9. pendingOps \in [Partitions -> SUBSET Txns] /\ nReplies[t] \in Nat
  BY <1>5 DEF TypeInv, TypeOK, MatTypeOK
<1>10. /\ \A u \in Txns \ {t} : PendingAt(u)' = PendingAt(u)
       /\ type = "prepare" => PendingAt(t)' = PendingAt(t)
       /\ type = "staticWrite" => PendingAt(t)' = PendingAt(t) \cup {q}
  BY <1>1, <1>2, <1>9 DEF PendingAt
<1>11. \A u \in Txns \ {t} : TxnOK(u)'
  <2>1. \A u \in Txns \ {t} : SameTxn(u)
    BY <1>4, <1>7, <1>8, <1>10 DEF SameTxn, SameAtPartitions
  <2> QED BY <1>3, <2>1, SameTxnKeeps
<1>12. /\ KindOK(t) /\ LoopOK(t) /\ CountOK(t)
       /\ \A p \in Partitions : SentOK(p, t) /\ PartOK(p, t)
       /\ MsgOK(m, q, t)
  BY <1>3, <1>4, <1>5 DEF TxnOK, SentOK
<1>13. pc[t] = "prepare" /\ q \in parts[t] /\ q \notin toSend[t] /\ q \notin PreparedAt(t)
  BY <1>4, <1>12 DEF MsgOK
<1>14. TxnOK(t)'
  <2>1. KindOK(t)' /\ LoopOK(t)'
    BY <1>12, <1>13 DEF KindOK, LoopOK
  <2>2. Cardinality(PreparedAt(t) \cup {q}) = Cardinality(PreparedAt(t)) + 1
    <3>1. PreparedAt(t) \in SUBSET Partitions
      BY DEF PreparedAt
    <3> QED BY <1>13, <3>1, PartitionSets
  <2>3. nReplies[t] + Len(replyChan'[t]) = (nReplies[t] + Len(replyChan[t])) + 1
    BY <1>7, <1>9
  <2>4. CountOK(t)'
    BY <1>7, <1>12, <1>13, <2>2, <2>3 DEF CountOK
  <2>5. \A p \in Partitions : SentOK(p, t)'
    <3> SUFFICES ASSUME NEW p \in Partitions, NEW k \in Sent(p, t)'
                 PROVE  MsgOK(k, p, t)'
      BY DEF SentOK
    <3>1. p # q /\ k \in Sent(p, t)
      BY <1>4, <1>5
    <3>2. MsgOK(k, p, t)
      BY <1>12, <3>1 DEF SentOK
    <3> QED BY <1>7, <1>13, <3>1, <3>2 DEF MsgOK
  <2>6. q \in PendingAt(t)'
    <3>1. CASE type = "prepare"
      <4>1. t \in Interactive
        BY <1>4, <1>12, <3>1 DEF MsgOK
      <4>2. q \in PendingAt(t) \/ \E k \in Sent(q, t) : k.type = "write"
        BY <1>12, <1>13, <4>1 DEF PartOK
      <4>3. \A k \in Sent(q, t) : k.type = "prepare"
        BY <1>4, <1>5, <3>1
      <4> QED BY <1>10, <3>1, <4>2, <4>3
    <3>2. CASE type = "staticWrite"
      BY <1>10, <3>2
    <3> QED BY <3>1, <3>2
  <2>7. PendingAt(t)' \subseteq PendingAt(t) \cup {q} /\ PendingAt(t) \subseteq PendingAt(t)'
    BY <1>10
  <2>8. \A p \in Partitions : PartOK(p, t)'
    <3> SUFFICES ASSUME NEW p \in Partitions PROVE PartOK(p, t)'
      OBVIOUS
    <3>1. CASE p = q
      <4>1. HeldOf(q, t)' = {}
        BY <1>5, <1>8, <1>12, <1>13 DEF PartOK
      <4>2. pc'[t] = "prepare" /\ parts'[t] = parts[t] /\ toSend'[t] = toSend[t]
        BY <1>13
      <4> QED BY <1>13, <2>6, <3>1, <4>1, <4>2 DEF PartOK
    <3>2. CASE p # q
      BY <1>4, <1>5, <1>7, <1>8, <1>12, <1>13, <2>7, <3>2 DEF PartOK
    <3> QED BY <3>1, <3>2
  <2> QED BY <2>1, <2>4, <2>5, <2>8 DEF TxnOK
<1> QED BY <1>6, <1>11, <1>14 DEF LifeInv

\* Requests that do not touch the prepares: the facts about their transaction are left to show.
LEMMA ServeLife ==
    ASSUME TypeInv, LifeInv, NEW q \in Partitions, NEW type, Takes(q, type),
           NEW t \in Txns, t = Head(channels[q]).txn,
           UNCHANGED <<pc, parts, toSend, reading, nReplies, maxTs>>,
           \A u \in Txns \ {t} : replyChan'[u] = replyChan[u] /\ readChan'[u] = readChan[u],
           \A u \in Txns \ {t} : PreparedAt(u)' = PreparedAt(u) /\ PendingAt(u)' = PendingAt(u),
           \A u \in Txns \ {t} : \A p \in Partitions : HeldOf(p, u)' = HeldOf(p, u),
           TxnOK(t)'
    PROVE  LifeInv'
<1>1. OnlyWritesFollowed /\ \A u \in Txns : TxnOK(u)
  BY DEF LifeInv
<1>2. OnlyWritesFollowed'
  BY <1>1, TailKeepsOrder
<1>3. \A u \in Txns \ {t} : \A p \in Partitions : Sent(p, u)' = Sent(p, u)
  BY <1>1, SentTaken
<1>4. \A u \in Txns \ {t} : SameTxn(u)
  BY <1>3 DEF SameTxn, SameAtPartitions
<1> QED BY <1>1, <1>2, <1>4, SameTxnKeeps DEF LifeInv

\* What the partition finds when it takes a commit: the transaction is prepared there, with
\* its updates, and the clock is the commit timestamp.
LEMMA CommitTaken ==
    ASSUME TypeInv, LifeInv, NEW q \in Partitions, HandleMatCommit(q)
    PROVE  \E t \in Txns, clk \in Clock, lowest \in HeapRoots(prepClks[q]) :
              /\ t = Head(channels[q]).txn /\ clk = maxTs[t]
              /\ q \in PreparedAt(t) /\ t \in pendingOps[q] /\ q \in parts[t]
              /\ pc[t] \in {"commit", "done"} /\ q \notin toSend[t]
              /\ prepClks' = [prepClks EXCEPT ![q] = {e \in prepClks[q] : e.txn # t}]
              /\ \E can \in CanCommit({e \in prepClks[q] : e.txn # t}, commitsOnHold[q], clk) :
                    /\ \/ can /\ ApplyCommit(q, t, clk) /\ UNCHANGED commitsOnHold
                       \/ ~can /\ HoldCommit(q, t, clk)
                    /\ checkingHold' = [checkingHold EXCEPT
                          ![q] = CallsCheckHold(t, lowest, can) /\ commitsOnHold'[q] # {}]
<1>1. PICK m : m = Head(channels[q])
  OBVIOUS
<1>2. PICK t, clk : t = m.txn /\ clk = m.clk
  OBVIOUS
<1>3. Takes(q, "commit")
  BY DEF HandleMatCommit
<1>4. t \in Txns /\ clk \in Clock
  BY <1>1, <1>2, <1>3, TakesType DEF TypeInv, TypeOK
<1>5. m \in Sent(q, t) /\ m.type = "commit"
  BY <1>1, <1>2, <1>3, <1>4, SentTaken DEF LifeInv
<1>6. MsgOK(m, q, t) /\ PartOK(q, t)
  BY <1>4, <1>5 DEF LifeInv, TxnOK, SentOK
<1>7. /\ pc[t] \in {"commit", "done"} /\ q \notin toSend[t] /\ q \in PreparedAt(t)
      /\ clk = maxTs[t] /\ q \in PendingAt(t) /\ q \in parts[t]
  BY <1>2, <1>5, <1>6 DEF MsgOK, PartOK
<1>8. t \in pendingOps[q] /\ \E e \in prepClks[q] : e.txn = t
  BY <1>7 DEF PendingAt, PreparedAt, IsPrepared
<1>9. \A lowest : RemovePrepare(prepClks[q], t, lowest) = {e \in prepClks[q] : e.txn # t}
  BY <1>8 DEF RemovePrepare
<1>10. PICK lowest \in HeapRoots(prepClks[q]) :
          /\ prepClks' = [prepClks EXCEPT ![q] = RemovePrepare(prepClks[q], t, lowest)]
          /\ \E can \in CanCommit(RemovePrepare(prepClks[q], t, lowest), commitsOnHold[q], clk) :
                /\ \/ can /\ ApplyCommit(q, t, clk) /\ UNCHANGED commitsOnHold
                   \/ ~can /\ HoldCommit(q, t, clk)
                /\ checkingHold' = [checkingHold EXCEPT
                      ![q] = CallsCheckHold(t, lowest, can) /\ commitsOnHold'[q] # {}]
  BY <1>1, <1>2 DEF HandleMatCommit
<1>11. /\ prepClks' = [prepClks EXCEPT ![q] = {e \in prepClks[q] : e.txn # t}]
       /\ \E can \in CanCommit({e \in prepClks[q] : e.txn # t}, commitsOnHold[q], clk) :
             /\ \/ can /\ ApplyCommit(q, t, clk) /\ UNCHANGED commitsOnHold
                \/ ~can /\ HoldCommit(q, t, clk)
             /\ checkingHold' = [checkingHold EXCEPT
                   ![q] = CallsCheckHold(t, lowest, can) /\ commitsOnHold'[q] # {}]
  BY <1>9, <1>10, Zenon
<1> QED BY <1>1, <1>2, <1>4, <1>7, <1>8, <1>11

\* The prepare of t is taken out at q, and no other one.
LEMMA RemovePrepareEffect ==
    ASSUME TypeInv, NEW q \in Partitions, NEW t \in Txns,
           prepClks' = [prepClks EXCEPT ![q] = {e \in prepClks[q] : e.txn # t}]
    PROVE  /\ PreparedAt(t)' = PreparedAt(t) \ {q}
           /\ \A u \in Txns \ {t} : PreparedAt(u)' = PreparedAt(u)
<1>1. prepClks \in [Partitions -> SUBSET TxnClkPair]
  BY DEF TypeInv, TypeOK, MatTypeOK
<1>2. /\ \A p \in Partitions \ {q} : prepClks'[p] = prepClks[p]
      /\ prepClks'[q] = {e \in prepClks[q] : e.txn # t}
  BY <1>1
<1>3. \A u \in Txns : \A p \in Partitions :
         IsPrepared(p, u)' <=> IsPrepared(p, u) /\ ~(p = q /\ u = t)
  <2> SUFFICES ASSUME NEW u \in Txns, NEW p \in Partitions
               PROVE  (\E e \in prepClks'[p] : e.txn = u)
                         <=> (\E e \in prepClks[p] : e.txn = u) /\ ~(p = q /\ u = t)
    BY DEF IsPrepared
  <2>1. CASE p # q
    BY <1>2, <2>1
  <2>2. CASE p = q
    BY <1>2, <2>2
  <2> QED BY <2>1, <2>2
<1> QED BY <1>3 DEF PreparedAt

\* applyCommit takes the pending updates of t at q out.
LEMMA ApplyCommitPending ==
    ASSUME TypeInv, NEW q \in Partitions, NEW t \in Txns, NEW clk, ApplyCommit(q, t, clk)
    PROVE  /\ PendingAt(t)' = PendingAt(t) \ {q}
           /\ \A u \in Txns \ {t} : PendingAt(u)' = PendingAt(u)
<1>1. pendingOps \in [Partitions -> SUBSET Txns]
  BY DEF TypeInv, TypeOK, MatTypeOK
<1>2. pendingOps' = [pendingOps EXCEPT ![q] = pendingOps[q] \ {t}]
  BY DEF ApplyCommit
<1>3. \A p \in Partitions : pendingOps'[p] = IF p = q THEN pendingOps[p] \ {t} ELSE pendingOps[p]
  BY <1>1, <1>2
<1> QED BY <1>3 DEF PendingAt

\* A transaction whose commit p has, or has applied, depends no more on what p knows of it.
LEMMA CommittedLife ==
    ASSUME TypeInv, NEW q \in Partitions, NEW t \in Txns, TxnOK(t),
           pc[t] \in {"commit", "done"}, q \in parts[t], q \notin toSend[t], Sent(q, t)' = {},
           \A p \in Partitions \ {q} : Sent(p, t)' = Sent(p, t) /\ HeldOf(p, t)' = HeldOf(p, t),
           q \notin PreparedAt(t)',
           \A p \in Partitions \ {q} : /\ p \in PreparedAt(t)' <=> p \in PreparedAt(t)
                                       /\ p \in PendingAt(t)' <=> p \in PendingAt(t),
           \A h \in HeldOf(q, t)' : h.clk = maxTs[t],
           UNCHANGED <<replyChan, readChan, pc, parts, toSend, reading, nReplies, maxTs>>
    PROVE  TxnOK(t)'
<1>1. /\ KindOK(t) /\ LoopOK(t) /\ CountOK(t)
      /\ \A p \in Partitions : SentOK(p, t) /\ PartOK(p, t)
  BY DEF TxnOK
<1>2. KindOK(t)' /\ LoopOK(t)' /\ CountOK(t)'
  BY <1>1 DEF KindOK, LoopOK, CountOK
<1>3. \A p \in Partitions : SentOK(p, t)'
  <2> SUFFICES ASSUME NEW p \in Partitions, NEW k \in Sent(p, t)' PROVE MsgOK(k, p, t)'
    BY DEF SentOK
  <2>1. p # q /\ k \in Sent(p, t)
    OBVIOUS
  <2>2. MsgOK(k, p, t)
    BY <1>1, <2>1 DEF SentOK
  <2> QED BY <2>1, <2>2 DEF MsgOK
<1>4. \A p \in Partitions : PartOK(p, t)'
  <2> SUFFICES ASSUME NEW p \in Partitions PROVE PartOK(p, t)'
    OBVIOUS
  <2>1. CASE p = q
    BY <2>1 DEF PartOK
  <2>2. CASE p # q
    <3>1. PartOK(p, t)
      BY <1>1
    <3> QED BY <2>2, <3>1 DEF PartOK
  <2> QED BY <2>1, <2>2
<1> QED BY <1>2, <1>3, <1>4 DEF TxnOK

\* handleMatCommit keeps the facts.
LEMMA CommitLife ==
    ASSUME TypeInv, LifeInv, NEW q \in Partitions, HandleMatCommit(q),
           UNCHANGED <<pc, parts, toSend, reading, nReplies, maxTs>>
    PROVE  LifeInv'
<1>1. PICK t \in Txns, clk \in Clock, lowest \in HeapRoots(prepClks[q]) :
              /\ t = Head(channels[q]).txn /\ clk = maxTs[t]
              /\ q \in PreparedAt(t) /\ t \in pendingOps[q] /\ q \in parts[t]
              /\ pc[t] \in {"commit", "done"} /\ q \notin toSend[t]
              /\ prepClks' = [prepClks EXCEPT ![q] = {e \in prepClks[q] : e.txn # t}]
              /\ \/ ApplyCommit(q, t, clk) /\ UNCHANGED commitsOnHold
                 \/ HoldCommit(q, t, clk)
  BY CommitTaken
<1>2. Takes(q, "commit") /\ UNCHANGED <<replyChan, readChan>>
  BY DEF HandleMatCommit
<1>3. /\ Sent(q, t)' = {}
      /\ \A p \in Partitions \ {q} : Sent(p, t)' = Sent(p, t)
  BY <1>1, <1>2, SentTaken DEF LifeInv
<1>4. /\ PreparedAt(t)' = PreparedAt(t) \ {q}
      /\ \A u \in Txns \ {t} : PreparedAt(u)' = PreparedAt(u)
  BY <1>1, RemovePrepareEffect
<1>5. TxnOK(t)
  BY DEF LifeInv
<1>6. \A h \in HeldOf(q, t) : h.clk = maxTs[t]
  BY <1>5 DEF TxnOK, PartOK
<1>7. CASE ApplyCommit(q, t, clk) /\ UNCHANGED commitsOnHold
  <2>1. /\ PendingAt(t)' = PendingAt(t) \ {q}
        /\ \A u \in Txns \ {t} : PendingAt(u)' = PendingAt(u)
    BY <1>7, ApplyCommitPending
  <2>2. \A u \in Txns : \A p \in Partitions : HeldOf(p, u)' = HeldOf(p, u)
    BY <1>7 DEF HeldOf
  <2>3. TxnOK(t)'
    BY <1>1, <1>2, <1>3, <1>4, <1>5, <1>6, <2>1, <2>2, CommittedLife
  <2> QED BY <1>1, <1>2, <1>4, <2>1, <2>2, <2>3, ServeLife
<1>8. CASE HoldCommit(q, t, clk)
  <2>1. commitsOnHold \in [Partitions -> SUBSET TxnClkPair]
    BY DEF TypeInv, TypeOK, MatTypeOK
  <2>2. PICK pair : pair = [txn |-> t, clk |-> clk]
    OBVIOUS
  <2>3. /\ commitsOnHold'[q] = commitsOnHold[q] \cup {pair} /\ pair.txn = t /\ pair.clk = maxTs[t]
        /\ \A p \in Partitions \ {q} : commitsOnHold'[p] = commitsOnHold[p]
    BY <1>1, <1>8, <2>1, <2>2 DEF HoldCommit
  <2>4. /\ \A u \in Txns \ {t} : \A p \in Partitions : HeldOf(p, u)' = HeldOf(p, u)
        /\ \A p \in Partitions \ {q} : HeldOf(p, t)' = HeldOf(p, t)
    BY <2>3 DEF HeldOf
  <2>5. \A h \in HeldOf(q, t)' : h.clk = maxTs[t]
    BY <1>6, <2>3 DEF HeldOf
  <2>6. \A u \in Txns : PendingAt(u)' = PendingAt(u)
    BY <1>8 DEF HoldCommit, PendingAt
  <2>7. TxnOK(t)'
    BY <1>1, <1>2, <1>3, <1>4, <1>5, <2>4, <2>5, <2>6, CommittedLife
  <2> QED BY <1>1, <1>2, <1>4, <2>4, <2>6, <2>7, ServeLife
<1> QED BY <1>1, <1>7, <1>8

\* checkHoldCommits applies a held commit, the prepare of which is gone and which has been sent.
LEMMA CheckHoldLife ==
    ASSUME TypeInv, LifeInv, NEW q \in Partitions, CheckHoldCommits(q),
           UNCHANGED <<pc, parts, toSend, reading, nReplies, maxTs>>
    PROVE  LifeInv'
<1>1. OnlyWritesFollowed /\ \A u \in Txns : TxnOK(u)
  BY DEF LifeInv
<1>2. UNCHANGED <<channels, prepClks, replyChan, readChan>>
  BY DEF CheckHoldCommits
<1>3. OnlyWritesFollowed' /\ \A u \in Txns : \A p \in Partitions : Sent(p, u)' = Sent(p, u)
  BY <1>1, <1>2 DEF OnlyWritesFollowed, Sent, Waiting
<1>4. \A u \in Txns : PreparedAt(u)' = PreparedAt(u)
  BY <1>2 DEF PreparedAt, IsPrepared
<1>5. CASE UNCHANGED <<commitsOnHold, pendingOps>>
  <2>1. \A u \in Txns : SameTxn(u)
    BY <1>2, <1>3, <1>4, <1>5 DEF SameTxn, SameAtPartitions, PendingAt, HeldOf
  <2> QED BY <1>1, <1>3, <2>1, SameTxnKeeps DEF LifeInv
<1>6. ASSUME NEW h \in commitsOnHold[q], ApplyCommit(q, h.txn, h.clk),
             commitsOnHold' = [commitsOnHold EXCEPT ![q] = commitsOnHold[q] \ {h}]
      PROVE  LifeInv'
  <2>1. commitsOnHold \in [Partitions -> SUBSET TxnClkPair]
    BY DEF TypeInv, TypeOK, MatTypeOK
  <2>2. PICK t : t = h.txn
    OBVIOUS
  <2>3. t \in Txns /\ h \in HeldOf(q, t)
    BY <1>6, <2>1, <2>2 DEF TxnClkPair, HeldOf
  <2>4. TxnOK(t) /\ KindOK(t) /\ SentOK(q, t) /\ PartOK(q, t)
    BY <1>1, <2>3 DEF TxnOK
  <2>5. /\ pc[t] \in {"commit", "done"} /\ q \in parts[t] /\ q \notin toSend[t]
        /\ q \notin PreparedAt(t) /\ \A g \in HeldOf(q, t) : g.clk = maxTs[t]
    BY <2>3, <2>4 DEF PartOK
  <2>6. Sent(q, t) = {}
    <3> SUFFICES ASSUME NEW k \in Sent(q, t) PROVE FALSE
      OBVIOUS
    <3>1. k.type \in TxnReqTypes
      BY <2>3, SentType
    <3> QED BY <2>4, <2>5, <3>1 DEF SentOK, MsgOK, TxnReqTypes, KindOK
  <2>7. /\ PendingAt(t)' = PendingAt(t) \ {q}
        /\ \A u \in Txns \ {t} : PendingAt(u)' = PendingAt(u)
    BY <1>6, <2>2, <2>3, ApplyCommitPending
  <2>8. /\ commitsOnHold'[q] = commitsOnHold[q] \ {h}
        /\ \A p \in Partitions \ {q} : commitsOnHold'[p] = commitsOnHold[p]
    BY <1>6, <2>1
  <2>9. /\ \A p \in Partitions \ {q} : HeldOf(p, t)' = HeldOf(p, t)
        /\ \A g \in HeldOf(q, t)' : g \in HeldOf(q, t)
        /\ \A u \in Txns \ {t} : \A p \in Partitions : HeldOf(p, u)' = HeldOf(p, u)
    BY <2>2, <2>8 DEF HeldOf
  <2>10. TxnOK(t)'
    BY <1>2, <1>3, <1>4, <2>3, <2>4, <2>5, <2>6, <2>7, <2>9, CommittedLife
  <2>11. \A u \in Txns \ {t} : SameTxn(u)
    BY <1>2, <1>3, <1>4, <2>7, <2>9 DEF SameTxn, SameAtPartitions
  <2> QED BY <1>1, <1>3, <2>10, <2>11, SameTxnKeeps DEF LifeInv
<1> QED BY <1>5, <1>6 DEF CheckHoldCommits, HeapRoots

\* handleMatWrite: the updates of a transaction become pending.
LEMMA WriteLife ==
    ASSUME TypeInv, LifeInv, NEW q \in Partitions, HandleMatWrite(q),
           UNCHANGED <<pc, parts, toSend, reading, nReplies, maxTs>>
    PROVE  LifeInv'
<1>1. PICK m : m = Head(channels[q])
  OBVIOUS
<1>2. PICK t : t = m.txn
  OBVIOUS
<1>3. /\ Takes(q, "write") /\ UNCHANGED <<prepClks, commitsOnHold, replyChan, readChan>>
      /\ pendingOps' = [pendingOps EXCEPT ![q] = pendingOps[q] \cup {t}]
  BY <1>1, <1>2 DEF HandleMatWrite
<1>4. t \in Txns
  BY <1>1, <1>2, <1>3, TakesType DEF TypeInv, TypeOK
<1>5. /\ m.type = "write" /\ m \in Sent(q, t)
      /\ \A p \in Partitions \ {q} : Sent(p, t)' = Sent(p, t)
      /\ Sent(q, t)' \subseteq Sent(q, t)
  BY <1>1, <1>2, <1>3, <1>4, SentTaken DEF LifeInv
<1>6. /\ KindOK(t) /\ LoopOK(t) /\ CountOK(t) /\ MsgOK(m, q, t)
      /\ \A p \in Partitions : SentOK(p, t) /\ PartOK(p, t)
  BY <1>4, <1>5 DEF LifeInv, TxnOK, SentOK
<1>7. q \in parts[t]
  BY <1>5, <1>6 DEF MsgOK
<1>8. pendingOps \in [Partitions -> SUBSET Txns]
  BY DEF TypeInv, TypeOK, MatTypeOK
<1>9. /\ PendingAt(t)' = PendingAt(t) \cup {q}
      /\ \A u \in Txns \ {t} : PendingAt(u)' = PendingAt(u)
  BY <1>3, <1>4, <1>8 DEF PendingAt
<1>10. /\ \A u \in Txns : PreparedAt(u)' = PreparedAt(u)
       /\ \A u \in Txns : \A p \in Partitions : HeldOf(p, u)' = HeldOf(p, u)
  BY <1>3 DEF PreparedAt, IsPrepared, HeldOf
<1>11. TxnOK(t)'
  <2>1. KindOK(t)' /\ LoopOK(t)' /\ CountOK(t)'
    BY <1>3, <1>4, <1>6, <1>10 DEF KindOK, LoopOK, CountOK
  <2>2. \A p \in Partitions : SentOK(p, t)'
    <3> SUFFICES ASSUME NEW p \in Partitions, NEW k \in Sent(p, t)' PROVE MsgOK(k, p, t)'
      BY DEF SentOK
    <3>1. k \in Sent(p, t)
      BY <1>5
    <3>2. MsgOK(k, p, t)
      BY <1>6, <3>1 DEF SentOK
    <3> QED BY <1>3, <1>4, <1>10, <3>2 DEF MsgOK
  <2>3. \A p \in Partitions : PartOK(p, t)'
    <3> SUFFICES ASSUME NEW p \in Partitions PROVE PartOK(p, t)'
      OBVIOUS
    <3>1. PartOK(p, t)
      BY <1>6
    <3>2. CASE p = q
      BY <1>4, <1>7, <1>9, <1>10, <3>1, <3>2 DEF PartOK
    <3>3. CASE p # q
      BY <1>4, <1>5, <1>9, <1>10, <3>1, <3>3 DEF PartOK
    <3> QED BY <3>2, <3>3
  <2> QED BY <2>1, <2>2, <2>3 DEF TxnOK
<1> QED BY <1>1, <1>2, <1>3, <1>4, <1>9, <1>10, <1>11, ServeLife

\* handleMatAbort: an aborted transaction has no pending update at q any more.
LEMMA AbortLife ==
    ASSUME TypeInv, LifeInv, NEW q \in Partitions, HandleMatAbort(q),
           UNCHANGED <<pc, parts, toSend, reading, nReplies, maxTs>>
    PROVE  LifeInv'
<1>1. PICK m : m = Head(channels[q])
  OBVIOUS
<1>2. PICK t : t = m.txn
  OBVIOUS
<1>3. /\ Takes(q, "abort") /\ UNCHANGED <<prepClks, commitsOnHold, replyChan, readChan>>
      /\ pendingOps' = [pendingOps EXCEPT ![q] = pendingOps[q] \ {t}]
  BY <1>1, <1>2 DEF HandleMatAbort
<1>4. t \in Txns
  BY <1>1, <1>2, <1>3, TakesType DEF TypeInv, TypeOK
<1>5. /\ m.type = "abort" /\ m \in Sent(q, t)
      /\ \A p \in Partitions \ {q} : Sent(p, t)' = Sent(p, t)
      /\ Sent(q, t)' = {}
  BY <1>1, <1>2, <1>3, <1>4, SentTaken DEF LifeInv
<1>6. /\ KindOK(t) /\ LoopOK(t) /\ CountOK(t) /\ MsgOK(m, q, t)
      /\ \A p \in Partitions : SentOK(p, t) /\ PartOK(p, t)
  BY <1>4, <1>5 DEF LifeInv, TxnOK, SentOK
<1>7. pc[t] \in {"abort", "aborted"}
  BY <1>5, <1>6 DEF MsgOK
<1>8. pendingOps \in [Partitions -> SUBSET Txns]
  BY DEF TypeInv, TypeOK, MatTypeOK
<1>9. /\ PendingAt(t)' = PendingAt(t) \ {q}
      /\ \A u \in Txns \ {t} : PendingAt(u)' = PendingAt(u)
  BY <1>3, <1>4, <1>8 DEF PendingAt
<1>10. /\ \A u \in Txns : PreparedAt(u)' = PreparedAt(u)
       /\ \A u \in Txns : \A p \in Partitions : HeldOf(p, u)' = HeldOf(p, u)
  BY <1>3 DEF PreparedAt, IsPrepared, HeldOf
<1>11. TxnOK(t)'
  <2>1. KindOK(t)' /\ LoopOK(t)' /\ CountOK(t)'
    BY <1>3, <1>4, <1>6, <1>10 DEF KindOK, LoopOK, CountOK
  <2>2. \A p \in Partitions : SentOK(p, t)'
    <3> SUFFICES ASSUME NEW p \in Partitions, NEW k \in Sent(p, t)' PROVE MsgOK(k, p, t)'
      BY DEF SentOK
    <3>1. k \in Sent(p, t)
      BY <1>5
    <3>2. MsgOK(k, p, t)
      BY <1>6, <3>1 DEF SentOK
    <3> QED BY <1>3, <1>4, <1>10, <3>2 DEF MsgOK
  <2>3. \A p \in Partitions : PartOK(p, t)'
    <3> SUFFICES ASSUME NEW p \in Partitions PROVE PartOK(p, t)'
      OBVIOUS
    <3>1. PartOK(p, t)
      BY <1>6
    <3> QED BY <1>4, <1>7, <1>9, <1>10, <3>1 DEF PartOK
  <2> QED BY <2>1, <2>2, <2>3 DEF TxnOK
<1> QED BY <1>1, <1>2, <1>3, <1>4, <1>9, <1>10, <1>11, ServeLife

\* handleMatRead: the reply of q joins the ones of the read.
LEMMA ReadLife ==
    ASSUME TypeInv, LifeInv, NEW q \in Partitions, HandleMatRead(q),
           UNCHANGED <<pc, parts, toSend, reading, nReplies, maxTs>>
    PROVE  LifeInv'
<1>1. PICK m : m = Head(channels[q])
  OBVIOUS
<1>2. PICK t : t = m.txn
  OBVIOUS
<1>3. PICK r : r = [part |-> q, seen |-> db[q] \cup ({t} \cap pendingOps[q])]
  OBVIOUS
<1>4. /\ Takes(q, "read") /\ UNCHANGED <<prepClks, commitsOnHold, pendingOps, replyChan>>
      /\ readChan' = [readChan EXCEPT ![t] = readChan[t] \cup {r}]
  BY <1>1, <1>2, <1>3 DEF HandleMatRead, partVars
<1>5. t \in Txns /\ r.part = q
  BY <1>1, <1>2, <1>3, <1>4, TakesType DEF TypeInv, TypeOK
<1>6. /\ m.type = "read" /\ m \in Sent(q, t)
      /\ \A p \in Partitions \ {q} : Sent(p, t)' = Sent(p, t)
      /\ Sent(q, t) = {m} /\ Sent(q, t)' = {}
  BY <1>1, <1>2, <1>4, <1>5, SentTaken DEF LifeInv
<1>7. /\ KindOK(t) /\ LoopOK(t) /\ CountOK(t) /\ MsgOK(m, q, t)
      /\ \A p \in Partitions : SentOK(p, t) /\ PartOK(p, t)
  BY <1>5, <1>6 DEF LifeInv, TxnOK, SentOK
<1>8. pc[t] = "read" /\ q \notin toSend[t]
  BY <1>6, <1>7 DEF MsgOK
<1>9. /\ readChan'[t] = readChan[t] \cup {r}
      /\ \A u \in Txns \ {t} : readChan'[u] = readChan[u]
  BY <1>4, <1>5 DEF TypeInv, TypeOK, MatTypeOK
<1>10. /\ \A u \in Txns : PreparedAt(u)' = PreparedAt(u) /\ PendingAt(u)' = PendingAt(u)
       /\ \A u \in Txns : \A p \in Partitions : HeldOf(p, u)' = HeldOf(p, u)
  BY <1>4, PartitionSame
<1>11. TxnOK(t)'
  <2>1. KindOK(t)' /\ CountOK(t)'
    BY <1>4, <1>5, <1>7, <1>10 DEF KindOK, CountOK
  <2>2. LoopOK(t)'
    BY <1>5, <1>7, <1>8, <1>9 DEF LoopOK
  <2>3. \A p \in Partitions : SentOK(p, t)'
    <3> SUFFICES ASSUME NEW p \in Partitions, NEW k \in Sent(p, t)' PROVE MsgOK(k, p, t)'
      BY DEF SentOK
    <3>1. p # q /\ k \in Sent(p, t)
      BY <1>6
    <3>2. MsgOK(k, p, t)
      BY <1>7, <3>1 DEF SentOK
    <3> QED BY <1>5, <1>9, <1>10, <3>1, <3>2 DEF MsgOK
  <2>4. \A p \in Partitions : PartOK(p, t)'
    <3> SUFFICES ASSUME NEW p \in Partitions PROVE PartOK(p, t)'
      OBVIOUS
    <3>1. PartOK(p, t)
      BY <1>7
    <3>2. \A k \in Sent(p, t) : k.type = "write" => k \in Sent(p, t)'
      BY <1>6
    <3> QED BY <1>5, <1>10, <3>1, <3>2 DEF PartOK
  <2> QED BY <2>1, <2>2, <2>3, <2>4 DEF TxnOK
<1> QED BY <1>1, <1>2, <1>4, <1>5, <1>9, <1>10, <1>11, ServeLife

\* handleMatStaticSingleRead: the reply goes to a transaction that updates nothing.
LEMMA StaticSingleReadLife ==
    ASSUME TypeInv, LifeInv, NEW q \in Partitions, HandleMatStaticSingleRead(q),
           UNCHANGED <<pc, parts, toSend, reading, nReplies, maxTs>>
    PROVE  LifeInv'
<1>1. PICK m : m = Head(channels[q])
  OBVIOUS
<1>2. PICK t : t = m.txn
  OBVIOUS
<1>3. /\ Takes(q, "singleRead") /\ UNCHANGED <<prepClks, commitsOnHold, pendingOps>>
      /\ readChan' = [readChan EXCEPT ![t] = {[part |-> q, seen |-> db[q]]}]
      /\ replyChan' = [replyChan EXCEPT ![t] = Append(replyChan[t], stableClk[q])]
  BY <1>1, <1>2 DEF HandleMatStaticSingleRead, partVars
<1>4. t \in Txns
  BY <1>1, <1>2, <1>3, TakesType DEF TypeInv, TypeOK
<1>5. /\ m.type = "singleRead" /\ m \in Sent(q, t)
      /\ \A p \in Partitions \ {q} : Sent(p, t)' = Sent(p, t)
      /\ Sent(q, t)' = {}
  BY <1>1, <1>2, <1>3, <1>4, SentTaken DEF LifeInv
<1>6. /\ KindOK(t) /\ LoopOK(t) /\ CountOK(t) /\ MsgOK(m, q, t)
      /\ \A p \in Partitions : SentOK(p, t) /\ PartOK(p, t)
  BY <1>4, <1>5 DEF LifeInv, TxnOK, SentOK
<1>7. pc[t] \in {"single", "done"} /\ t \in StaticReaders
  BY <1>5, <1>6 DEF MsgOK
<1>8. \A u \in Txns \ {t} : readChan'[u] = readChan[u] /\ replyChan'[u] = replyChan[u]
  BY <1>3, <1>4 DEF TypeInv, TypeOK, MatTypeOK
<1>9. /\ \A u \in Txns : PreparedAt(u)' = PreparedAt(u) /\ PendingAt(u)' = PendingAt(u)
      /\ \A u \in Txns : \A p \in Partitions : HeldOf(p, u)' = HeldOf(p, u)
  BY <1>3, PartitionSame
<1>10. TxnOK(t)'
  <2>1. KindOK(t)' /\ LoopOK(t)' /\ CountOK(t)'
    BY <1>4, <1>6, <1>7, <1>9 DEF KindOK, LoopOK, CountOK
  <2>2. \A p \in Partitions : SentOK(p, t)'
    <3> SUFFICES ASSUME NEW p \in Partitions, NEW k \in Sent(p, t)' PROVE MsgOK(k, p, t)'
      BY DEF SentOK
    <3>1. k \in Sent(p, t)
      BY <1>5
    <3>2. MsgOK(k, p, t)
      BY <1>6, <3>1 DEF SentOK
    <3> QED BY <1>4, <1>7, <1>9, <3>2 DEF MsgOK
  <2>3. \A p \in Partitions : PartOK(p, t)'
    BY <1>4, <1>6, <1>7, <1>9, ManagerConstants DEF PartOK
  <2> QED BY <2>1, <2>2, <2>3 DEF TxnOK
<1> QED BY <1>1, <1>2, <1>3, <1>4, <1>8, <1>9, <1>10, ServeLife

\* handleMatSafeClk is about no transaction.
LEMMA SafeClkLife ==
    ASSUME TypeInv, LifeInv, NEW q \in Partitions, HandleMatSafeClk(q),
           UNCHANGED <<pc, parts, toSend, reading, nReplies, maxTs>>
    PROVE  LifeInv'
<1>1. PICK m : m = Head(channels[q])
  OBVIOUS
<1>2. /\ Takes(q, "safeClk")
      /\ UNCHANGED <<prepClks, commitsOnHold, pendingOps, replyChan, readChan>>
  BY DEF HandleMatSafeClk
<1>3. OnlyWritesFollowed /\ \A u \in Txns : TxnOK(u)
  BY DEF LifeInv
<1>4. /\ m \in MatRequest /\ m.type = "safeClk"
      /\ \A p \in Partitions, u \in Txns : p # q \/ u # m.txn => Sent(p, u)' = Sent(p, u)
  BY <1>1, <1>2, <1>3, SentTaken
<1>5. m.txn \notin Txns
  BY <1>4, MaterializerConstants DEF MatRequest, TxnReqTypes
<1>6. \A u \in Txns : SameTxn(u)
  BY <1>2, <1>4, <1>5, PartitionSame DEF SameTxn, SameAtPartitions
<1>7. OnlyWritesFollowed'
  BY <1>2, <1>3, TailKeepsOrder
<1> QED BY <1>3, <1>6, <1>7, SameTxnKeeps DEF LifeInv

\* The steps of the partitions keep the facts.
LEMMA PartitionLife ==
    ASSUME TypeInv, LifeInv, NEW q \in Partitions, Partition(q)
    PROVE  LifeInv'
<1>1. PartitionStep(q) /\ UNCHANGED <<pc, parts, toSend, reading, nReplies, maxTs>>
  BY PartitionFrame DEF Partition
<1>2. \A time \in now .. MaxTime : time \in Nat
  BY MaterializerConstants DEF TypeInv, TypeOK, MatTypeOK
<1>3. CASE HandleMatStaticWrite(q)
  <2>1. PICK time \in now .. MaxTime : PrepareClock(q, Head(channels[q]).txn, time)
    BY <1>3 DEF HandleMatStaticWrite
  <2>2. time \in Nat
    BY <1>2
  <2>3. /\ Takes(q, "staticWrite") /\ UNCHANGED <<commitsOnHold, readChan>>
        /\ pendingOps' = [pendingOps EXCEPT ![q] = pendingOps[q] \cup {Head(channels[q]).txn}]
    BY <1>3 DEF HandleMatStaticWrite
  <2> QED BY <1>1, <2>1, <2>2, <2>3, PrepareLife
<1>4. CASE HandleMatPrepare(q)
  <2>1. PICK time \in now .. MaxTime : PrepareClock(q, Head(channels[q]).txn, time)
    BY <1>4 DEF HandleMatPrepare
  <2>2. time \in Nat
    BY <1>2
  <2>3. Takes(q, "prepare") /\ UNCHANGED <<commitsOnHold, readChan, pendingOps>>
    BY <1>4 DEF HandleMatPrepare
  <2> QED BY <1>1, <2>1, <2>2, <2>3, PrepareLife
<1> QED BY <1>1, <1>3, <1>4, WriteLife, CommitLife, CheckHoldLife, AbortLife, ReadLife,
           StaticSingleReadLife, SafeClkLife DEF PartitionStep

\* Initially no transaction has begun.
LEMMA InitLife == Init => LifeInv
<1> SUFFICES ASSUME Init PROVE LifeInv
  OBVIOUS
<1>1. /\ channels = [p \in Partitions |-> <<>>]
      /\ pc = [t \in Txns |-> "idle"] /\ parts = [t \in Txns |-> {}]
      /\ toSend = [t \in Txns |-> {}] /\ nReplies = [t \in Txns |-> 0]
      /\ replyChan = [t \in Txns |-> <<>>] /\ pendingOps = [p \in Partitions |-> {}]
      /\ prepClks = [p \in Partitions |-> {}] /\ commitsOnHold = [p \in Partitions |-> {}]
  BY DEF Init, MatInit
<1>2. \A p \in Partitions : Len(channels[p]) = 0
  BY <1>1
<1>3. \A p \in Partitions, t \in Txns : Sent(p, t) = {} /\ HeldOf(p, t) = {}
  BY <1>1, <1>2 DEF Sent, Waiting, HeldOf
<1>4. \A t \in Txns : PreparedAt(t) = {} /\ PendingAt(t) = {}
  BY <1>1 DEF PreparedAt, IsPrepared, PendingAt
<1>5. OnlyWritesFollowed
  BY <1>2 DEF OnlyWritesFollowed
<1>6. \A t \in Txns : TxnOK(t)
  BY <1>1, <1>3, <1>4 DEF TxnOK, KindOK, LoopOK, CountOK, SentOK, PartOK
<1> QED BY <1>5, <1>6 DEF LifeInv

\* Every step keeps the facts.
LEMMA NextLife == TypeInv /\ WaitInv /\ LifeInv /\ [Next]_vars => LifeInv'
<1> SUFFICES ASSUME TypeInv, WaitInv, LifeInv, [Next]_vars PROVE LifeInv'
  OBVIOUS
<1>1. CASE UNCHANGED vars
  <2>1. UNCHANGED <<partVars, chanVars, txnVars>>
    BY <1>1 DEF vars
  <2>2. (\A u \in Txns : SameAtPartitions(u)) /\ OnlyWritesFollowed'
    BY <2>1, LocalSame DEF LifeInv, partVars, chanVars
  <2>3. \A u \in Txns : SameTxn(u)
    BY <2>1, <2>2 DEF SameTxn, chanVars, txnVars
  <2> QED BY <2>2, <2>3, SameTxnKeeps DEF LifeInv
<1> QED BY <1>1, PartitionLife, RequestSafeClkLife, TxnStepLife, ClientStepLife, CommitRepliesLife
        DEF Next

\* The protocol facts hold in every state.
LEMMA LifeHolds == Spec => [](TypeInv /\ WaitInv /\ LifeInv)
BY InitType, NextType, InitWait, NextWait, InitLife, NextLife, PTL DEF Spec

\* A commit always finds the transaction prepared at the partition and its updates pending
\* there, however the requests of the clients, of the partitions and of the loggers
\* interleave: removePrepare never takes out the prepare of another transaction and
\* applyCommit never applies nothing.
THEOREM CommitsFindPrepares == Spec => []CommitFindsPrepare
<1>1. TypeInv /\ LifeInv => CommitFindsPrepare
  <2> SUFFICES ASSUME TypeInv, LifeInv, NEW p \in Partitions, NEW i \in 1 .. Len(channels[p]),
                      channels[p][i].type = "commit"
               PROVE  /\ IsPrepared(p, channels[p][i].txn)
                      /\ channels[p][i].txn \in pendingOps[p]
    BY DEF CommitFindsPrepare
  <2>1. PICK m : m = channels[p][i]
    OBVIOUS
  <2>2. m \in MatRequest /\ m.type = "commit"
    BY <2>1, ChannelType
  <2>3. m.txn \in Txns
    BY <2>2 DEF MatRequest
  <2>4. m \in Sent(p, m.txn)
    BY <2>1 DEF Sent, Waiting
  <2>5. MsgOK(m, p, m.txn) /\ PartOK(p, m.txn)
    BY <2>3, <2>4 DEF LifeInv, TxnOK, SentOK
  <2>6. p \in PreparedAt(m.txn) /\ p \in PendingAt(m.txn)
    BY <2>2, <2>5 DEF MsgOK, PartOK
  <2> QED BY <2>1, <2>6 DEF PreparedAt, PendingAt
<1> QED BY <1>1, LifeHolds, PTL

=============================================================================
