--------------------------- MODULE CommitOrderProofs ---------------------------
(***************************************************************************)
(* The order in which a partition applies and logs commits.  In single     *)
(* server mode all the clocks of the commit protocol are 0 except at Self, *)
(* so they are ordered like the naturals at Self; what is prepared or held *)
(* at a partition is never below what it has applied or announced.         *)
(***************************************************************************)
EXTENDS CommitProtocolProofs

-----------------------------------------------------------------------------
(* Clocks that only this server has advanced *)

SelfClock == {c \in Clock : \A r \in Replicas \ {Self} : c[r] = 0}

\* The comparisons of such clocks are the ones of their position at Self.
LEMMA SelfOrder ==
    ASSUME NEW c \in SelfClock, NEW d \in SelfClock
    PROVE  /\ c \in Clock /\ c[Self] \in Nat /\ d[Self] \in Nat
           /\ IsLower(c, d) <=> c[Self] < d[Self]
           /\ IsHigher(c, d) <=> c[Self] > d[Self]
           /\ IsLowerOrEqual(c, d) <=> c[Self] <= d[Self]
           /\ IsHigherOrEqual(c, d) <=> c[Self] >= d[Self]
<1>1. /\ Self \in Replicas /\ c \in Clock /\ c[Self] \in Nat /\ d[Self] \in Nat
      /\ \A r \in Replicas \ {Self} : c[r] = 0 /\ d[r] = 0
  BY MaterializerConstants DEF SelfClock, Clock
<1>2. IsLower(c, d) <=> c[Self] < d[Self]
  BY <1>1 DEF IsLower
<1>3. IsHigher(c, d) <=> c[Self] > d[Self]
  BY <1>1 DEF IsHigher
<1>4. IsLowerOrEqual(c, d) <=> c[Self] <= d[Self]
  BY <1>1 DEF IsLowerOrEqual
<1>5. IsHigherOrEqual(c, d) <=> c[Self] >= d[Self]
  BY <1>1 DEF IsHigherOrEqual
<1> QED BY <1>1, <1>2, <1>3, <1>4, <1>5

\* Merge gives the higher of two such clocks.
LEMMA SelfMerge ==
    ASSUME NEW c \in SelfClock, NEW d \in SelfClock
    PROVE  /\ Merge(c, d) \in SelfClock
           /\ Merge(c, d)[Self] = IF c[Self] > d[Self] THEN c[Self] ELSE d[Self]
<1>1. /\ Self \in Replicas /\ c \in Clock /\ d \in Clock
      /\ \A r \in Replicas \ {Self} : c[r] = 0 /\ d[r] = 0
  BY MaterializerConstants DEF SelfClock
<1>2. Merge(c, d) \in Clock
  BY <1>1, MergeType
<1>3. \A r \in Replicas : Merge(c, d)[r] = IF c[r] > d[r] THEN c[r] ELSE d[r]
  BY DEF Merge
<1>4. \A r \in Replicas \ {Self} : Merge(c, d)[r] = 0
  BY <1>1, <1>3
<1> QED BY <1>1, <1>2, <1>3, <1>4 DEF SelfClock

Replies(t) == {replyChan[t][i] : i \in 1 .. Len(replyChan[t])}

\* The clocks of the commit protocol are such clocks.
SelfInv ==
    /\ stableClk \in [Partitions -> SelfClock]
    /\ maxTs \in [Txns -> SelfClock]
    /\ \A t \in Txns : Replies(t) \subseteq SelfClock
    /\ \A p \in Partitions : \A e \in prepClks[p] : e.clk \in SelfClock
    /\ \A p \in Partitions : \A i \in 1 .. Len(logChan[p]) : logChan[p][i].clk \in SelfClock

\* A reply is added to the ones that wait.
LEMMA RepliesAppend ==
    ASSUME TypeInv, NEW t \in Txns, NEW c \in Clock,
           replyChan' = [replyChan EXCEPT ![t] = Append(replyChan[t], c)]
    PROVE  /\ Replies(t)' = Replies(t) \cup {c}
           /\ \A u \in Txns \ {t} : Replies(u)' = Replies(u)
<1>1. replyChan \in [Txns -> Seq(Clock)]
  BY DEF TypeInv, TypeOK, MatTypeOK
<1>2. /\ replyChan'[t] = Append(replyChan[t], c)
      /\ \A u \in Txns \ {t} : replyChan'[u] = replyChan[u]
  BY <1>1
<1>3. PICK s : s = replyChan[t]
  OBVIOUS
<1>4. s \in Seq(Clock)
  BY <1>1, <1>3
<1>5. {Append(s, c)[i] : i \in 1 .. Len(Append(s, c))} = {s[i] : i \in 1 .. Len(s)} \cup {c}
  <2>1. /\ \A i \in 1 .. Len(s) : Append(s, c)[i] = s[i] /\ i \in 1 .. Len(Append(s, c))
        /\ Append(s, c)[Len(s) + 1] = c /\ Len(s) + 1 \in 1 .. Len(Append(s, c))
        /\ \A i \in 1 .. Len(Append(s, c)) : i \in 1 .. Len(s) \/ i = Len(s) + 1
    BY <1>4, AppendFacts
  <2> QED BY <2>1
<1> QED BY <1>2, <1>3, <1>5 DEF Replies

\* The first reply is taken.
LEMMA RepliesTail ==
    ASSUME TypeInv, NEW t \in Txns, replyChan[t] # <<>>, NEW c, c = Head(replyChan[t]),
           replyChan' = [replyChan EXCEPT ![t] = Tail(replyChan[t])]
    PROVE  /\ c \in Replies(t) /\ Replies(t)' \subseteq Replies(t)
           /\ \A k \in Replies(t) : k = c \/ k \in Replies(t)'
           /\ \A u \in Txns \ {t} : Replies(u)' = Replies(u)
<1>1. replyChan \in [Txns -> Seq(Clock)]
  BY DEF TypeInv, TypeOK, MatTypeOK
<1>2. /\ replyChan'[t] = Tail(replyChan[t])
      /\ \A u \in Txns \ {t} : replyChan'[u] = replyChan[u]
  BY <1>1
<1>3. PICK s : s = replyChan[t]
  OBVIOUS
<1>4. s \in Seq(Clock) /\ s # <<>> /\ c = Head(s)
  BY <1>1, <1>3
<1>5. PICK n \in Nat : n = Len(s)
  BY <1>4
<1>6. /\ Len(Tail(s)) = n - 1 /\ n >= 1 /\ c = s[1]
      /\ \A i \in 1 .. (n - 1) : Tail(s)[i] = s[i + 1]
  BY <1>4, <1>5, TailFacts
<1>7. \A i \in 1 .. n : s[i] = c \/ s[i] \in {Tail(s)[j] : j \in 1 .. (n - 1)}
  <2> SUFFICES ASSUME NEW i \in 1 .. n, i # 1
               PROVE  \E j \in 1 .. (n - 1) : s[i] = Tail(s)[j]
    BY <1>6
  <2>1. i - 1 \in 1 .. (n - 1) /\ (i - 1) + 1 = i
    OBVIOUS
  <2> QED BY <1>6, <2>1
<1>8. \A j \in 1 .. (n - 1) : Tail(s)[j] \in {s[i] : i \in 1 .. n}
  <2> SUFFICES ASSUME NEW j \in 1 .. (n - 1)
               PROVE  \E i \in 1 .. n : Tail(s)[j] = s[i]
    OBVIOUS
  <2>1. j + 1 \in 1 .. n
    OBVIOUS
  <2>2. Tail(s)[j] = s[j + 1]
    BY <1>6
  <2> WITNESS j + 1 \in 1 .. n
  <2> QED BY <2>2
<1>9. \E i \in 1 .. n : c = s[i]
  <2>1. 1 \in 1 .. n
    BY <1>6
  <2> WITNESS 1 \in 1 .. n
  <2> QED BY <1>6
<1>10. Replies(t) = {s[i] : i \in 1 .. n}
  BY <1>3, <1>5 DEF Replies
<1>11. Replies(t)' = {Tail(s)[i] : i \in 1 .. (n - 1)}
  <2>1. replyChan'[t] = Tail(s) /\ Len(replyChan'[t]) = n - 1
    BY <1>2, <1>3, <1>6
  <2>2. Replies(t)' = {replyChan'[t][i] : i \in 1 .. (n - 1)}
    BY <2>1 DEF Replies
  <2> QED BY <2>1, <2>2
<1>12. \A u \in Txns \ {t} : Replies(u)' = Replies(u)
  BY <1>2 DEF Replies
<1>13. c \in Replies(t)
  BY <1>9, <1>10
<1>14. Replies(t)' \subseteq Replies(t)
  BY <1>8, <1>10, <1>11
<1>15. \A k \in Replies(t) : k = c \/ k \in Replies(t)'
  BY <1>7, <1>10, <1>11
<1> QED BY <1>12, <1>13, <1>14, <1>15

\* The log of q grows by one request.
LogGrows(q, req) == logChan' = [logChan EXCEPT ![q] = Append(logChan[q], req)]

\* What the log of q holds then.
LEMMA LogAppend ==
    ASSUME TypeInv, NEW q \in Partitions, NEW req \in LogRequest, LogGrows(q, req),
           NEW n, n = Len(logChan[q])
    PROVE  /\ \A p \in Partitions \ {q} : logChan'[p] = logChan[p]
           /\ n \in Nat /\ Len(logChan'[q]) = n + 1
           /\ \A i \in 1 .. n : logChan'[q][i] = logChan[q][i]
           /\ \A i \in 1 .. (n + 1) : i \in 1 .. n \/ i = n + 1
           /\ logChan'[q][n + 1] = req
<1>1. logChan \in [Partitions -> Seq(LogRequest)]
  BY DEF TypeInv, TypeOK, MatTypeOK
<1>2. /\ logChan'[q] = Append(logChan[q], req)
      /\ \A p \in Partitions \ {q} : logChan'[p] = logChan[p]
  BY <1>1 DEF LogGrows
<1>3. logChan[q] \in Seq(LogRequest)
  BY <1>1
<1> QED BY <1>2, <1>3, AppendFacts

\* The log keeps its clocks at Self when it grows by such a clock.
LEMMA LogSelf ==
    ASSUME TypeInv, SelfInv, NEW q \in Partitions, NEW req \in LogRequest, req.clk \in SelfClock,
           logChan' = logChan \/ LogGrows(q, req)
    PROVE  \A p \in Partitions : \A i \in 1 .. Len(logChan'[p]) : logChan'[p][i].clk \in SelfClock
<1>1. CASE logChan' = logChan
  BY <1>1 DEF SelfInv
<1>2. CASE LogGrows(q, req)
  <2>1. PICK n : n = Len(logChan[q])
    OBVIOUS
  <2>2. /\ \A p \in Partitions \ {q} : logChan'[p] = logChan[p]
        /\ n \in Nat /\ Len(logChan'[q]) = n + 1
        /\ \A i \in 1 .. n : logChan'[q][i] = logChan[q][i]
        /\ \A i \in 1 .. (n + 1) : i \in 1 .. n \/ i = n + 1
        /\ logChan'[q][n + 1] = req
    BY <1>2, <2>1, LogAppend
  <2>3. \A i \in 1 .. Len(logChan'[q]) : logChan'[q][i].clk \in SelfClock
    BY <2>1, <2>2 DEF SelfInv
  <2> QED BY <2>2, <2>3 DEF SelfInv
<1> QED BY <1>1, <1>2

\* The clock a partition proposes is above its stable clock and the last one it has used, and
\* not below the wall clock.
LEMMA NextClkSelf ==
    ASSUME TypeInv, SelfInv, NEW q \in Partitions, NEW time \in Nat,
           NEW c, c = NextClk(q, time)
    PROVE  /\ c \in SelfClock /\ c[Self] \in Nat
           /\ c[Self] > stableClk[q][Self] /\ c[Self] > lastUsedTs[q] /\ c[Self] >= time
<1>1. /\ stableClk[q] \in Clock /\ lastUsedTs[q] \in Nat /\ Self \in Replicas
      /\ stableClk[q] \in SelfClock /\ stableClk[q][Self] \in Nat
  BY MaterializerConstants DEF TypeInv, TypeOK, MatTypeOK, SelfInv, Clock
<1>2. /\ c \in Clock /\ c[Self] > lastUsedTs[q]
      /\ \A r \in Replicas \ {Self} : c[r] = stableClk[q][r]
  BY NextClkType DEF TypeInv, TypeOK
<1>3. c \in SelfClock /\ c[Self] \in Nat
  BY <1>1, <1>2 DEF SelfClock, Clock
<1>4. PICK new : new = NextTimestamp(stableClk[q], Self, time)
  OBVIOUS
<1>5. /\ new \in Clock /\ new[Self] \in Nat
      /\ new[Self] = IF time <= stableClk[q][Self] THEN stableClk[q][Self] + 1 ELSE time
  BY <1>1, <1>4, NextTimestampType DEF NextTimestamp, Clock
<1>6. c = IF new[Self] <= lastUsedTs[q] THEN UpdatePos(new, Self, lastUsedTs[q] + 1) ELSE new
  BY <1>4 DEF NextClk
<1>7. c[Self] >= new[Self]
  <2>1. CASE new[Self] <= lastUsedTs[q]
    BY <1>1, <1>2, <1>3, <1>5, <2>1
  <2>2. CASE ~(new[Self] <= lastUsedTs[q])
    BY <1>5, <1>6, <2>2
  <2> QED BY <2>1, <2>2
<1> QED BY <1>1, <1>2, <1>3, <1>5, <1>7

\* The clocks that handleMatSafeClk announces
LEMMA AnnouncedSelf ==
    ASSUME TypeInv, SelfInv, NEW q \in Partitions
    PROVE  /\ \A time \in Nat :
                 /\ NextTimestamp(stableClk[q], Self, time) \in SelfClock
                 /\ NextTimestamp(stableClk[q], Self, time)[Self] =
                       IF time <= stableClk[q][Self] THEN stableClk[q][Self] + 1 ELSE time
           /\ \A e \in prepClks[q] :
                 /\ e.clk[Self] - 1 \in Nat
                 /\ UpdateForcedPos(e.clk, Self, e.clk[Self] - 1) \in SelfClock
                 /\ UpdateForcedPos(e.clk, Self, e.clk[Self] - 1)[Self] = e.clk[Self] - 1
<1>1. /\ stableClk[q] \in SelfClock /\ stableClk[q] \in Clock /\ Self \in Replicas
  BY MaterializerConstants DEF TypeInv, TypeOK, MatTypeOK, SelfInv
<1>2. ASSUME NEW time \in Nat
      PROVE  /\ NextTimestamp(stableClk[q], Self, time) \in SelfClock
             /\ NextTimestamp(stableClk[q], Self, time)[Self] =
                   IF time <= stableClk[q][Self] THEN stableClk[q][Self] + 1 ELSE time
  <2>1. /\ NextTimestamp(stableClk[q], Self, time) \in Clock
        /\ \A r \in Replicas \ {Self} :
              NextTimestamp(stableClk[q], Self, time)[r] = stableClk[q][r]
    BY <1>1, <1>2, NextTimestampType
  <2>2. NextTimestamp(stableClk[q], Self, time) \in SelfClock
    BY <1>1, <2>1 DEF SelfClock
  <2>3. NextTimestamp(stableClk[q], Self, time)[Self] =
           IF time <= stableClk[q][Self] THEN stableClk[q][Self] + 1 ELSE time
    BY <1>1 DEF NextTimestamp, Clock
  <2> QED BY <2>2, <2>3
<1>3. ASSUME NEW e \in prepClks[q]
      PROVE  /\ e.clk[Self] - 1 \in Nat
             /\ UpdateForcedPos(e.clk, Self, e.clk[Self] - 1) \in SelfClock
             /\ UpdateForcedPos(e.clk, Self, e.clk[Self] - 1)[Self] = e.clk[Self] - 1
  <2>1. PICK c, v : c = e.clk /\ v = e.clk[Self] - 1
    OBVIOUS
  <2>2. c \in SelfClock /\ c \in Clock /\ v \in Nat
    BY <1>1, <1>3, <2>1 DEF TypeInv, PositivePrepares, SelfInv, SelfClock, Clock
  <2>3. /\ UpdateForcedPos(c, Self, v) \in Clock /\ UpdateForcedPos(c, Self, v)[Self] = v
        /\ \A r \in Replicas \ {Self} : UpdateForcedPos(c, Self, v)[r] = c[r]
    BY <1>1, <2>2 DEF UpdateForcedPos, Clock
  <2>4. UpdateForcedPos(c, Self, v) \in SelfClock
    BY <2>2, <2>3 DEF SelfClock
  <2> QED BY <2>1, <2>2, <2>3, <2>4
<1> QED BY <1>2, <1>3

\* applyCommit merges the commit timestamp into the stable clock and may log the commit.
LEMMA ApplySelf ==
    ASSUME TypeInv, SelfInv, NEW q \in Partitions, NEW t \in Txns, NEW clk \in SelfClock,
           ApplyCommit(q, t, clk)
    PROVE  /\ stableClk' \in [Partitions -> SelfClock]
           /\ \A p \in Partitions \ {q} : stableClk'[p] = stableClk[p]
           /\ stableClk'[q][Self] = IF stableClk[q][Self] > clk[Self] THEN stableClk[q][Self]
                                    ELSE clk[Self]
           /\ logChan' = logChan \/ LogGrows(q, Request("commit", t, clk))
           /\ Request("commit", t, clk) \in LogRequest
<1>1. stableClk \in [Partitions -> SelfClock]
  BY DEF SelfInv
<1>2. stableClk' = [stableClk EXCEPT ![q] = Merge(stableClk[q], clk)]
  BY DEF ApplyCommit
<1>3. /\ Merge(stableClk[q], clk) \in SelfClock
      /\ Merge(stableClk[q], clk)[Self] = IF stableClk[q][Self] > clk[Self] THEN stableClk[q][Self]
                                          ELSE clk[Self]
  BY <1>1, SelfMerge
<1>4. logChan' = logChan \/ LogGrows(q, Request("commit", t, clk))
  BY DEF ApplyCommit, LogGrows
<1>5. Request("commit", t, clk) \in LogRequest
  BY DEF Request, LogRequest, SelfClock
<1> QED BY <1>1, <1>2, <1>3, <1>4, <1>5

-----------------------------------------------------------------------------
(* The commit timestamp covers the prepared clocks *)

\* A prepared clock is not above the maximum of its transaction, or its reply still waits.
MaxInv ==
    \A p \in Partitions : \A e \in prepClks[p] :
        e.clk[Self] <= maxTs[e.txn][Self] \/ e.clk \in Replies(e.txn)

\* Steps that touch neither the clocks nor the replies
LEMMA SameClocks ==
    ASSUME SelfInv, MaxInv, UNCHANGED <<stableClk, maxTs, replyChan, prepClks, logChan>>
    PROVE  SelfInv' /\ MaxInv'
<1>1. \A t \in Txns : Replies(t)' = Replies(t)
  BY DEF Replies
<1>2. \A t : Replies(t)' = Replies(t)
  BY DEF Replies
<1> QED BY <1>1, <1>2 DEF SelfInv, MaxInv

\* A partition prepares a clock.
LEMMA PrepareSelf ==
    ASSUME TypeInv, SelfInv, MaxInv, NEW q \in Partitions, NEW t \in Txns, NEW time \in Nat,
           PrepareClock(q, t, time), UNCHANGED <<stableClk, maxTs, logChan>>
    PROVE  SelfInv' /\ MaxInv'
<1>1. PICK c : c = NextClk(q, time)
  OBVIOUS
<1>2. c \in SelfClock
  BY <1>1, NextClkSelf
<1>3. PICK pair : pair = [txn |-> t, clk |-> c]
  OBVIOUS
<1>4. prepClks \in [Partitions -> SUBSET TxnClkPair]
  BY DEF TypeInv, TypeOK, MatTypeOK
<1>5. /\ prepClks' = [prepClks EXCEPT ![q] = prepClks[q] \cup {pair}]
      /\ replyChan' = [replyChan EXCEPT ![t] = Append(replyChan[t], c)]
      /\ pair.txn = t /\ pair.clk = c
  BY <1>1, <1>3 DEF PrepareClock
<1>6. /\ Replies(t)' = Replies(t) \cup {c}
      /\ \A u \in Txns \ {t} : Replies(u)' = Replies(u)
  BY <1>2, <1>5, RepliesAppend DEF SelfClock
<1>7. /\ prepClks'[q] = prepClks[q] \cup {pair}
      /\ \A p \in Partitions \ {q} : prepClks'[p] = prepClks[p]
  BY <1>4, <1>5
<1>8. \A p \in Partitions : \A e \in prepClks'[p] : e \in prepClks[p] \/ e = pair
  BY <1>7
<1>9. \A p \in Partitions : \A e \in prepClks[p] : e.txn \in Txns
  BY <1>4 DEF TxnClkPair
<1>10. SelfInv'
  BY <1>2, <1>5, <1>6, <1>8 DEF SelfInv
<1>11. MaxInv'
  BY <1>5, <1>6, <1>8, <1>9 DEF MaxInv
<1> QED BY <1>10, <1>11

\* A held commit has the commit timestamp of its transaction.
LEMMA HeldClk ==
    ASSUME TypeInv, LifeInv, SelfInv, NEW q \in Partitions, NEW h \in commitsOnHold[q]
    PROVE  h.txn \in Txns /\ h.clk = maxTs[h.txn] /\ h.clk \in SelfClock
<1>1. h.txn \in Txns
  BY DEF TypeInv, TypeOK, MatTypeOK, TxnClkPair
<1>2. h \in HeldOf(q, h.txn)
  BY DEF HeldOf
<1>3. h.clk = maxTs[h.txn]
  BY <1>1, <1>2 DEF LifeInv, TxnOK, PartOK
<1> QED BY <1>1, <1>3 DEF SelfInv

\* The steps of the partitions keep these facts.
LEMMA PartitionSelf ==
    ASSUME TypeInv, LifeInv, SelfInv, MaxInv, NEW q \in Partitions, Partition(q)
    PROVE  SelfInv' /\ MaxInv'
<1>1. PartitionStep(q) /\ UNCHANGED maxTs
  BY DEF Partition, txnVars
<1>2. \A time \in now .. MaxTime : time \in Nat
  BY MaterializerConstants DEF TypeInv, TypeOK, MatTypeOK
<1>3. CASE HandleMatStaticWrite(q) \/ HandleMatPrepare(q)
  <2>1. Head(channels[q]).txn \in Txns
    BY <1>3, TakesType DEF HandleMatStaticWrite, HandleMatPrepare, TypeInv, TypeOK
  <2>2. PICK time \in now .. MaxTime : PrepareClock(q, Head(channels[q]).txn, time)
    BY <1>3 DEF HandleMatStaticWrite, HandleMatPrepare
  <2>3. UNCHANGED <<stableClk, logChan>>
    BY <1>3 DEF HandleMatStaticWrite, HandleMatPrepare
  <2> QED BY <1>1, <1>2, <2>1, <2>2, <2>3, PrepareSelf
<1>4. ASSUME NEW t \in Txns, ApplyCommit(q, t, maxTs[t]), UNCHANGED replyChan,
             \A p \in Partitions : prepClks'[p] \subseteq prepClks[p]
      PROVE  SelfInv' /\ MaxInv'
  <2>1. maxTs[t] \in SelfClock
    BY DEF SelfInv
  <2>2. /\ stableClk' \in [Partitions -> SelfClock]
        /\ logChan' = logChan \/ LogGrows(q, Request("commit", t, maxTs[t]))
        /\ Request("commit", t, maxTs[t]) \in LogRequest
    BY <1>4, <2>1, ApplySelf
  <2>3. Request("commit", t, maxTs[t]).clk \in SelfClock
    BY <2>1 DEF Request
  <2>4. \A p \in Partitions : \A i \in 1 .. Len(logChan'[p]) : logChan'[p][i].clk \in SelfClock
    BY <2>2, <2>3, LogSelf
  <2>5. \A u : Replies(u)' = Replies(u)
    BY <1>4 DEF Replies
  <2>6. SelfInv'
    BY <1>1, <1>4, <2>2, <2>4, <2>5 DEF SelfInv
  <2>7. MaxInv'
    BY <1>1, <1>4, <2>5 DEF MaxInv
  <2> QED BY <2>6, <2>7
<1>5. ASSUME UNCHANGED <<replyChan, stableClk, logChan>>,
             \A p \in Partitions : prepClks'[p] \subseteq prepClks[p]
      PROVE  SelfInv' /\ MaxInv'
  <2>1. \A u : Replies(u)' = Replies(u)
    BY <1>5 DEF Replies
  <2> QED BY <1>1, <1>5, <2>1 DEF SelfInv, MaxInv
<1>6. CASE HandleMatCommit(q)
  <2>1. PICK t \in Txns, clk \in Clock :
              /\ clk = maxTs[t]
              /\ prepClks' = [prepClks EXCEPT ![q] = {e \in prepClks[q] : e.txn # t}]
              /\ \/ ApplyCommit(q, t, clk)
                 \/ HoldCommit(q, t, clk)
    BY <1>6, CommitTaken
  <2>2. \A p \in Partitions : prepClks'[p] \subseteq prepClks[p]
    BY <2>1 DEF TypeInv, TypeOK, MatTypeOK
  <2>3. UNCHANGED replyChan
    BY <1>6 DEF HandleMatCommit
  <2>4. CASE ApplyCommit(q, t, clk)
    BY <1>4, <2>1, <2>2, <2>3, <2>4
  <2>5. CASE HoldCommit(q, t, clk)
    BY <1>5, <2>2, <2>3, <2>5 DEF HoldCommit
  <2> QED BY <2>1, <2>4, <2>5
<1>7. CASE CheckHoldCommits(q)
  <2>1. UNCHANGED <<prepClks, replyChan>>
    BY <1>7 DEF CheckHoldCommits
  <2>2. CASE UNCHANGED <<stableClk, logChan>>
    BY <1>5, <2>1, <2>2
  <2>3. ASSUME NEW h \in commitsOnHold[q], ApplyCommit(q, h.txn, h.clk)
        PROVE  SelfInv' /\ MaxInv'
    <3>1. h.txn \in Txns /\ ApplyCommit(q, h.txn, maxTs[h.txn])
      BY <2>3, HeldClk
    <3> QED BY <1>4, <2>1, <3>1
  <2> QED BY <1>7, <2>2, <2>3 DEF CheckHoldCommits, HeapRoots
<1>8. CASE HandleMatWrite(q) \/ HandleMatAbort(q) \/ HandleMatRead(q)
  BY <1>5, <1>8 DEF HandleMatWrite, HandleMatAbort, HandleMatRead, partVars
<1>9. CASE HandleMatStaticSingleRead(q)
  <2>1. PICK t : t = Head(channels[q]).txn
    OBVIOUS
  <2>2. t \in Txns
    BY <1>9, <2>1, TakesType DEF HandleMatStaticSingleRead, TypeInv, TypeOK
  <2>3. /\ UNCHANGED <<stableClk, prepClks, logChan>>
        /\ replyChan' = [replyChan EXCEPT ![t] = Append(replyChan[t], stableClk[q])]
    BY <1>9, <2>1 DEF HandleMatStaticSingleRead, partVars
  <2>4. stableClk[q] \in SelfClock /\ stableClk[q] \in Clock
    BY DEF SelfInv, SelfClock
  <2>5. /\ Replies(t)' = Replies(t) \cup {stableClk[q]}
        /\ \A u \in Txns \ {t} : Replies(u)' = Replies(u)
    BY <2>2, <2>3, <2>4, RepliesAppend
  <2>6. \A p \in Partitions : \A e \in prepClks[p] : e.txn \in Txns
    BY DEF TypeInv, TypeOK, MatTypeOK, TxnClkPair
  <2>7. SelfInv'
    BY <1>1, <2>3, <2>4, <2>5 DEF SelfInv
  <2>8. MaxInv'
    BY <1>1, <2>3, <2>5, <2>6 DEF MaxInv
  <2> QED BY <2>7, <2>8
<1>10. CASE HandleMatSafeClk(q)
  <2>1. UNCHANGED <<stableClk, prepClks, replyChan>>
    BY <1>10 DEF HandleMatSafeClk
  <2>2. PICK clk \in SelfClock : LogGrows(q, Request("clk", NoTxn, clk))
    <3>1. CASE \E time \in now .. MaxTime :
                  LogGrows(q, Request("clk", NoTxn, NextTimestamp(stableClk[q], Self, time)))
      BY <1>2, <3>1, AnnouncedSelf
    <3>2. CASE \E m \in prepClks[q] :
                  LogGrows(q, Request("clk", NoTxn, UpdateForcedPos(m.clk, Self, m.clk[Self] - 1)))
      BY <3>2, AnnouncedSelf
    <3> QED BY <1>10, <3>1, <3>2 DEF HandleMatSafeClk, LogGrows, HeapRoots
  <2>3. Request("clk", NoTxn, clk) \in LogRequest /\ Request("clk", NoTxn, clk).clk \in SelfClock
    BY <2>2 DEF Request, LogRequest, SelfClock
  <2>4. \A p \in Partitions : \A i \in 1 .. Len(logChan'[p]) : logChan'[p][i].clk \in SelfClock
    BY <2>2, <2>3, LogSelf
  <2>5. \A u : Replies(u)' = Replies(u)
    BY <2>1 DEF Replies
  <2> QED BY <1>1, <2>1, <2>4, <2>5 DEF SelfInv, MaxInv
<1> QED BY <1>1, <1>3, <1>6, <1>7, <1>8, <1>9, <1>10 DEF PartitionStep

\* The steps of a transaction keep these facts: the maximum kept covers the replies received.
LEMMA TxnSelf ==
    ASSUME TypeInv, LifeInv, SelfInv, MaxInv, NEW t \in Txns, TxnStep(t)
    PROVE  SelfInv' /\ MaxInv'
<1>1. UNCHANGED <<stableClk, prepClks, logChan>>
  BY OtherSteps DEF partVars
<1>2. \A p \in Partitions : \A e \in prepClks[p] : e.txn \in Txns /\ e.clk \in SelfClock
  BY DEF TypeInv, TypeOK, MatTypeOK, TxnClkPair, SelfInv
<1>3. CASE ReceivePrepareReply(t)
  <2>1. PICK c : c = Head(replyChan[t])
    OBVIOUS
  <2>2. /\ replyChan[t] # <<>>
        /\ maxTs' = [maxTs EXCEPT ![t] = MaxTimestamp(maxTs[t], c)]
        /\ replyChan' = [replyChan EXCEPT ![t] = Tail(replyChan[t])]
    BY <1>3, <2>1 DEF ReceivePrepareReply
  <2>3. /\ c \in Replies(t) /\ Replies(t)' \subseteq Replies(t)
        /\ \A k \in Replies(t) : k = c \/ k \in Replies(t)'
        /\ \A u \in Txns \ {t} : Replies(u)' = Replies(u)
    BY <2>1, <2>2, RepliesTail
  <2>4. maxTs[t] \in SelfClock /\ c \in SelfClock
    BY <2>3 DEF SelfInv
  <2>5. PICK max : max = MaxTimestamp(maxTs[t], c)
    OBVIOUS
  <2>6. max \in SelfClock /\ max[Self] >= maxTs[t][Self] /\ max[Self] >= c[Self]
    BY <2>4, <2>5, SelfOrder DEF MaxTimestamp
  <2>7. /\ maxTs'[t] = max /\ maxTs' \in [Txns -> SelfClock]
        /\ \A u \in Txns \ {t} : maxTs'[u] = maxTs[u]
    BY <2>2, <2>5, <2>6 DEF SelfInv
  <2>8. SelfInv'
    BY <1>1, <2>3, <2>7 DEF SelfInv
  <2>9. MaxInv'
    <3> SUFFICES ASSUME NEW p \in Partitions, NEW e \in prepClks[p]
                 PROVE  e.clk[Self] <= maxTs'[e.txn][Self] \/ e.clk \in Replies(e.txn)'
      BY <1>1 DEF MaxInv
    <3>1. /\ e.clk[Self] <= maxTs[e.txn][Self] \/ e.clk \in Replies(e.txn)
          /\ e.txn \in Txns /\ e.clk \in SelfClock /\ e.clk[Self] \in Nat
      BY <1>2, SelfOrder DEF MaxInv
    <3>2. CASE e.txn # t
      BY <2>3, <2>7, <3>1, <3>2
    <3>3. CASE e.txn = t /\ e.clk \in Replies(t)
      BY <2>3, <2>4, <2>6, <2>7, <3>3, SelfOrder
    <3>4. CASE e.txn = t /\ e.clk[Self] <= maxTs[t][Self]
      BY <2>4, <2>6, <2>7, <3>1, <3>4, SelfOrder
    <3> QED BY <3>1, <3>2, <3>3, <3>4
  <2> QED BY <2>8, <2>9
<1>4. CASE EndSingleRead(t)
  <2>1. PICK c : c = Head(replyChan[t])
    OBVIOUS
  <2>2. /\ replyChan[t] # <<>> /\ UNCHANGED maxTs /\ pc[t] = "single"
        /\ replyChan' = [replyChan EXCEPT ![t] = Tail(replyChan[t])]
    BY <1>4 DEF EndSingleRead
  <2>3. /\ Replies(t)' \subseteq Replies(t)
        /\ \A u \in Txns \ {t} : Replies(u)' = Replies(u)
    BY <2>1, <2>2, RepliesTail
  <2>4. \A p \in Partitions : \A e \in prepClks[p] : e.txn # t
    <3> SUFFICES ASSUME NEW p \in Partitions, NEW e \in prepClks[p], e.txn = t PROVE FALSE
      OBVIOUS
    <3>1. p \in PreparedAt(t)
      BY DEF PreparedAt, IsPrepared
    <3> QED BY <2>2, <3>1 DEF LifeInv, TxnOK, PartOK
  <2>5. SelfInv'
    BY <1>1, <2>2, <2>3 DEF SelfInv
  <2>6. MaxInv'
    BY <1>1, <1>2, <2>2, <2>3, <2>4 DEF MaxInv
  <2> QED BY <2>5, <2>6
<1>5. CASE UNCHANGED <<maxTs, replyChan>>
  BY <1>1, <1>5, SameClocks
<1> QED BY <1>3, <1>4, <1>5 DEF TxnStep, SendWaitClock, SendRead, SendToPartition, EndRead, NotifyCommit,
                               chanVars

\* Every step keeps these facts.
LEMMA NextSelf ==
    TypeInv /\ LifeInv /\ SelfInv /\ MaxInv /\ [Next]_vars => SelfInv' /\ MaxInv'
<1> SUFFICES ASSUME TypeInv, LifeInv, SelfInv, MaxInv, [Next]_vars PROVE SelfInv' /\ MaxInv'
  OBVIOUS
<1>1. ASSUME UNCHANGED <<partVars, replyChan, maxTs>> PROVE SelfInv' /\ MaxInv'
  BY <1>1, SameClocks DEF partVars
<1>2. CASE UNCHANGED vars
  BY <1>1, <1>2 DEF vars, chanVars, txnVars
<1>3. ASSUME NEW p \in Partitions, RequestSafeClk(p) PROVE SelfInv' /\ MaxInv'
  BY <1>1, <1>3 DEF RequestSafeClk, txnVars
<1>4. ASSUME NEW t \in Txns, ClientStep(t) PROVE SelfInv' /\ MaxInv'
  <2>1. UNCHANGED <<partVars, replyChan, maxTs>>
    BY <1>4 DEF ClientStep, StartTxn, SingleRead, StaticUpdate, Read, Update, Commit, Abort, LostConn,
                chanVars
  <2> QED BY <1>1, <2>1
<1>5. CASE CommitReplies
  <2>1. UNCHANGED <<partVars, replyChan, maxTs>>
    BY <1>5 DEF CommitReplies, HandleCommitNPartitions, HandlePartCommitReply, HandleWaitClock,
                NotifyWaiting, FlushStacked, chanVars, txnVars
  <2> QED BY <1>1, <2>1
<1> QED BY <1>2, <1>3, <1>4, <1>5, PartitionSelf, TxnSelf DEF Next

\* Initially the clocks are 0 and nothing is prepared.
LEMMA InitSelf == Init => SelfInv /\ MaxInv
<1> SUFFICES ASSUME Init PROVE SelfInv /\ MaxInv
  OBVIOUS
<1>1. NewTimestamp \in SelfClock
  BY NewTimestampType DEF SelfClock, NewTimestamp
<1>2. /\ stableClk = [p \in Partitions |-> NewTimestamp] /\ maxTs = [t \in Txns |-> NewTimestamp]
      /\ prepClks = [p \in Partitions |-> {}]
  BY DEF Init, MatInit
<1>3. /\ \A t \in Txns : Len(replyChan[t]) = 0
      /\ \A p \in Partitions : Len(logChan[p]) = 0
  BY DEF Init, MatInit
<1>4. \A t \in Txns : Replies(t) = {}
  BY <1>3 DEF Replies
<1> QED BY <1>1, <1>2, <1>3, <1>4 DEF SelfInv, MaxInv

-----------------------------------------------------------------------------
(* No commit is stranded *)

\* The root of a heap is not above any of its entries.
LEMMA RootIsLowest ==
    ASSUME NEW S, \A e \in S : e.clk \in SelfClock, NEW m \in HeapRoots(S)
    PROVE  m \in S /\ \A e \in S : m.clk[Self] <= e.clk[Self]
<1>1. m \in S /\ \A e \in S : ~IsLower(e.clk, m.clk)
  BY DEF HeapRoots
<1> SUFFICES ASSUME NEW e \in S PROVE m.clk[Self] <= e.clk[Self]
  BY <1>1
<1>2. /\ e.clk[Self] \in Nat /\ m.clk[Self] \in Nat
      /\ IsLower(e.clk, m.clk) <=> e.clk[Self] < m.clk[Self]
  BY <1>1, SelfOrder
<1> QED BY <1>1, <1>2

\* The clocks at a partition, as numbers
LEMMA ClockNumbers ==
    ASSUME TypeInv, LifeInv, SelfInv, NEW q \in Partitions
    PROVE  /\ stableClk[q] \in SelfClock /\ stableClk[q][Self] \in Nat
           /\ now \in Nat /\ lastUsedTs[q] \in Nat
           /\ \A e \in prepClks[q] : e.clk \in SelfClock /\ e.clk[Self] \in Nat
           /\ \A h \in commitsOnHold[q] : h.clk \in SelfClock /\ h.clk[Self] \in Nat
           /\ Len(logChan[q]) \in Nat
           /\ \A i \in 1 .. Len(logChan[q]) : /\ logChan[q][i].clk \in SelfClock
                                             /\ logChan[q][i].clk[Self] \in Nat
<1>1. now \in Nat /\ lastUsedTs[q] \in Nat /\ logChan[q] \in Seq(LogRequest)
  BY DEF TypeInv, TypeOK, MatTypeOK
<1>2. stableClk[q] \in SelfClock /\ \A e \in prepClks[q] : e.clk \in SelfClock
  BY DEF SelfInv
<1>3. \A h \in commitsOnHold[q] : h.clk \in SelfClock
  BY HeldClk
<1>4. \A i \in 1 .. Len(logChan[q]) : logChan[q][i].clk \in SelfClock
  BY DEF SelfInv
<1> QED BY <1>1, <1>2, <1>3, <1>4, SelfOrder

\* A commit that arrives has a timestamp that is not below the clock prepared for it here.
LEMMA CommitCovered ==
    ASSUME TypeInv, LifeInv, SelfInv, MaxInv, NEW q \in Partitions, NEW t \in Txns,
           q \in PreparedAt(t), pc[t] \in {"commit", "done"}, q \in parts[t]
    PROVE  \E e \in prepClks[q] : e.txn = t /\ e.clk[Self] <= maxTs[t][Self]
<1>1. PICK e \in prepClks[q] : e.txn = t
  BY DEF PreparedAt, IsPrepared
<1>2. KindOK(t) /\ CountOK(t)
  BY DEF LifeInv, TxnOK
<1>3. replyChan[t] = <<>>
  BY <1>2 DEF KindOK, CountOK
<1>4. Replies(t) = {}
  BY <1>3 DEF Replies
<1> QED BY <1>1, <1>4 DEF MaxInv

\* What canCommit looks at: a commit that it lets through is below all the prepares and held
\* commits; one that it does not, and that is not the lowest prepare, is above the lowest.
LEMMA CanCommitMeans ==
    ASSUME TypeInv, LifeInv, SelfInv, HeldBehindPrepare, NEW q \in Partitions, ~checkingHold[q],
           NEW t \in Txns, NEW clk \in SelfClock, NEW lowest \in HeapRoots(prepClks[q]),
           NEW can \in CanCommit({e \in prepClks[q] : e.txn # t}, commitsOnHold[q], clk)
    PROVE  /\ can => /\ \A e \in prepClks[q] : e.txn # t => clk[Self] <= e.clk[Self]
                     /\ \A h \in commitsOnHold[q] : clk[Self] <= h.clk[Self]
           /\ ~can /\ lowest.txn # t => lowest.clk[Self] < clk[Self]
<1>1. PICK R : R = {e \in prepClks[q] : e.txn # t}
  OBVIOUS
<1>2. /\ \A e \in R : e.clk \in SelfClock /\ e.clk[Self] \in Nat
      /\ \A h \in commitsOnHold[q] : h.clk \in SelfClock /\ h.clk[Self] \in Nat
      /\ \A e \in prepClks[q] : e.clk \in SelfClock /\ e.clk[Self] \in Nat
  BY <1>1, ClockNumbers
<1>3. PICK ok : ok <=> R = {} \/ \E m \in HeapRoots(R) : ~IsLower(m.clk, clk)
  OBVIOUS
<1>4. \/ commitsOnHold[q] = {} /\ (can <=> ok)
      \/ \E h \in HeapRoots(commitsOnHold[q]) : can <=> ok /\ IsHigher(h.clk, clk)
  BY <1>1, <1>3 DEF CanCommit
<1>5. ASSUME can
      PROVE  /\ \A e \in prepClks[q] : e.txn # t => clk[Self] <= e.clk[Self]
             /\ \A h \in commitsOnHold[q] : clk[Self] <= h.clk[Self]
  <2>1. \A e \in R : clk[Self] <= e.clk[Self]
    <3> SUFFICES ASSUME NEW e \in R PROVE clk[Self] <= e.clk[Self]
      OBVIOUS
    <3>1. PICK m \in HeapRoots(R) : ~IsLower(m.clk, clk)
      BY <1>3, <1>4, <1>5
    <3>2. m \in R /\ m.clk[Self] <= e.clk[Self]
      BY <1>2, <3>1, RootIsLowest
    <3>3. clk[Self] \in Nat /\ (IsLower(m.clk, clk) <=> m.clk[Self] < clk[Self])
      BY <1>2, <3>2, SelfOrder
    <3> QED BY <1>2, <3>1, <3>2, <3>3
  <2>2. \A h \in commitsOnHold[q] : clk[Self] <= h.clk[Self]
    <3> SUFFICES ASSUME NEW h \in commitsOnHold[q] PROVE clk[Self] <= h.clk[Self]
      OBVIOUS
    <3>1. PICK m \in HeapRoots(commitsOnHold[q]) : IsHigher(m.clk, clk)
      BY <1>4, <1>5
    <3>2. m \in commitsOnHold[q] /\ m.clk[Self] <= h.clk[Self]
      BY <1>2, <3>1, RootIsLowest
    <3>3. clk[Self] \in Nat /\ (IsHigher(m.clk, clk) <=> m.clk[Self] > clk[Self])
      BY <1>2, <3>2, SelfOrder
    <3> QED BY <1>2, <3>1, <3>2, <3>3
  <2> QED BY <1>1, <2>1, <2>2
<1>6. ASSUME ~can, lowest.txn # t
      PROVE  lowest.clk[Self] < clk[Self]
  <2>1. lowest \in prepClks[q] /\ \A e \in prepClks[q] : lowest.clk[Self] <= e.clk[Self]
    BY <1>2, RootIsLowest
  <2>2. lowest \in HeapRoots(R)
    BY <1>1, <1>6, <2>1 DEF HeapRoots
  <2>3. clk[Self] \in Nat /\ (IsLower(lowest.clk, clk) <=> lowest.clk[Self] < clk[Self])
    BY <1>2, <2>1, SelfOrder
  <2>4. CASE ~ok
    BY <1>3, <2>2, <2>3, <2>4
  <2>5. CASE ok
    <3>1. PICK h \in HeapRoots(commitsOnHold[q]) : ~IsHigher(h.clk, clk)
      BY <1>4, <1>6, <2>5
    <3>2. h \in commitsOnHold[q] /\ h.clk[Self] <= clk[Self]
      <4>1. h \in commitsOnHold[q]
        BY DEF HeapRoots
      <4>2. IsHigher(h.clk, clk) <=> h.clk[Self] > clk[Self]
        BY <1>2, <4>1, SelfOrder
      <4> QED BY <1>2, <2>3, <3>1, <4>1, <4>2
    <3>3. PICK e \in prepClks[q] : IsLower(e.clk, h.clk)
      BY <3>2 DEF HeldBehindPrepare
    <3>4. e.clk[Self] < h.clk[Self]
      BY <1>2, <3>2, <3>3, SelfOrder
    <3> QED BY <1>2, <2>1, <2>3, <3>2, <3>3, <3>4
  <2> QED BY <2>4, <2>5
<1> QED BY <1>5, <1>6

\* handleMatCommit strands no commit: when the lowest prepare stays, it is below all the held
\* commits; when it goes, checkHoldCommits is called.
LEMMA CommitHeldBehind ==
    ASSUME TypeInv, LifeInv, SelfInv, SelfInv', HeldBehindPrepare, NEW q \in Partitions,
           HandleMatCommit(q)
    PROVE  HeldBehindPrepare'
<1>1. ~checkingHold[q]
  BY DEF HandleMatCommit, Takes
<1>2. PICK t \in Txns, clk \in Clock, lowest \in HeapRoots(prepClks[q]) :
              /\ clk = maxTs[t]
              /\ prepClks' = [prepClks EXCEPT ![q] = {e \in prepClks[q] : e.txn # t}]
              /\ \E can \in CanCommit({e \in prepClks[q] : e.txn # t}, commitsOnHold[q], clk) :
                    /\ \/ can /\ ApplyCommit(q, t, clk) /\ UNCHANGED commitsOnHold
                       \/ ~can /\ HoldCommit(q, t, clk)
                    /\ checkingHold' = [checkingHold EXCEPT
                          ![q] = CallsCheckHold(t, lowest, can) /\ commitsOnHold'[q] # {}]
  BY CommitTaken
<1>3. PICK can \in CanCommit({e \in prepClks[q] : e.txn # t}, commitsOnHold[q], clk) :
         /\ \/ can /\ UNCHANGED commitsOnHold
            \/ ~can /\ HoldCommit(q, t, clk)
         /\ checkingHold' = [checkingHold EXCEPT
               ![q] = CallsCheckHold(t, lowest, can) /\ commitsOnHold'[q] # {}]
  BY <1>2
<1>4. /\ checkingHold \in [Partitions -> BOOLEAN] /\ prepClks \in [Partitions -> SUBSET TxnClkPair]
      /\ commitsOnHold \in [Partitions -> SUBSET TxnClkPair]
  BY DEF TypeInv, TypeOK, MatTypeOK
<1>5. clk \in SelfClock
  BY <1>2 DEF SelfInv
<1>6. \A p \in Partitions \ {q} : /\ prepClks'[p] = prepClks[p]
                                  /\ checkingHold'[p] = checkingHold[p]
  BY <1>2, <1>3, <1>4
<1>7. \A p \in Partitions \ {q} : commitsOnHold'[p] = commitsOnHold[p]
  BY <1>3, <1>4 DEF HoldCommit
<1>8. ASSUME ~checkingHold'[q], NEW h \in commitsOnHold'[q]
      PROVE  \E e \in prepClks'[q] : IsLower(e.clk, h.clk)
  <2>1. lowest.txn # t
    BY <1>3, <1>4, <1>8 DEF CallsCheckHold
  <2>2. /\ \A e \in prepClks[q] : e.clk \in SelfClock /\ e.clk[Self] \in Nat
        /\ \A g \in commitsOnHold[q] : g.clk \in SelfClock /\ g.clk[Self] \in Nat
    BY ClockNumbers
  <2>3. lowest \in prepClks[q] /\ \A e \in prepClks[q] : lowest.clk[Self] <= e.clk[Self]
    BY <2>2, RootIsLowest
  <2>4. lowest \in prepClks'[q]
    BY <1>2, <1>4, <2>1, <2>3
  <2>5. CASE h \in commitsOnHold[q]
    <3>1. PICK e \in prepClks[q] : IsLower(e.clk, h.clk)
      BY <1>1, <2>5 DEF HeldBehindPrepare
    <3>2. e.clk[Self] < h.clk[Self]
      BY <2>2, <2>5, <3>1, SelfOrder
    <3>3. lowest.clk[Self] < h.clk[Self]
      BY <2>2, <2>3, <2>5, <3>1, <3>2
    <3> QED BY <2>2, <2>3, <2>4, <2>5, <3>3, SelfOrder
  <2>6. CASE h \notin commitsOnHold[q]
    <3>1. ~can /\ h = [txn |-> t, clk |-> clk]
      BY <1>3, <1>4, <1>8, <2>6 DEF HoldCommit
    <3>2. lowest.clk[Self] < clk[Self]
      BY <1>1, <1>5, <2>1, <3>1, CanCommitMeans
    <3>3. IsLower(lowest.clk, clk)
      BY <1>5, <2>2, <2>3, <3>2, SelfOrder
    <3> QED BY <2>4, <3>1, <3>3
  <2> QED BY <2>5, <2>6
<1> QED BY <1>6, <1>7, <1>8 DEF HeldBehindPrepare

\* checkHoldCommits leaves when the lowest held commit is above the lowest prepare.
LEMMA CheckHeldBehind ==
    ASSUME TypeInv, LifeInv, SelfInv, HeldBehindPrepare, NEW q \in Partitions,
           CheckHoldCommits(q)
    PROVE  HeldBehindPrepare'
<1>1. /\ checkingHold \in [Partitions -> BOOLEAN]
      /\ commitsOnHold \in [Partitions -> SUBSET TxnClkPair]
  BY DEF TypeInv, TypeOK, MatTypeOK
<1>2. checkingHold[q] /\ UNCHANGED prepClks
  BY DEF CheckHoldCommits
<1>3. /\ \A e \in prepClks[q] : e.clk \in SelfClock /\ e.clk[Self] \in Nat
      /\ \A g \in commitsOnHold[q] : g.clk \in SelfClock /\ g.clk[Self] \in Nat
  BY ClockNumbers
<1>4. ASSUME NEW h \in HeapRoots(commitsOnHold[q]), UNCHANGED checkingHold,
             commitsOnHold' = [commitsOnHold EXCEPT ![q] = commitsOnHold[q] \ {h}]
      PROVE  HeldBehindPrepare'
  BY <1>1, <1>2, <1>4 DEF HeldBehindPrepare
<1>5. ASSUME checkingHold' = [checkingHold EXCEPT ![q] = FALSE], UNCHANGED commitsOnHold,
             \/ commitsOnHold[q] = {}
             \/ \E h \in HeapRoots(commitsOnHold[q]), m \in HeapRoots(prepClks[q]) :
                   ~IsLowerOrEqual(h.clk, m.clk)
      PROVE  HeldBehindPrepare'
  <2>1. ASSUME NEW g \in commitsOnHold[q]
        PROVE  \E e \in prepClks[q] : IsLower(e.clk, g.clk)
    <3>1. PICK h \in HeapRoots(commitsOnHold[q]), m \in HeapRoots(prepClks[q]) :
             ~IsLowerOrEqual(h.clk, m.clk)
      BY <1>5, <2>1
    <3>2. h \in commitsOnHold[q] /\ h.clk[Self] <= g.clk[Self] /\ m \in prepClks[q]
      BY <1>3, <2>1, RootIsLowest DEF HeapRoots
    <3>3. m.clk[Self] < h.clk[Self]
      BY <1>3, <3>1, <3>2, SelfOrder
    <3>4. m.clk[Self] < g.clk[Self]
      BY <1>3, <2>1, <3>2, <3>3
    <3> QED BY <1>3, <2>1, <3>2, <3>4, SelfOrder
  <2>2. \A p \in Partitions \ {q} : checkingHold'[p] = checkingHold[p]
    BY <1>1, <1>5
  <2> QED BY <1>2, <1>5, <2>1, <2>2 DEF HeldBehindPrepare
<1> QED BY <1>4, <1>5 DEF CheckHoldCommits

\* Every step keeps the held commits behind a prepare.
LEMMA NextHeldBehind ==
    TypeInv /\ LifeInv /\ SelfInv /\ SelfInv' /\ HeldBehindPrepare /\ [Next]_vars
        => HeldBehindPrepare'
<1> SUFFICES ASSUME TypeInv, LifeInv, SelfInv, SelfInv', HeldBehindPrepare, [Next]_vars
             PROVE  HeldBehindPrepare'
  OBVIOUS
<1>1. CASE UNCHANGED partVars
  BY <1>1 DEF HeldBehindPrepare, partVars
<1>2. ASSUME NEW q \in Partitions, PartitionStep(q)
      PROVE  HeldBehindPrepare'
  <2>1. ASSUME UNCHANGED <<commitsOnHold, checkingHold>>,
               \A p \in Partitions : prepClks[p] \subseteq prepClks'[p]
        PROVE  HeldBehindPrepare'
    BY <2>1 DEF HeldBehindPrepare
  <2>2. CASE HandleMatStaticWrite(q) \/ HandleMatPrepare(q)
    <3>1. UNCHANGED <<commitsOnHold, checkingHold>>
      BY <2>2 DEF HandleMatStaticWrite, HandleMatPrepare
    <3>2. PICK t, time : PrepareClock(q, t, time)
      BY <2>2 DEF HandleMatStaticWrite, HandleMatPrepare
    <3>3. \A p \in Partitions : prepClks[p] \subseteq prepClks'[p]
      BY <3>2 DEF PrepareClock, TypeInv, TypeOK, MatTypeOK
    <3> QED BY <2>1, <3>1, <3>3
  <2>3. CASE HandleMatWrite(q) \/ HandleMatAbort(q) \/ HandleMatRead(q)
             \/ HandleMatStaticSingleRead(q) \/ HandleMatSafeClk(q)
    BY <2>1, <2>3 DEF HandleMatWrite, HandleMatAbort, HandleMatRead, HandleMatStaticSingleRead,
                      HandleMatSafeClk, partVars
  <2> QED BY <1>2, <2>2, <2>3, CommitHeldBehind, CheckHeldBehind DEF PartitionStep
<1>3. CASE UNCHANGED vars
  BY <1>1, <1>3 DEF vars
<1> QED BY <1>1, <1>2, <1>3, OtherSteps DEF Next, Partition

-----------------------------------------------------------------------------
(* What is logged and announced, and what is still to come *)

\* The clocks at Self of what is prepared or held at p: what p may still apply is not below
Open(p) == {e.clk[Self] : e \in prepClks[p] \cup commitsOnHold[p]}

\* The clock at Self of the i-th request p has sent to its logger
LogAt(p, i) == logChan[p][i].clk[Self]

\* Commits are logged up to the stable clock.
LoggedBelow(p) ==
    \A i \in 1 .. Len(logChan[p]) :
        logChan[p][i].type = "commit" => LogAt(p, i) <= stableClk[p][Self]

\* What is prepared or held is not below the stable clock, nor below anything in the log.
OpenAbove(p) ==
    \A n \in Open(p) : /\ stableClk[p][Self] <= n
                       /\ \A i \in 1 .. Len(logChan[p]) : LogAt(p, i) <= n

\* Nor will be what is prepared later: an announced clock is one that getNextClk passes.
AnnouncedPassed(p) ==
    \A i \in 1 .. Len(logChan[p]) :
        \/ LogAt(p, i) <= stableClk[p][Self] + 1
        \/ LogAt(p, i) <= now
        \/ LogAt(p, i) <= lastUsedTs[p]

\* A commit is not below anything before it in the log.
CommitsLast(p) ==
    \A i, j \in 1 .. Len(logChan[p]) :
        i < j /\ logChan[p][j].type = "commit" => LogAt(p, i) <= LogAt(p, j)

OrdOK(p) == LoggedBelow(p) /\ OpenAbove(p) /\ AnnouncedPassed(p) /\ CommitsLast(p)

OrdInv == \A p \in Partitions : OrdOK(p)

\* These are natural numbers.
LEMMA OrdTypes ==
    ASSUME TypeInv, LifeInv, SelfInv, NEW p \in Partitions
    PROVE  /\ Open(p) \subseteq Nat /\ stableClk[p][Self] \in Nat /\ now \in Nat
           /\ lastUsedTs[p] \in Nat /\ Len(logChan[p]) \in Nat
           /\ \A i \in 1 .. Len(logChan[p]) : LogAt(p, i) \in Nat
BY ClockNumbers DEF Open, LogAt

\* Nothing happens at p.
LEMMA OrdSame ==
    ASSUME TypeInv, LifeInv, SelfInv, NEW p \in Partitions, OrdOK(p),
           prepClks'[p] = prepClks[p], commitsOnHold'[p] = commitsOnHold[p],
           stableClk'[p] = stableClk[p], lastUsedTs'[p] = lastUsedTs[p], logChan'[p] = logChan[p],
           now' \in Nat, now <= now'
    PROVE  OrdOK(p)'
<1>1. Open(p)' = Open(p) /\ \A i : LogAt(p, i)' = LogAt(p, i)
  BY DEF Open, LogAt
<1>2. now \in Nat /\ \A i \in 1 .. Len(logChan[p]) : LogAt(p, i) \in Nat
  BY OrdTypes
<1>3. AnnouncedPassed(p)'
  BY <1>1, <1>2 DEF OrdOK, AnnouncedPassed
<1>4. LoggedBelow(p)' /\ OpenAbove(p)' /\ CommitsLast(p)'
  BY <1>1 DEF OrdOK, LoggedBelow, OpenAbove, CommitsLast
<1> QED BY <1>3, <1>4 DEF OrdOK

\* A clock is prepared at p.
LEMMA OrdPrepare ==
    ASSUME TypeInv, LifeInv, SelfInv, NEW p \in Partitions, OrdOK(p), NEW n \in Nat,
           Open(p)' = Open(p) \cup {n}, n > stableClk[p][Self], n > lastUsedTs[p], n >= now,
           stableClk'[p] = stableClk[p], lastUsedTs'[p] = n, logChan'[p] = logChan[p],
           now' \in Nat, now <= now'
    PROVE  OrdOK(p)'
<1>1. \A i : LogAt(p, i)' = LogAt(p, i)
  BY DEF LogAt
<1>2. /\ stableClk[p][Self] \in Nat /\ now \in Nat /\ lastUsedTs[p] \in Nat
      /\ \A i \in 1 .. Len(logChan[p]) : LogAt(p, i) \in Nat
  BY OrdTypes
<1>3. \A i \in 1 .. Len(logChan[p]) : LogAt(p, i) <= n
  BY <1>2 DEF OrdOK, AnnouncedPassed
<1>4. OpenAbove(p)'
  BY <1>1, <1>2, <1>3 DEF OrdOK, OpenAbove
<1>5. AnnouncedPassed(p)'
  BY <1>1, <1>3 DEF AnnouncedPassed
<1>6. LoggedBelow(p)' /\ CommitsLast(p)'
  BY <1>1 DEF OrdOK, LoggedBelow, CommitsLast
<1> QED BY <1>4, <1>5, <1>6 DEF OrdOK

\* A commit is put on hold at p; its prepare is taken out.
LEMMA OrdHold ==
    ASSUME TypeInv, LifeInv, SelfInv, NEW p \in Partitions, OrdOK(p), NEW c \in Nat,
           NEW n \in Open(p), n <= c, Open(p)' \subseteq Open(p) \cup {c},
           stableClk'[p] = stableClk[p], lastUsedTs'[p] = lastUsedTs[p], logChan'[p] = logChan[p],
           now' = now
    PROVE  OrdOK(p)'
<1>1. \A i : LogAt(p, i)' = LogAt(p, i)
  BY DEF LogAt
<1>2. /\ stableClk[p][Self] \in Nat /\ n \in Nat
      /\ \A i \in 1 .. Len(logChan[p]) : LogAt(p, i) \in Nat
  BY OrdTypes
<1>3. stableClk[p][Self] <= c /\ \A i \in 1 .. Len(logChan[p]) : LogAt(p, i) <= c
  BY <1>2 DEF OrdOK, OpenAbove
<1>4. OpenAbove(p)'
  BY <1>1, <1>3 DEF OrdOK, OpenAbove
<1>5. LoggedBelow(p)' /\ CommitsLast(p)' /\ AnnouncedPassed(p)'
  BY <1>1 DEF OrdOK, LoggedBelow, CommitsLast, AnnouncedPassed
<1> QED BY <1>4, <1>5 DEF OrdOK

\* A commit is applied at p, and may be logged.
LEMMA OrdApply ==
    ASSUME TypeInv, LifeInv, SelfInv, NEW p \in Partitions, OrdOK(p), NEW t \in Txns,
           NEW clk \in SelfClock, NEW c, c = clk[Self], NEW n \in Open(p), n <= c,
           Open(p)' \subseteq Open(p), \A k \in Open(p)' : c <= k,
           ApplyCommit(p, t, clk), lastUsedTs'[p] = lastUsedTs[p], now' = now
    PROVE  OrdOK(p)'
<1>1. /\ stableClk[p][Self] \in Nat /\ n \in Nat /\ now \in Nat /\ lastUsedTs[p] \in Nat
      /\ \A i \in 1 .. Len(logChan[p]) : LogAt(p, i) \in Nat
      /\ Open(p) \subseteq Nat
  BY OrdTypes
<1>2. c \in Nat
  BY SelfOrder
<1>3. stableClk[p][Self] <= c /\ \A i \in 1 .. Len(logChan[p]) : LogAt(p, i) <= c
  BY <1>1, <1>2 DEF OrdOK, OpenAbove
<1>4. /\ stableClk'[p][Self] = c
      /\ logChan' = logChan \/ LogGrows(p, Request("commit", t, clk))
      /\ Request("commit", t, clk) \in LogRequest
  BY <1>1, <1>2, <1>3, ApplySelf
<1>5. CASE logChan' = logChan
  <2>1. \A i : LogAt(p, i)' = LogAt(p, i)
    BY <1>5 DEF LogAt
  <2>2. LoggedBelow(p)' /\ OpenAbove(p)'
    BY <1>3, <1>4, <1>5, <2>1 DEF OrdOK, LoggedBelow, OpenAbove
  <2>3. AnnouncedPassed(p)'
    BY <1>2, <1>1, <1>3, <1>4, <1>5, <2>1 DEF AnnouncedPassed
  <2>4. CommitsLast(p)'
    BY <1>5, <2>1 DEF OrdOK, CommitsLast
  <2> QED BY <2>2, <2>3, <2>4 DEF OrdOK
<1>6. CASE LogGrows(p, Request("commit", t, clk))
  <2>1. PICK m : m = Len(logChan[p])
    OBVIOUS
  <2>2. /\ m \in Nat /\ Len(logChan'[p]) = m + 1
        /\ \A i \in 1 .. m : logChan'[p][i] = logChan[p][i]
        /\ \A i \in 1 .. (m + 1) : i \in 1 .. m \/ i = m + 1
        /\ logChan'[p][m + 1] = Request("commit", t, clk)
    BY <1>4, <1>6, <2>1, LogAppend
  <2>3. /\ \A i \in 1 .. m : LogAt(p, i)' = LogAt(p, i)
        /\ LogAt(p, m + 1)' = c
    BY <2>1, <2>2 DEF LogAt, Request
  <2>4. \A i \in 1 .. (m + 1) : LogAt(p, i)' \in Nat /\ LogAt(p, i)' <= c
    <3>1. \A i \in 1 .. m : LogAt(p, i)' \in Nat /\ LogAt(p, i)' <= c
      BY <1>1, <1>3, <2>1, <2>3
    <3>2. LogAt(p, m + 1)' \in Nat /\ LogAt(p, m + 1)' <= c
      BY <1>2, <2>2, <2>3
    <3> QED BY <2>2, <3>1, <3>2
  <2>5. LoggedBelow(p)'
    BY <1>4, <2>2, <2>4 DEF LoggedBelow
  <2>6. OpenAbove(p)'
    <3> SUFFICES ASSUME NEW k \in Open(p)'
                 PROVE  c <= k /\ \A i \in 1 .. (m + 1) : LogAt(p, i)' <= k
      BY <1>4, <2>2 DEF OpenAbove
    <3>1. c <= k /\ k \in Nat
      BY <1>1
    <3> QED BY <1>2, <2>4, <3>1
  <2>7. AnnouncedPassed(p)'
    <3> SUFFICES ASSUME NEW i \in 1 .. (m + 1) PROVE LogAt(p, i)' <= c + 1
      BY <1>4, <2>2 DEF AnnouncedPassed
    <3> QED BY <1>2, <2>4
  <2>8. CommitsLast(p)'
    <3> SUFFICES ASSUME NEW i \in 1 .. (m + 1), NEW j \in 1 .. (m + 1), i < j,
                        logChan'[p][j].type = "commit"
                 PROVE  LogAt(p, i)' <= LogAt(p, j)'
      BY <2>2 DEF CommitsLast
    <3>1. CASE j = m + 1
      BY <2>3, <2>4, <3>1
    <3>2. CASE j \in 1 .. m
      <4>1. i \in 1 .. m
        BY <2>2, <3>2
      <4> QED BY <2>1, <2>2, <2>3, <3>2, <4>1 DEF OrdOK, CommitsLast
    <3> QED BY <2>2, <3>1, <3>2
  <2> QED BY <2>5, <2>6, <2>7, <2>8 DEF OrdOK
<1> QED BY <1>4, <1>5, <1>6

\* A clock is announced to the logger of p.
LEMMA OrdAnnounce ==
    ASSUME TypeInv, LifeInv, SelfInv, NEW p \in Partitions, OrdOK(p), NEW clk \in SelfClock,
           NEW a, a = clk[Self], \A n \in Open(p) : a <= n, Open(p)' = Open(p),
           LogGrows(p, Request("clk", NoTxn, clk)),
           stableClk'[p] = stableClk[p], lastUsedTs'[p] = lastUsedTs[p],
           a <= stableClk[p][Self] + 1 \/ a <= now' \/ a <= lastUsedTs[p],
           now' \in Nat, now <= now'
    PROVE  OrdOK(p)'
<1>1. /\ stableClk[p][Self] \in Nat /\ now \in Nat /\ lastUsedTs[p] \in Nat
      /\ \A i \in 1 .. Len(logChan[p]) : LogAt(p, i) \in Nat
      /\ Open(p) \subseteq Nat
  BY OrdTypes
<1>2. PICK m : m = Len(logChan[p])
  OBVIOUS
<1>3. Request("clk", NoTxn, clk) \in LogRequest
  BY DEF Request, LogRequest, SelfClock
<1>4. /\ m \in Nat /\ Len(logChan'[p]) = m + 1
      /\ \A i \in 1 .. m : logChan'[p][i] = logChan[p][i]
      /\ \A i \in 1 .. (m + 1) : i \in 1 .. m \/ i = m + 1
      /\ logChan'[p][m + 1] = Request("clk", NoTxn, clk)
  BY <1>2, <1>3, LogAppend
<1>5. /\ \A i \in 1 .. m : LogAt(p, i)' = LogAt(p, i)
      /\ LogAt(p, m + 1)' = a /\ logChan'[p][m + 1].type = "clk"
  BY <1>4 DEF LogAt, Request
<1>6. LoggedBelow(p)'
  <2> SUFFICES ASSUME NEW i \in 1 .. (m + 1), logChan'[p][i].type = "commit"
               PROVE  LogAt(p, i)' <= stableClk[p][Self]
    BY <1>4 DEF LoggedBelow
  <2>1. i \in 1 .. m
    BY <1>4, <1>5
  <2> QED BY <1>2, <1>4, <1>5, <2>1 DEF OrdOK, LoggedBelow
<1>7. OpenAbove(p)'
  <2> SUFFICES ASSUME NEW n \in Open(p), NEW i \in 1 .. (m + 1)
               PROVE  stableClk[p][Self] <= n /\ LogAt(p, i)' <= n
    BY <1>4 DEF OpenAbove
  <2>1. CASE i = m + 1
    BY <1>5, <2>1 DEF OrdOK, OpenAbove
  <2>2. CASE i \in 1 .. m
    BY <1>2, <1>5, <2>2 DEF OrdOK, OpenAbove
  <2> QED BY <1>4, <2>1, <2>2
<1>8. AnnouncedPassed(p)'
  <2> SUFFICES ASSUME NEW i \in 1 .. (m + 1)
               PROVE  \/ LogAt(p, i)' <= stableClk[p][Self] + 1
                      \/ LogAt(p, i)' <= now' \/ LogAt(p, i)' <= lastUsedTs[p]
    BY <1>4 DEF AnnouncedPassed
  <2>1. CASE i = m + 1
    BY <1>5, <2>1
  <2>2. CASE i \in 1 .. m
    BY <1>1, <1>2, <1>5, <2>2 DEF OrdOK, AnnouncedPassed
  <2> QED BY <1>4, <2>1, <2>2
<1>9. CommitsLast(p)'
  <2> SUFFICES ASSUME NEW i \in 1 .. (m + 1), NEW j \in 1 .. (m + 1), i < j,
                      logChan'[p][j].type = "commit"
               PROVE  LogAt(p, i)' <= LogAt(p, j)'
    BY <1>4 DEF CommitsLast
  <2>1. j \in 1 .. m
    BY <1>4, <1>5
  <2>2. i \in 1 .. m
    BY <1>4, <2>1
  <2> QED BY <1>2, <1>4, <1>5, <2>1, <2>2 DEF OrdOK, CommitsLast
<1> QED BY <1>6, <1>7, <1>8, <1>9 DEF OrdOK

\* A partition changes only its own state, and the wall clock does not go back.
LEMMA PartitionOwn ==
    ASSUME TypeInv, NEW q \in Partitions, PartitionStep(q)
    PROVE  /\ now' \in Nat /\ now <= now'
           /\ \A p \in Partitions \ {q} :
                 /\ prepClks'[p] = prepClks[p] /\ commitsOnHold'[p] = commitsOnHold[p]
                 /\ stableClk'[p] = stableClk[p] /\ lastUsedTs'[p] = lastUsedTs[p]
                 /\ logChan'[p] = logChan[p]
<1>0. /\ now \in Nat /\ MaxTime \in Nat /\ prepClks \in [Partitions -> SUBSET TxnClkPair]
      /\ commitsOnHold \in [Partitions -> SUBSET TxnClkPair]
      /\ stableClk \in [Partitions -> Clock] /\ lastUsedTs \in [Partitions -> Nat]
      /\ logChan \in [Partitions -> Seq(LogRequest)]
  BY MaterializerConstants DEF TypeInv, TypeOK, MatTypeOK
<1> DEFINE Own ==
       /\ now' \in Nat /\ now <= now'
       /\ \A p \in Partitions \ {q} :
                 /\ prepClks'[p] = prepClks[p] /\ commitsOnHold'[p] = commitsOnHold[p]
                 /\ stableClk'[p] = stableClk[p] /\ lastUsedTs'[p] = lastUsedTs[p]
                 /\ logChan'[p] = logChan[p]
<1>1. CASE HandleMatStaticWrite(q) \/ HandleMatPrepare(q)
  <2>1. PICK time \in now .. MaxTime : PrepareClock(q, Head(channels[q]).txn, time)
    BY <1>1 DEF HandleMatStaticWrite, HandleMatPrepare
  <2>2. time \in Nat /\ now <= time /\ now' = time
    BY <1>0, <2>1 DEF PrepareClock
  <2>3. UNCHANGED <<stableClk, commitsOnHold, logChan>>
    BY <1>1 DEF HandleMatStaticWrite, HandleMatPrepare
  <2>4. \A p \in Partitions \ {q} : prepClks'[p] = prepClks[p] /\ lastUsedTs'[p] = lastUsedTs[p]
    BY <1>0, <2>1 DEF PrepareClock
  <2> QED BY <2>2, <2>3, <2>4
<1>2. ASSUME NEW t, NEW clk, ApplyCommit(q, t, clk)
      PROVE  \A p \in Partitions \ {q} : stableClk'[p] = stableClk[p] /\ logChan'[p] = logChan[p]
  BY <1>0, <1>2 DEF ApplyCommit
<1>3. CASE HandleMatCommit(q)
  <2>1. UNCHANGED <<now, lastUsedTs>>
    BY <1>3 DEF HandleMatCommit
  <2>2. \A p \in Partitions \ {q} : prepClks'[p] = prepClks[p]
    BY <1>0, <1>3 DEF HandleMatCommit
  <2>3. \A p \in Partitions \ {q} : /\ commitsOnHold'[p] = commitsOnHold[p]
                                    /\ stableClk'[p] = stableClk[p] /\ logChan'[p] = logChan[p]
    <3>1. CASE \E t, clk : ApplyCommit(q, t, clk) /\ UNCHANGED commitsOnHold
      BY <1>2, <3>1
    <3>2. CASE \E t, clk : HoldCommit(q, t, clk)
      BY <1>0, <3>2 DEF HoldCommit
    <3> QED BY <1>3, <3>1, <3>2 DEF HandleMatCommit
  <2> QED BY <1>0, <2>1, <2>2, <2>3
<1>4. CASE CheckHoldCommits(q)
  <2>1. UNCHANGED <<now, lastUsedTs, prepClks>>
    BY <1>4 DEF CheckHoldCommits
  <2>2. \A p \in Partitions \ {q} : /\ commitsOnHold'[p] = commitsOnHold[p]
                                    /\ stableClk'[p] = stableClk[p] /\ logChan'[p] = logChan[p]
    <3>1. CASE \E h : /\ ApplyCommit(q, h.txn, h.clk)
                      /\ commitsOnHold' = [commitsOnHold EXCEPT ![q] = commitsOnHold[q] \ {h}]
      BY <1>0, <1>2, <3>1
    <3>2. CASE UNCHANGED <<commitsOnHold, stableClk, logChan>>
      BY <3>2, SMTT(60)
    <3> QED BY <1>4, <3>1, <3>2 DEF CheckHoldCommits
  <2> QED BY <1>0, <2>1, <2>2
<1>5. CASE HandleMatWrite(q) \/ HandleMatAbort(q) \/ HandleMatRead(q) \/ HandleMatStaticSingleRead(q)
  BY <1>0, <1>5 DEF HandleMatWrite, HandleMatAbort, HandleMatRead, HandleMatStaticSingleRead, partVars
<1>6. CASE HandleMatSafeClk(q)
  <2>1. UNCHANGED <<stableClk, lastUsedTs, prepClks, commitsOnHold>>
    BY <1>6 DEF HandleMatSafeClk
  <2>2. now' \in Nat /\ now <= now'
    BY <1>0, <1>6 DEF HandleMatSafeClk
  <2>3. \A p \in Partitions \ {q} : logChan'[p] = logChan[p]
    BY <1>0, <1>6 DEF HandleMatSafeClk
  <2> QED BY <2>1, <2>2, <2>3
<1> QED BY <1>1, <1>3, <1>4, <1>5, <1>6 DEF PartitionStep

\* handleMatCommit keeps the order at its partition.
LEMMA CommitOrd ==
    ASSUME TypeInv, LifeInv, SelfInv, MaxInv, HeldBehindPrepare, NEW q \in Partitions, OrdOK(q),
           HandleMatCommit(q)
    PROVE  OrdOK(q)'
<1>1. ~checkingHold[q] /\ UNCHANGED <<now, lastUsedTs>>
  BY DEF HandleMatCommit, Takes
<1>2. PICK t \in Txns, clk \in Clock, lowest \in HeapRoots(prepClks[q]) :
              /\ clk = maxTs[t] /\ q \in PreparedAt(t) /\ q \in parts[t]
              /\ pc[t] \in {"commit", "done"}
              /\ prepClks' = [prepClks EXCEPT ![q] = {e \in prepClks[q] : e.txn # t}]
              /\ \E can \in CanCommit({e \in prepClks[q] : e.txn # t}, commitsOnHold[q], clk) :
                    \/ can /\ ApplyCommit(q, t, clk) /\ UNCHANGED commitsOnHold
                    \/ ~can /\ HoldCommit(q, t, clk)
  BY CommitTaken, ZenonT(60)
<1>3. PICK can \in CanCommit({e \in prepClks[q] : e.txn # t}, commitsOnHold[q], clk) :
         \/ can /\ ApplyCommit(q, t, clk) /\ UNCHANGED commitsOnHold
         \/ ~can /\ HoldCommit(q, t, clk)
  BY <1>2
<1>4. clk \in SelfClock
  BY <1>2 DEF SelfInv
<1>5. PICK c \in Nat : c = clk[Self]
  BY <1>4, SelfOrder
<1>6. PICK own \in prepClks[q] : own.clk[Self] <= c
  BY <1>2, <1>5, CommitCovered
<1>7. own.clk[Self] \in Open(q)
  BY <1>6 DEF Open
<1>8. prepClks'[q] = {e \in prepClks[q] : e.txn # t}
  BY <1>2 DEF TypeInv, TypeOK, MatTypeOK
<1>9. CASE can /\ ApplyCommit(q, t, clk) /\ UNCHANGED commitsOnHold
  <2>1. /\ \A e \in prepClks[q] : e.txn # t => c <= e.clk[Self]
        /\ \A h \in commitsOnHold[q] : c <= h.clk[Self]
    BY <1>1, <1>4, <1>5, <1>9, CanCommitMeans
  <2>2. Open(q)' \subseteq Open(q) /\ \A k \in Open(q)' : c <= k
    BY <1>8, <1>9, <2>1 DEF Open
  <2> QED BY <1>1, <1>4, <1>5, <1>6, <1>7, <1>9, <2>2, OrdApply
<1>10. CASE HoldCommit(q, t, clk)
  <2>1. PICK pair : pair = [txn |-> t, clk |-> clk]
    OBVIOUS
  <2>2. commitsOnHold'[q] = commitsOnHold[q] \cup {pair} /\ pair.clk = clk
    BY <1>10, <2>1 DEF HoldCommit, TypeInv, TypeOK, MatTypeOK
  <2>3. Open(q)' \subseteq Open(q) \cup {c}
    <3> SUFFICES ASSUME NEW e \in prepClks'[q] \cup commitsOnHold'[q]
                 PROVE  e.clk[Self] \in Open(q) \cup {c}
      BY DEF Open
    <3>1. e \in prepClks[q] \cup commitsOnHold[q] \/ e = pair
      BY <1>8, <2>2
    <3> QED BY <1>5, <2>2, <3>1 DEF Open
  <2>4. stableClk'[q] = stableClk[q] /\ logChan'[q] = logChan[q]
    BY <1>10 DEF HoldCommit
  <2> QED BY <1>1, <1>6, <1>7, <2>3, <2>4, OrdHold
<1> QED BY <1>3, <1>9, <1>10

\* checkHoldCommits keeps the order at its partition.
LEMMA CheckHoldOrd ==
    ASSUME TypeInv, LifeInv, SelfInv, NEW q \in Partitions, OrdOK(q), CheckHoldCommits(q)
    PROVE  OrdOK(q)'
<1>1. UNCHANGED <<now, lastUsedTs, prepClks>>
  BY DEF CheckHoldCommits
<1>2. /\ \A e \in prepClks[q] : e.clk \in SelfClock /\ e.clk[Self] \in Nat
      /\ \A g \in commitsOnHold[q] : g.clk \in SelfClock /\ g.clk[Self] \in Nat
      /\ now \in Nat
  BY ClockNumbers
<1>3. ASSUME NEW h \in HeapRoots(commitsOnHold[q]),
             \/ prepClks[q] = {}
             \/ \E m \in HeapRoots(prepClks[q]) : IsLowerOrEqual(h.clk, m.clk),
             commitsOnHold' = [commitsOnHold EXCEPT ![q] = commitsOnHold[q] \ {h}],
             ApplyCommit(q, h.txn, h.clk)
      PROVE  OrdOK(q)'
  <2>1. h \in commitsOnHold[q] /\ \A g \in commitsOnHold[q] : h.clk[Self] <= g.clk[Self]
    BY <1>2, RootIsLowest
  <2>2. h.txn \in Txns /\ h.clk \in SelfClock
    BY <2>1, HeldClk
  <2>3. \A e \in prepClks[q] : h.clk[Self] <= e.clk[Self]
    <3> SUFFICES ASSUME NEW e \in prepClks[q] PROVE h.clk[Self] <= e.clk[Self]
      OBVIOUS
    <3>1. PICK m \in HeapRoots(prepClks[q]) : IsLowerOrEqual(h.clk, m.clk)
      BY <1>3
    <3>2. m \in prepClks[q] /\ m.clk[Self] <= e.clk[Self]
      BY <1>2, RootIsLowest
    <3>3. h.clk[Self] <= m.clk[Self]
      BY <1>2, <2>1, <3>1, <3>2, SelfOrder
    <3> QED BY <1>2, <2>1, <3>2, <3>3
  <2>4. commitsOnHold'[q] = commitsOnHold[q] \ {h}
    BY <1>3 DEF TypeInv, TypeOK, MatTypeOK
  <2>5. PICK c \in Nat : c = h.clk[Self]
    BY <1>2, <2>1
  <2>6. Open(q)' \subseteq Open(q) /\ (\A k \in Open(q)' : c <= k) /\ c \in Open(q)
    BY <1>1, <2>1, <2>3, <2>4, <2>5 DEF Open
  <2> QED BY <1>1, <1>3, <2>2, <2>5, <2>6, OrdApply
<1>4. CASE UNCHANGED <<commitsOnHold, stableClk, logChan>>
  BY <1>1, <1>2, <1>4, OrdSame
<1> QED BY <1>3, <1>4 DEF CheckHoldCommits

\* handleMatSafeClk keeps the order at its partition: what is held is behind a prepare.
LEMMA SafeClkOrd ==
    ASSUME TypeInv, LifeInv, SelfInv, OrderInv, HeldBehindPrepare, NEW q \in Partitions, OrdOK(q),
           HandleMatSafeClk(q)
    PROVE  OrdOK(q)'
<1>1. /\ ~checkingHold[q] /\ UNCHANGED <<stableClk, lastUsedTs, prepClks, commitsOnHold>>
  BY DEF HandleMatSafeClk, Takes
<1>2. Open(q)' = Open(q)
  BY <1>1 DEF Open
<1>3. /\ \A e \in prepClks[q] : e.clk \in SelfClock /\ e.clk[Self] \in Nat
      /\ \A g \in commitsOnHold[q] : g.clk \in SelfClock /\ g.clk[Self] \in Nat
      /\ now \in Nat /\ stableClk[q][Self] \in Nat /\ lastUsedTs[q] \in Nat
  BY ClockNumbers
<1>4. now' \in Nat /\ now <= now'
  BY PartitionOwn DEF PartitionStep
<1>5. ASSUME prepClks[q] = {}, NEW time \in now .. MaxTime, now' = time,
             LogGrows(q, Request("clk", NoTxn, NextTimestamp(stableClk[q], Self, time)))
      PROVE  OrdOK(q)'
  <2>1. commitsOnHold[q] = {}
    BY <1>1, <1>5 DEF HeldBehindPrepare
  <2>2. Open(q) = {}
    BY <1>5, <2>1 DEF Open
  <2>3. PICK clk : clk = NextTimestamp(stableClk[q], Self, time)
    OBVIOUS
  <2>4. time \in Nat
    BY <1>4, <1>5
  <2>5. /\ clk \in SelfClock
        /\ clk[Self] = IF time <= stableClk[q][Self] THEN stableClk[q][Self] + 1 ELSE time
    BY <2>3, <2>4, AnnouncedSelf
  <2>6. clk[Self] <= stableClk[q][Self] + 1 \/ clk[Self] <= now'
    BY <1>3, <1>5, <2>4, <2>5
  <2> QED BY <1>1, <1>2, <1>4, <1>5, <2>2, <2>3, <2>5, <2>6, OrdAnnounce
<1>6. ASSUME NEW m \in HeapRoots(prepClks[q]),
             LogGrows(q, Request("clk", NoTxn, UpdateForcedPos(m.clk, Self, m.clk[Self] - 1)))
      PROVE  OrdOK(q)'
  <2>1. m \in prepClks[q] /\ \A e \in prepClks[q] : m.clk[Self] <= e.clk[Self]
    BY <1>3, RootIsLowest
  <2>2. \A h \in commitsOnHold[q] : m.clk[Self] <= h.clk[Self]
    <3> SUFFICES ASSUME NEW h \in commitsOnHold[q] PROVE m.clk[Self] <= h.clk[Self]
      OBVIOUS
    <3>1. PICK e \in prepClks[q] : IsLower(e.clk, h.clk)
      BY <1>1 DEF HeldBehindPrepare
    <3>2. e.clk[Self] < h.clk[Self]
      BY <1>3, <3>1, SelfOrder
    <3> QED BY <1>3, <2>1, <3>1, <3>2
  <2>3. PICK clk : clk = UpdateForcedPos(m.clk, Self, m.clk[Self] - 1)
    OBVIOUS
  <2>4. clk \in SelfClock /\ clk[Self] \in Nat /\ clk[Self] = m.clk[Self] - 1
    BY <2>1, <2>3, AnnouncedSelf
  <2>5. m.clk[Self] <= lastUsedTs[q]
    BY <2>1 DEF OrderInv, PreparesBounded
  <2>6. clk[Self] <= lastUsedTs[q]
    BY <1>3, <2>1, <2>4, <2>5
  <2>7. \A n \in Open(q) : clk[Self] <= n
    BY <1>3, <2>1, <2>2, <2>4 DEF Open
  <2> QED BY <1>1, <1>2, <1>4, <1>6, <2>3, <2>4, <2>6, <2>7, OrdAnnounce
<1> QED BY <1>5, <1>6 DEF HandleMatSafeClk, LogGrows

\* Every step keeps the order.
LEMMA NextOrd ==
    TypeInv /\ LifeInv /\ SelfInv /\ MaxInv /\ OrderInv /\ HeldBehindPrepare /\ OrdInv /\ [Next]_vars
        => OrdInv'
<1> SUFFICES ASSUME TypeInv, LifeInv, SelfInv, MaxInv, OrderInv, HeldBehindPrepare, OrdInv, [Next]_vars
             PROVE  OrdInv'
  OBVIOUS
<1>1. CASE UNCHANGED partVars
  <2>1. now \in Nat
    BY DEF TypeInv, TypeOK, MatTypeOK
  <2>2. \A p \in Partitions : OrdOK(p)'
    BY <1>1, <2>1, OrdSame DEF OrdInv, partVars
  <2> QED BY <2>2 DEF OrdInv
<1>2. ASSUME NEW q \in Partitions, PartitionStep(q)
      PROVE  OrdInv'
  <2>1. /\ now' \in Nat /\ now <= now'
        /\ \A p \in Partitions \ {q} :
                 /\ prepClks'[p] = prepClks[p] /\ commitsOnHold'[p] = commitsOnHold[p]
                 /\ stableClk'[p] = stableClk[p] /\ lastUsedTs'[p] = lastUsedTs[p]
                 /\ logChan'[p] = logChan[p]
    BY <1>2, PartitionOwn
  <2>2. \A p \in Partitions \ {q} : OrdOK(p)'
    BY <2>1, OrdSame DEF OrdInv
  <2>3. OrdOK(q)
    BY DEF OrdInv
  <2>4. CASE HandleMatStaticWrite(q) \/ HandleMatPrepare(q)
    <3>1. PICK time \in now .. MaxTime : PrepareClock(q, Head(channels[q]).txn, time)
      BY <2>4 DEF HandleMatStaticWrite, HandleMatPrepare
    <3>2. UNCHANGED <<stableClk, commitsOnHold, logChan>>
      BY <2>4 DEF HandleMatStaticWrite, HandleMatPrepare
    <3>3. PICK c : c = NextClk(q, time)
      OBVIOUS
    <3>4. now \in Nat /\ time \in Nat /\ now <= time
      BY MaterializerConstants DEF TypeInv, TypeOK, MatTypeOK
    <3>5. /\ c \in SelfClock /\ c[Self] \in Nat
          /\ c[Self] > stableClk[q][Self] /\ c[Self] > lastUsedTs[q] /\ c[Self] >= time
      BY <3>3, <3>4, NextClkSelf
    <3>6. PICK pair : pair = [txn |-> Head(channels[q]).txn, clk |-> c]
      OBVIOUS
    <3>7. prepClks'[q] = prepClks[q] \cup {pair} /\ lastUsedTs'[q] = c[Self] /\ pair.clk = c
      BY <3>1, <3>3, <3>6 DEF PrepareClock, TypeInv, TypeOK, MatTypeOK
    <3>8. Open(q)' = Open(q) \cup {c[Self]}
      <4>1. \A e : e \in prepClks'[q] \cup commitsOnHold'[q]
                      <=> e \in prepClks[q] \cup commitsOnHold[q] \/ e = pair
        BY <3>2, <3>7
      <4> QED BY <3>7, <4>1 DEF Open
    <3>9. c[Self] >= now
      BY <3>4, <3>5
    <3> QED BY <2>1, <2>2, <2>3, <3>2, <3>5, <3>7, <3>8, <3>9, OrdPrepare DEF OrdInv
  <2>5. CASE HandleMatWrite(q) \/ HandleMatAbort(q) \/ HandleMatRead(q)
             \/ HandleMatStaticSingleRead(q)
    <3>1. UNCHANGED <<now, prepClks, commitsOnHold, stableClk, lastUsedTs, logChan>>
      BY <2>5 DEF HandleMatWrite, HandleMatAbort, HandleMatRead, HandleMatStaticSingleRead, partVars
    <3>2. OrdOK(q)'
      BY <2>1, <2>3, <3>1, OrdSame
    <3> QED BY <2>2, <3>2, SMTT(60) DEF OrdInv
  <2>6. CASE HandleMatCommit(q) \/ CheckHoldCommits(q) \/ HandleMatSafeClk(q)
    <3>1. OrdOK(q)'
      BY <2>3, <2>6, CommitOrd, CheckHoldOrd, SafeClkOrd
    <3> QED BY <2>2, <3>1 DEF OrdInv
  <2> QED BY <1>2, <2>4, <2>5, <2>6 DEF PartitionStep
<1>3. CASE UNCHANGED vars
  BY <1>1, <1>3 DEF vars
<1> QED BY <1>1, <1>2, <1>3, OtherSteps DEF Next, Partition

-----------------------------------------------------------------------------
(* The order of commits *)

\* What is known of the commit protocol in every state
CommitInv == /\ TypeInv /\ OrderInv /\ WaitInv /\ LifeInv
             /\ SelfInv /\ MaxInv /\ HeldBehindPrepare /\ OrdInv

\* It holds in every state.
LEMMA CommitInvHolds == Spec => []CommitInv
<1>1. Init => CommitInv
  <2> SUFFICES ASSUME Init PROVE CommitInv
    OBVIOUS
  <2>1. /\ prepClks = [p \in Partitions |-> {}] /\ commitsOnHold = [p \in Partitions |-> {}]
        /\ \A p \in Partitions : Len(logChan[p]) = 0
    BY DEF Init, MatInit
  <2>2. OrderInv /\ HeldBehindPrepare
    BY <2>1 DEF OrderInv, PreparesBounded, PreparesAreOrdered, HeldBehindPrepare
  <2>3. \A p \in Partitions : Open(p) = {}
    BY <2>1 DEF Open
  <2>4. OrdInv
    BY <2>1, <2>3 DEF OrdInv, OrdOK, LoggedBelow, OpenAbove, AnnouncedPassed, CommitsLast
  <2> QED BY <2>2, <2>4, InitType, InitWait, InitLife, InitSelf DEF CommitInv
<1>2. CommitInv /\ [Next]_vars => CommitInv'
  <2> SUFFICES ASSUME CommitInv, [Next]_vars PROVE CommitInv'
    OBVIOUS
  <2>1. /\ TypeInv /\ OrderInv /\ WaitInv /\ LifeInv
        /\ SelfInv /\ MaxInv /\ HeldBehindPrepare /\ OrdInv
    BY DEF CommitInv
  <2>2. TypeInv' /\ WaitInv' /\ LifeInv'
    BY <2>1, NextType, NextWait, NextLife
  <2>3. OrderInv'
    BY <2>1, <2>2, NextOrder
  <2>4. SelfInv' /\ MaxInv'
    BY <2>1, NextSelf
  <2>5. HeldBehindPrepare'
    BY <2>1, <2>4, NextHeldBehind
  <2>6. OrdInv'
    BY <2>1, NextOrd
  <2> QED BY <2>2, <2>3, <2>4, <2>5, <2>6 DEF CommitInv
<1> QED BY <1>1, <1>2, PTL DEF Spec

\* No commit is stranded: a partition that is done with a request holds only commits that a
\* prepared transaction is below, whose own commit will call checkHoldCommits.
THEOREM NoCommitStranded == Spec => []HeldBehindPrepare
<1>1. CommitInv => HeldBehindPrepare
  BY DEF CommitInv
<1> QED BY <1>1, CommitInvHolds, PTL

\* Each partition logs, and so applies, commits in the order of their timestamps, in whatever
\* order the coordinators choose the timestamps and the commits arrive.
THEOREM CommitsLoggedInOrder == Spec => []LogInCommitOrder
<1>1. CommitInv => LogInCommitOrder
  <2> SUFFICES ASSUME CommitInv, NEW p \in Partitions, NEW i \in 1 .. Len(logChan[p]),
                      NEW j \in 1 .. Len(logChan[p]), i < j, logChan[p][j].type = "commit"
               PROVE  IsLowerOrEqual(logChan[p][i].clk, logChan[p][j].clk)
    BY DEF LogInCommitOrder
  <2>1. LogAt(p, i) <= LogAt(p, j)
    BY DEF CommitInv, OrdInv, OrdOK, CommitsLast
  <2>2. logChan[p][i].clk \in SelfClock /\ logChan[p][j].clk \in SelfClock
    BY DEF CommitInv, SelfInv
  <2> QED BY <2>1, <2>2, SelfOrder DEF LogAt
<1> QED BY <1>1, CommitInvHolds, PTL

\* "no commit will be < than minimum prepare": once a partition has announced a clock to its
\* logger, it logs no commit below that clock, although the clock announced by a partition
\* with no prepare is recorded nowhere.
THEOREM AnnouncedClksAreSafe == Spec => []SafeClkIsSafe
<1>1. CommitInv => SafeClkIsSafe
  <2> SUFFICES ASSUME CommitInv, NEW p \in Partitions, NEW i \in 1 .. Len(logChan[p]),
                      NEW j \in 1 .. Len(logChan[p]), i < j, logChan[p][j].type = "commit"
               PROVE  IsLowerOrEqual(logChan[p][i].clk, logChan[p][j].clk)
    BY DEF SafeClkIsSafe
  <2>1. LogAt(p, i) <= LogAt(p, j)
    BY DEF CommitInv, OrdInv, OrdOK, CommitsLast
  <2>2. logChan[p][i].clk \in SelfClock /\ logChan[p][j].clk \in SelfClock
    BY DEF CommitInv, SelfInv
  <2> QED BY <2>1, <2>2, SelfOrder DEF LogAt
<1> QED BY <1>1, CommitInvHolds, PTL

=============================================================================
