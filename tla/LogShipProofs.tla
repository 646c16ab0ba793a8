---------------------------- MODULE LogShipProofs ----------------------------
(***************************************************************************)
(* Theorems about the loggers and the sending half of the replicator.      *)
(***************************************************************************)
EXTENDS LogShip, TLAPS, WellFoundedInduction

-----------------------------------------------------------------------------
(* Sequences and numbers *)

\* Append, entry by entry.
LEMMA AppendFacts ==
    ASSUME NEW S, NEW s \in Seq(S), NEW x \in S
    PROVE  /\ Append(s, x) \in Seq(S) /\ Len(s) \in Nat /\ Len(Append(s, x)) = Len(s) + 1
           /\ \A i \in 1 .. Len(s) : Append(s, x)[i] = s[i] /\ i \in 1 .. Len(Append(s, x))
           /\ Append(s, x)[Len(s) + 1] = x
           /\ \A i \in 1 .. Len(Append(s, x)) : i \in 1 .. Len(s) \/ i = Len(s) + 1
OBVIOUS

\* Tail, entry by entry.
LEMMA TailFacts ==
    ASSUME NEW S, NEW s \in Seq(S), s # <<>>
    PROVE  /\ Tail(s) \in Seq(S) /\ Len(s) \in Nat /\ Len(s) >= 1 /\ Len(Tail(s)) = Len(s) - 1
           /\ \A i \in 1 .. (Len(s) - 1) : Tail(s)[i] = s[i + 1]
           /\ Head(s) = s[1] /\ Head(s) \in S
OBVIOUS

\* A set of numbers that is not empty has a lowest one.
LEMMA LowestNumber ==
    ASSUME NEW S \in SUBSET Nat, S # {}
    PROVE  \E m \in S : \A n \in S : m <= n
<1>1. PICK m \in S : \A n \in S : ~(<<n, m>> \in OpToRel(<, Nat))
  BY WFMin, NatLessThanWellFounded
<1>2. \A n \in S : ~(n < m)
  BY <1>1 DEF OpToRel
<1> QED BY <1>2

\* Induction over the first numbers, for a set of them.
LEMMA AllReached ==
    ASSUME NEW N \in Nat, NEW S, 0 \in S, \A n \in 0 .. (N - 1) : n \in S => n + 1 \in S
    PROVE  0 .. N \subseteq S
<1> SUFFICES ASSUME NEW k \in 0 .. N, k \notin S
             PROVE  FALSE
  OBVIOUS
<1>0. (0 .. N) \ S \in SUBSET Nat /\ (0 .. N) \ S # {}
  OBVIOUS
<1>1. PICK m \in (0 .. N) \ S : \A n \in (0 .. N) \ S : m <= n
  BY <1>0, LowestNumber
<1>2. m - 1 \in 0 .. (N - 1) /\ m - 1 \in S /\ (m - 1) + 1 = m
  BY <1>1
<1> QED BY <1>1, <1>2

-----------------------------------------------------------------------------
(* The inner loop of preparateDataToSend *)

\* The result after no partition, and after one more
ScanStart == [min |-> txnCache[0][1].clk, upds |-> {}, stop |-> FALSE]
ScanNext(s, n) == ScanEntry(s, n - 1, txnCache[n - 1][1])

ScanBody(g) == [n \in 0 .. NParts |-> IF n = 0 THEN ScanStart ELSE ScanNext(g[n - 1], n)]

\* Scan is the function its definition describes.
LEMMA ScanDefined == Scan = ScanBody(Scan)
<1> DEFINE Good(g, n) == /\ g[0] = ScanStart
                         /\ \A i \in 1 .. n : g[i] = ScanNext(g[i - 1], i)
           S == {n \in 0 .. NParts : \E g : Good(g, n)}
<1>0. NParts \in Nat /\ NParts >= 1
  BY PartitionLogConstants
<1>1. 0 \in S
  <2>1. Good([i \in 0 .. 0 |-> ScanStart], 0)
    OBVIOUS
  <2> HIDE DEF Good
  <2> QED BY <1>0, <2>1
<1>2. ASSUME NEW n \in 0 .. (NParts - 1), n \in S
      PROVE  n + 1 \in S
  <2>1. PICK g : Good(g, n)
    BY <1>2
  <2> DEFINE h == [i \in 0 .. (n + 1) |-> IF i = n + 1 THEN ScanNext(g[n], n + 1) ELSE g[i]]
  <2>2. Good(h, n + 1)
    <3>1. h[0] = ScanStart
      BY <2>1, <1>0
    <3>2. ASSUME NEW i \in 1 .. (n + 1)
          PROVE  h[i] = ScanNext(h[i - 1], i)
      <4>1. CASE i = n + 1
        <5>1. h[i] = ScanNext(g[n], n + 1) /\ h[i - 1] = g[n]
          BY <4>1, <1>0
        <5> QED BY <5>1, <4>1
      <4>2. CASE i \in 1 .. n
        <5>1. h[i] = g[i] /\ h[i - 1] = g[i - 1]
          BY <4>2, <1>0
        <5>2. g[i] = ScanNext(g[i - 1], i)
          BY <2>1, <4>2
        <5> QED BY <5>1, <5>2
      <4> QED BY <4>1, <4>2
    <3> QED BY <3>1, <3>2
  <2> HIDE DEF Good, h
  <2>3. n + 1 \in 0 .. NParts
    BY <1>0
  <2> QED BY <2>2, <2>3
<1>3. NParts \in S
  <2> HIDE DEF S
  <2>1. 0 .. NParts \subseteq S
    BY <1>0, <1>1, <1>2, AllReached
  <2> QED BY <1>0, <2>1
<1>4. PICK g : Good(g, NParts)
  BY <1>3
<1>5. [i \in 0 .. NParts |-> g[i]] = ScanBody([i \in 0 .. NParts |-> g[i]])
  <2> DEFINE h == [i \in 0 .. NParts |-> g[i]]
  <2>1. ASSUME NEW i \in 0 .. NParts
        PROVE  h[i] = (IF i = 0 THEN ScanStart ELSE ScanNext(h[i - 1], i))
    <3>1. CASE i = 0
      BY <1>4, <3>1
    <3>2. CASE i # 0
      <4>1. i - 1 \in 0 .. NParts /\ i \in 1 .. NParts
        BY <1>0, <3>2
      <4>2. g[i] = ScanNext(g[i - 1], i)
        BY <1>4, <4>1
      <4>3. h[i] = g[i] /\ h[i - 1] = g[i - 1]
        BY <4>1
      <4> QED BY <4>2, <4>3, <3>2
    <3> QED BY <3>1, <3>2
  <2> QED BY <2>1 DEF ScanBody
<1>6. Scan = CHOOSE w : w = ScanBody(w)
  BY DEF Scan, ScanBody, ScanStart, ScanNext
<1>7. \E w : w = ScanBody(w)
  BY <1>5
<1> DEFINE P(w) == w = ScanBody(w)
<1>8. P(CHOOSE w : P(w))
  <2>1. \E w : P(w)
    BY <1>7
  <2> HIDE DEF P
  <2> QED BY <2>1
<1> QED BY <1>6, <1>8

\* What Compare tells of two clocks
LEMMA CompareFacts ==
    ASSUME NEW c \in Clock, NEW d \in Clock
    PROVE  /\ Compare(c, d) = "LowerTs" <=> IsLower(c, d)
           /\ Compare(c, d) = "EqualTs" <=> c = d
<1>1. IsEqual(c, d) <=> c = d
  BY DEF Clock, IsEqual
<1>2. IsLower(c, d) => ~IsHigher(c, d)
  BY DEF IsLower, IsHigher, Clock
<1>3. c = d => ~IsLower(c, d) /\ ~IsHigher(c, d)
  BY DEF IsLower, IsHigher, Clock
<1> QED BY <1>1, <1>2, <1>3 DEF Compare

Heads == [part: Partitions, txn: Txns \cup {NoTxn}]
ScanResult == [min: Clock, upds: SUBSET Heads, stop: BOOLEAN]

\* What the inner loop has found is the entries with the lowest clock; it stops if one of them
\* is a stable clock.
FoundOK(s) ==
    /\ s \in ScanResult
    /\ \A u \in s.upds : /\ u.txn = txnCache[u.part][1].txn
                         /\ s.min = txnCache[u.part][1].clk
                         /\ u.txn = NoTxn => s.stop

\* One iteration of the inner loop
LEMMA ScanEntryFound ==
    ASSUME NEW s, FoundOK(s), NEW p \in Partitions, txnCache[p][1] \in Entry
    PROVE  LET e == txnCache[p][1]
               r == ScanEntry(s, p, e)
           IN  /\ FoundOK(r)
               /\ IsLower(e.clk, s.min) \/ s.min = e.clk => r.min = e.clk /\ r.upds # {}
               /\ ~(IsLower(e.clk, s.min) \/ s.min = e.clk) => r = s
<1> DEFINE e == txnCache[p][1]
           upd == [part |-> p, txn |-> e.txn]
           r == ScanEntry(s, p, e)
<1>1. /\ e \in Entry /\ e.clk \in Clock /\ e.txn \in Txns \cup {NoTxn}
      /\ s \in ScanResult /\ s.min \in Clock /\ s.upds \in SUBSET Heads /\ s.stop \in BOOLEAN
  BY DEF FoundOK, ScanResult, Entry
<1>2. upd \in Heads /\ upd.part = p /\ upd.txn = e.txn
  BY <1>1 DEF Heads
<1>3. /\ Compare(e.clk, s.min) = "LowerTs" <=> IsLower(e.clk, s.min)
      /\ Compare(e.clk, s.min) = "EqualTs" <=> e.clk = s.min
  BY <1>1, CompareFacts
<1>4. CASE IsLower(e.clk, s.min)
  <2>1. r = [min |-> e.clk, upds |-> {upd}, stop |-> e.txn = NoTxn]
    BY <1>3, <1>4 DEF ScanEntry
  <2>2. r.min = e.clk /\ r.upds = {upd} /\ r.stop = (e.txn = NoTxn)
    <3>1. PICK b : b = (e.txn = NoTxn)
      BY Zenon
    <3>2. r = [min |-> e.clk, upds |-> {upd}, stop |-> b]
      BY <2>1, <3>1
    <3>3. r.min = e.clk /\ r.upds = {upd} /\ r.stop = b
      BY <3>2
    <3> QED BY <3>1, <3>3
  <2>3. r \in ScanResult
    <3>1. {upd} \in SUBSET Heads /\ (e.txn = NoTxn) \in BOOLEAN
      BY <1>2
    <3> QED BY <1>1, <2>1, <3>1 DEF ScanResult
  <2>4. FoundOK(r)
    BY <1>2, <2>2, <2>3 DEF FoundOK
  <2> QED BY <1>4, <2>2, <2>4
<1>5. CASE s.min = e.clk
  <2>1. ~IsLower(e.clk, s.min)
    BY <1>1, <1>5 DEF IsLower, Clock
  <2>2. r = [s EXCEPT !.upds = @ \cup {upd}, !.stop = @ \/ e.txn = NoTxn]
    BY <1>3, <1>5, <2>1 DEF ScanEntry
  <2>3. r.min = s.min /\ r.upds = s.upds \cup {upd} /\ (r.stop <=> s.stop \/ e.txn = NoTxn)
    BY <1>1, <2>2 DEF ScanResult
  <2>4. r \in ScanResult
    <3>1. s.upds \cup {upd} \in SUBSET Heads
      BY <1>1, <1>2
    <3>2. PICK b \in BOOLEAN : b = (s.stop \/ e.txn = NoTxn)
      BY Zenon
    <3>3. r = [s EXCEPT !.upds = s.upds \cup {upd}, !.stop = b]
      BY <2>2, <3>2
    <3> QED BY <1>1, <3>1, <3>3 DEF ScanResult
  <2>5. ASSUME NEW u \in r.upds
        PROVE  /\ u.txn = txnCache[u.part][1].txn /\ r.min = txnCache[u.part][1].clk
               /\ u.txn = NoTxn => r.stop
    <3>1. CASE u = upd
      BY <1>2, <1>5, <2>3, <3>1
    <3>2. CASE u \in s.upds
      BY <2>3, <3>2 DEF FoundOK
    <3> QED BY <2>3, <3>1, <3>2
  <2>6. FoundOK(r)
    BY <2>4, <2>5 DEF FoundOK
  <2> QED BY <1>5, <2>3, <2>6
<1>6. CASE ~IsLower(e.clk, s.min) /\ s.min # e.clk
  <2>1. r = s
    BY <1>3, <1>6 DEF ScanEntry
  <2> QED BY <1>6, <2>1
<1> QED BY <1>4, <1>5, <1>6

\* Every cache has a first entry.
CachesRead == \A p \in Partitions : txnCache[p] \in Seq(Entry) /\ txnCache[p] # <<>>

\* Scan, for the partitions before n
LEMMA ScanSteps ==
    ASSUME CachesRead
    PROVE  /\ Scan[0] = ScanStart /\ FoundOK(ScanStart)
           /\ \A n \in 0 .. (NParts - 1) : Scan[n + 1] = ScanEntry(Scan[n], n, txnCache[n][1])
           /\ \A p \in Partitions : txnCache[p][1] \in Entry
<1>0. NParts \in Nat /\ NParts >= 1 /\ 0 \in Partitions
  BY PartitionLogConstants DEF Partitions
<1>1. \A p \in Partitions : txnCache[p][1] \in Entry
  BY DEF CachesRead
<1>2. Scan[0] = ScanStart
  BY <1>0, ScanDefined DEF ScanBody
<1>3. ASSUME NEW n \in 0 .. (NParts - 1)
      PROVE  Scan[n + 1] = ScanEntry(Scan[n], n, txnCache[n][1])
  <2>1. n + 1 \in 0 .. NParts /\ n + 1 # 0 /\ (n + 1) - 1 = n
    BY <1>0
  <2>2. Scan[n + 1] = ScanNext(Scan[(n + 1) - 1], n + 1)
    BY <2>1, ScanDefined DEF ScanBody
  <2> QED BY <2>1, <2>2 DEF ScanNext
<1>4. FoundOK(ScanStart)
  <2>1. txnCache[0][1].clk \in Clock
    BY <1>0, <1>1 DEF Entry
  <2>2. ScanStart \in ScanResult /\ ScanStart.upds = {}
    BY <2>1 DEF ScanStart, ScanResult
  <2> QED BY <2>2 DEF FoundOK
<1> QED BY <1>1, <1>2, <1>3, <1>4

\* The result of the inner loop
LEMMA ScanFound ==
    ASSUME CachesRead
    PROVE  FoundOK(Scan[NParts]) /\ Scan[NParts].upds # {}
<1> DEFINE S == {n \in 0 .. NParts : /\ FoundOK(Scan[n])
                                     /\ n = 0 \/ Scan[n].upds # {}}
<1>0. NParts \in Nat /\ NParts >= 1 /\ Partitions = 0 .. (NParts - 1)
  BY PartitionLogConstants DEF Partitions
<1>1. 0 \in S
  BY <1>0, ScanSteps
<1>2. ASSUME NEW n \in 0 .. (NParts - 1), n \in S
      PROVE  n + 1 \in S
  <2>1. /\ Scan[n + 1] = ScanEntry(Scan[n], n, txnCache[n][1]) /\ FoundOK(Scan[n])
        /\ n \in Partitions /\ txnCache[n][1] \in Entry /\ n + 1 \in 0 .. NParts
    BY <1>0, <1>2, ScanSteps
  <2>2. /\ FoundOK(Scan[n + 1])
        /\ IsLower(txnCache[n][1].clk, Scan[n].min) \/ Scan[n].min = txnCache[n][1].clk
             => Scan[n + 1].upds # {}
        /\ ~(IsLower(txnCache[n][1].clk, Scan[n].min) \/ Scan[n].min = txnCache[n][1].clk)
             => Scan[n + 1] = Scan[n]
    BY <2>1, ScanEntryFound
  <2>3. n = 0 => Scan[n].min = txnCache[n][1].clk
    BY ScanSteps DEF ScanStart
  <2>4. Scan[n + 1].upds # {}
    BY <1>2, <2>2, <2>3
  <2> QED BY <2>1, <2>2, <2>4
<1>3. NParts \in S
  <2> HIDE DEF S
  <2>1. 0 .. NParts \subseteq S
    BY <1>0, <1>1, <1>2, AllReached
  <2> QED BY <1>0, <2>1
<1> QED BY <1>0, <1>3

-----------------------------------------------------------------------------
(* Types, positions and phases *)

\* A decided transaction has one of the timestamps.
DecidedOK == \A t \in Txns : involved[t] # {} => commitTs[t] \in Timestamps

\* A logger writes behind what it has sent.
PositionsOK ==
    \A p \in Partitions : lastSharedPos[p] <= currentTxnPos[p] /\ currentTxnPos[p] <= Len(log[p])

\* Every slot of a log holds a transaction.
SlotsOK == \A p \in Partitions : \A i \in 1 .. Len(log[p]) : log[p][i].txn \in Txns

\* A slice lies in the log.
ReplyOK(r) == r.from <= r.to /\ r.to <= Len(log[r.part])

RepliesOK == ReplyOK(copying) /\ \A i \in 1 .. Len(partsChan) : ReplyOK(partsChan[i])

\* The cache that is being filled has transactions only, the others one stable clock at their end.
CacheOK(p) ==
    IF rpc = "copy" /\ copying.part = p
    THEN \A i \in 1 .. Len(txnCache[p]) : txnCache[p][i].txn \in Txns
    ELSE /\ txnCache[p] # <<>>
         /\ txnCache[p][Len(txnCache[p])].txn = NoTxn
         /\ \A i \in 1 .. (Len(txnCache[p]) - 1) : txnCache[p][i].txn \in Txns

CachesOK == \A p \in Partitions : CacheOK(p)

\* replicateCycle asks and receives once for each partition, and sends when there is something
\* to send.
PhaseOK ==
    /\ rpc = "ask" => asked < NParts /\ received = 0
    /\ rpc \in {"collect", "copy"} => received < NParts
    /\ rpc \in {"single", "group"} => toSend # <<>>
    /\ rpc = "stable" => sent # <<>>

ShipInv == TypeOK /\ DecidedOK /\ PositionsOK /\ SlotsOK /\ RepliesOK /\ CachesOK /\ PhaseOK

\* What the messages of a logger carry
LEMMA MessageFacts ==
    ASSUME NEW m \in LoggerMsg
    PROVE  /\ m.clk \in Clock
           /\ m.type = "commit" => m.txn \in Txns /\ m.clk \in Timestamps
           /\ m.type = "clk" => m.clk \in Timestamps
<1>1. NewTimestamp \in Clock
  BY DEF NewTimestamp, Clock
<1> QED BY <1>1, PartitionLogConstants DEF LoggerMsg, LogRequest

\* The requests a partition may send, and the ones the replicator and the timer send
LEMMA NewMessages ==
    /\ \A t \in Txns, c \in Timestamps : [type |-> "commit", txn |-> t, clk |-> c] \in LogRequest
    /\ \A c \in Timestamps : ClkEntry(c) \in LogRequest
    /\ LogRequest \subseteq LoggerMsg
    /\ [type |-> "txnLog", txn |-> NoTxn, clk |-> NewTimestamp] \in LoggerMsg
    /\ [type |-> "timeout", txn |-> NoTxn, clk |-> NewTimestamp] \in LoggerMsg
BY DEF LogRequest, LoggerMsg, ClkEntry

LEMMA ShipInvInit == Init => ShipInv
<1> SUFFICES ASSUME Init PROVE ShipInv
  OBVIOUS
<1>1. NParts \in Nat /\ NParts >= 1 /\ 0 \in Partitions /\ NewTimestamp \in Clock
  BY PartitionLogConstants DEF Partitions, NewTimestamp, Clock
<1>2. LogTypeOK
  BY <1>1 DEF Init, LogInit, LogTypeOK
<1>3. TypeOK
  BY <1>1, <1>2 DEF Init, TypeOK, NoReply, Reply, Entry
<1>4. PositionsOK /\ SlotsOK
  BY DEF Init, PositionsOK, SlotsOK
<1>5. RepliesOK
  BY <1>1 DEF Init, RepliesOK, ReplyOK, NoReply
<1>6. CachesOK
  BY DEF Init, CachesOK, CacheOK
<1>7. PhaseOK
  BY <1>1 DEF Init, PhaseOK
<1>8. DecidedOK
  BY DEF Init, LogInit, DecidedOK
<1> QED BY <1>3, <1>4, <1>5, <1>6, <1>7, <1>8 DEF ShipInv

\* The variables of the loggers' arrays, the replies and the cycle
shipVars == <<log, lastSharedPos, currentTxnPos, partsChan, replVars>>

\* A step that leaves them alone keeps everything but the types.
LEMMA OnlyTypes ==
    ASSUME ShipInv, UNCHANGED shipVars, TypeOK', DecidedOK'
    PROVE  ShipInv'
<1>1. PositionsOK' /\ SlotsOK'
  BY DEF ShipInv, shipVars, PositionsOK, SlotsOK
<1>2. RepliesOK'
  BY DEF ShipInv, shipVars, replVars, RepliesOK, ReplyOK
<1>3. CachesOK'
  BY DEF ShipInv, shipVars, replVars, CachesOK, CacheOK
<1>4. PhaseOK'
  BY DEF ShipInv, shipVars, replVars, PhaseOK
<1> QED BY <1>1, <1>2, <1>3, <1>4 DEF ShipInv

\* A decision stays.
LEMMA DecisionsStay ==
    ASSUME ShipInv, UNCHANGED <<involved, commitTs>>
    PROVE  DecidedOK'
BY DEF ShipInv, DecidedOK

\* The partitions' steps
LEMMA PartitionStepsType ==
    ASSUME ShipInv, NEW p \in Partitions, NEW t,
           \/ t \in Txns /\ (DecideTxn(t) \/ PartitionCommits(p, t))
           \/ PartitionAnswers(p)
    PROVE  ShipInv'
<1>1. TypeOK /\ LogTypeOK /\ DecidedOK
  BY DEF ShipInv, TypeOK
<1>2. CASE t \in Txns /\ DecideTxn(t)
  <2>1. PICK P \in SUBSET Partitions, clk \in Timestamps : Decide(t, P, clk)
    BY <1>2 DEF DecideTxn
  <2>2. clk \in Clock
    BY PartitionLogConstants
  <2>3. LogTypeOK' /\ DecidedOK'
    BY <1>1, <1>2, <2>1, <2>2 DEF Decide, LogTypeOK, DecidedOK
  <2>4. TypeOK'
    BY <1>1, <1>2, <2>3 DEF TypeOK, DecideTxn, loggerVars, replVars
  <2>5. UNCHANGED shipVars
    BY <1>2 DEF DecideTxn, shipVars, loggerVars, replVars
  <2> QED BY <2>3, <2>4, <2>5, OnlyTypes
<1>3. CASE (t \in Txns /\ PartitionCommits(p, t)) \/ PartitionAnswers(p)
  <2>1. PICK m \in LogRequest : /\ logChan' = [logChan EXCEPT ![p] = Append(logChan[p], m)]
                                /\ inbox' = [inbox EXCEPT ![p] = Append(inbox[p], m)]
    <3>1. CASE t \in Txns /\ PartitionCommits(p, t)
      <4>1. commitTs[t] \in Timestamps
        BY <1>1, <3>1 DEF PartitionCommits, LogCommit, Unlogged, DecidedOK
      <4>2. CommitEntry(t) \in LogRequest
        BY <3>1, <4>1, NewMessages DEF CommitEntry
      <4> QED BY <3>1, <4>2 DEF PartitionCommits, LogCommit
    <3>2. CASE PartitionAnswers(p)
      <4>1. PICK clk \in Timestamps : /\ AnnounceClk(p, clk)
                                      /\ inbox' = [inbox EXCEPT ![p] = Append(@, ClkEntry(clk))]
        BY <3>2 DEF PartitionAnswers
      <4> QED BY <4>1, NewMessages DEF AnnounceClk
    <3> QED BY <1>3, <3>1, <3>2
  <2>2. /\ UNCHANGED <<involved, commitTs, nTimeouts, replWaits, timerOn, fired>>
        /\ UNCHANGED shipVars
    BY <1>3 DEF PartitionCommits, LogCommit, PartitionAnswers, AnnounceClk, shipVars
  <2>3. safeReqs' \in [Partitions -> Nat]
    <3>1. safeReqs \in [Partitions -> Nat]
      BY <1>1 DEF TypeOK
    <3>2. \/ safeReqs' = safeReqs
          \/ safeReqs[p] > 0 /\ safeReqs' = [safeReqs EXCEPT ![p] = safeReqs[p] - 1]
      BY <1>3 DEF PartitionCommits, PartitionAnswers
    <3> QED BY <3>1, <3>2
  <2>4. logChan' \in [Partitions -> Seq(LogRequest)]
    BY <1>1, <2>1 DEF LogTypeOK
  <2>5. inbox' \in [Partitions -> Seq(LoggerMsg)]
    BY <1>1, <2>1, NewMessages DEF TypeOK
  <2>6. LogTypeOK'
    BY <1>1, <2>2, <2>4 DEF LogTypeOK
  <2>7. TypeOK'
    BY <1>1, <2>2, <2>3, <2>5, <2>6 DEF TypeOK, shipVars, replVars
  <2> QED BY <2>2, <2>7, OnlyTypes, DecisionsStay
<1> QED BY <1>2, <1>3

\* A logger takes its next request.
LEMMA HandlesFacts ==
    ASSUME ShipInv, NEW p \in Partitions, NEW type, Handles(p, type)
    PROVE  /\ Head(inbox[p]) \in LoggerMsg /\ Head(inbox[p]).type = type
           /\ inbox' \in [Partitions -> Seq(LoggerMsg)]
<1>1. inbox \in [Partitions -> Seq(LoggerMsg)]
  BY DEF ShipInv, TypeOK
<1>2. inbox[p] \in Seq(LoggerMsg) /\ inbox[p] # <<>>
  BY <1>1 DEF Handles
<1>3. Head(inbox[p]) \in LoggerMsg /\ Tail(inbox[p]) \in Seq(LoggerMsg)
  BY <1>2, TailFacts
<1> QED BY <1>1, <1>3 DEF Handles

\* A commit is written behind the others, or over an older entry.
LEMMA LogWritten ==
    ASSUME ShipInv, NEW p \in Partitions, HandleCommitLogRequest(p)
    PROVE  /\ log' \in [Partitions -> Seq(Entry)]
           /\ Len(log[p]) \in Nat /\ Len(log'[p]) \in Nat
           /\ Len(log'[p]) >= Len(log[p]) /\ Len(log'[p]) >= currentTxnPos[p] + 1
           /\ log'[p][currentTxnPos[p] + 1] = [txn |-> Head(inbox[p]).txn, clk |-> Head(inbox[p]).clk]
           /\ \A i \in 1 .. Len(log'[p]) : i # currentTxnPos[p] + 1 =>
                 i \in 1 .. Len(log[p]) /\ log'[p][i] = log[p][i]
           /\ \A q \in Partitions \ {p} : log'[q] = log[q]
<1> DEFINE e == [txn |-> Head(inbox[p]).txn, clk |-> Head(inbox[p]).clk]
           s == log[p]
           n == currentTxnPos[p]
<1>1. log \in [Partitions -> Seq(Entry)] /\ s \in Seq(Entry) /\ n \in Nat /\ n <= Len(s) /\ Len(s) \in Nat
  BY DEF ShipInv, TypeOK, PositionsOK
<1>2. e \in Entry
  <2>1. /\ Head(inbox[p]).clk \in Clock /\ Head(inbox[p]).txn \in Txns
    BY HandlesFacts, MessageFacts DEF HandleCommitLogRequest
  <2> QED BY <2>1 DEF Entry
<1>3. log' = [log EXCEPT ![p] = IF n = Len(s) THEN Append(s, e) ELSE [s EXCEPT ![n + 1] = e]]
  BY DEF HandleCommitLogRequest
<1> HIDE DEF e, s, n
<1>4. CASE n = Len(s)
  <2>1. log' = [log EXCEPT ![p] = Append(s, e)]
    BY <1>3, <1>4
  <2>2. log'[p] = Append(s, e) /\ \A q \in Partitions \ {p} : log'[q] = log[q]
    BY <1>1, <2>1
  <2>3. /\ Append(s, e) \in Seq(Entry) /\ Len(Append(s, e)) = Len(s) + 1
        /\ Append(s, e)[n + 1] = e
        /\ \A i \in 1 .. Len(Append(s, e)) : i # n + 1 => i \in 1 .. Len(s) /\ Append(s, e)[i] = s[i]
    BY <1>1, <1>2, <1>4, AppendFacts
  <2>4. log' \in [Partitions -> Seq(Entry)]
    BY <1>1, <2>1, <2>3
  <2> QED BY <1>1, <1>4, <2>2, <2>3, <2>4 DEF e, s, n
<1>5. CASE n # Len(s)
  <2>1. log' = [log EXCEPT ![p] = [s EXCEPT ![n + 1] = e]]
    BY <1>3, <1>5
  <2>2. log'[p] = [s EXCEPT ![n + 1] = e] /\ \A q \in Partitions \ {p} : log'[q] = log[q]
    BY <1>1, <2>1
  <2>3. n + 1 \in 1 .. Len(s)
    BY <1>1, <1>5
  <2>4. /\ [s EXCEPT ![n + 1] = e] \in Seq(Entry) /\ Len([s EXCEPT ![n + 1] = e]) = Len(s)
        /\ [s EXCEPT ![n + 1] = e][n + 1] = e
        /\ \A i \in 1 .. Len(s) : i # n + 1 => [s EXCEPT ![n + 1] = e][i] = s[i]
    BY <1>1, <1>2, <2>3
  <2>5. log' \in [Partitions -> Seq(Entry)]
    BY <1>1, <2>1, <2>4
  <2> QED BY <1>1, <1>5, <2>2, <2>3, <2>4, <2>5 DEF e, s, n
<1> QED BY <1>4, <1>5

\* handleCommitLogRequest
LEMMA CommitLoggedType ==
    ASSUME ShipInv, NEW p \in Partitions, HandleCommitLogRequest(p)
    PROVE  ShipInv'
<1>1. TypeOK /\ LogTypeOK /\ PositionsOK /\ SlotsOK /\ RepliesOK /\ CachesOK /\ PhaseOK
  BY DEF ShipInv, TypeOK
<1>2. /\ UNCHANGED <<logVars, safeReqs, lastSharedPos, replWaits, timerOn, fired, partsChan, replVars,
                     nTimeouts>>
      /\ currentTxnPos' = [currentTxnPos EXCEPT ![p] = currentTxnPos[p] + 1]
      /\ inbox' \in [Partitions -> Seq(LoggerMsg)]
      /\ Head(inbox[p]).txn \in Txns
  BY HandlesFacts, MessageFacts DEF HandleCommitLogRequest
<1>3. /\ currentTxnPos \in [Partitions -> Nat] /\ currentTxnPos' \in [Partitions -> Nat]
      /\ currentTxnPos'[p] = currentTxnPos[p] + 1
      /\ \A q \in Partitions \ {p} : currentTxnPos'[q] = currentTxnPos[q]
      /\ lastSharedPos \in [Partitions -> Nat]
      /\ \A q \in Partitions : Len(log[q]) \in Nat
  <2>1. /\ currentTxnPos \in [Partitions -> Nat] /\ lastSharedPos \in [Partitions -> Nat]
        /\ log \in [Partitions -> Seq(Entry)]
    BY <1>1 DEF TypeOK
  <2>2. currentTxnPos[p] + 1 \in Nat
    BY <2>1
  <2>3. \A q \in Partitions : Len(log[q]) \in Nat
    BY <2>1
  <2>4. /\ currentTxnPos' \in [Partitions -> Nat] /\ currentTxnPos'[p] = currentTxnPos[p] + 1
        /\ \A q \in Partitions \ {p} : currentTxnPos'[q] = currentTxnPos[q]
    BY <1>2, <2>1, <2>2
  <2> QED BY <2>1, <2>3, <2>4
<1>4. /\ log' \in [Partitions -> Seq(Entry)]
      /\ Len(log'[p]) \in Nat
      /\ Len(log'[p]) >= Len(log[p]) /\ Len(log'[p]) >= currentTxnPos[p] + 1
      /\ log'[p][currentTxnPos[p] + 1] = [txn |-> Head(inbox[p]).txn, clk |-> Head(inbox[p]).clk]
      /\ \A i \in 1 .. Len(log'[p]) : i # currentTxnPos[p] + 1 =>
            i \in 1 .. Len(log[p]) /\ log'[p][i] = log[p][i]
      /\ \A q \in Partitions \ {p} : log'[q] = log[q]
  BY LogWritten
<1>5. TypeOK'
  BY <1>1, <1>2, <1>3, <1>4 DEF TypeOK, LogTypeOK, logVars, replVars
<1>6. PositionsOK'
  <2>1. ASSUME NEW q \in Partitions
        PROVE  lastSharedPos'[q] <= currentTxnPos'[q] /\ currentTxnPos'[q] <= Len(log'[q])
    <3>1. /\ lastSharedPos[q] <= currentTxnPos[q] /\ currentTxnPos[q] <= Len(log[q])
          /\ lastSharedPos'[q] = lastSharedPos[q]
          /\ lastSharedPos[q] \in Nat /\ currentTxnPos[q] \in Nat
      BY <1>1, <1>2, <1>3 DEF PositionsOK
    <3>2. CASE q = p
      BY <1>3, <1>4, <3>1, <3>2
    <3>3. CASE q # p
      BY <1>3, <1>4, <3>1, <3>3
    <3> QED BY <3>2, <3>3
  <2> QED BY <2>1 DEF PositionsOK
<1>7. SlotsOK'
  <2>1. log'[p][currentTxnPos[p] + 1].txn \in Txns
    BY <1>2, <1>4
  <2> QED BY <1>1, <1>4, <2>1 DEF SlotsOK
<1>8. RepliesOK'
  <2>1. ASSUME NEW r \in Reply, ReplyOK(r)
        PROVE  r.from <= r.to /\ r.to <= Len(log'[r.part])
    <3>1. r.part \in Partitions /\ r.to \in Nat /\ r.from \in Nat
      BY DEF Reply
    <3>2. Len(log'[r.part]) \in Nat /\ Len(log[r.part]) \in Nat /\ Len(log'[r.part]) >= Len(log[r.part])
      <4>1. CASE r.part = p
        BY <1>3, <1>4, <3>1, <4>1
      <4>2. CASE r.part # p
        <5>1. log'[r.part] = log[r.part]
          BY <1>4, <3>1, <4>2
        <5> QED BY <1>3, <3>1, <5>1
      <4> QED BY <4>1, <4>2
    <3> QED BY <2>1, <3>1, <3>2 DEF ReplyOK
  <2>2. copying \in Reply /\ copying' = copying /\ partsChan \in Seq(Reply) /\ partsChan' = partsChan
    BY <1>1, <1>2 DEF TypeOK, replVars
  <2>3. ReplyOK(copying)'
    <3>1. PICK r \in Reply : r = copying
      BY <2>2
    <3> QED BY <1>1, <2>1, <2>2, <3>1 DEF RepliesOK, ReplyOK
  <2>4. ASSUME NEW i \in 1 .. Len(partsChan)
        PROVE  ReplyOK(partsChan[i])'
    <3>1. PICK r \in Reply : r = partsChan[i]
      BY <2>2
    <3> QED BY <1>1, <2>1, <2>2, <3>1 DEF RepliesOK, ReplyOK
  <2> QED BY <2>2, <2>3, <2>4 DEF RepliesOK
<1>9. CachesOK' /\ PhaseOK'
  BY <1>1, <1>2 DEF CachesOK, CacheOK, PhaseOK, replVars
<1>10. DecidedOK'
  BY <1>2, DecisionsStay DEF logVars
<1> QED BY <1>5, <1>6, <1>7, <1>8, <1>9, <1>10 DEF ShipInv

\* Steps that only send messages or start timers
LEMMA MessageStepsType ==
    ASSUME ShipInv, NEW p \in Partitions,
           HandleTxnLogRequest(p) \/ TimerFires(p) \/ SendTimeout(p)
    PROVE  ShipInv'
<1>1. TypeOK /\ LogTypeOK
  BY DEF ShipInv, TypeOK
<1>2. /\ UNCHANGED shipVars /\ UNCHANGED logVars
  BY DEF HandleTxnLogRequest, TimerFires, SendTimeout, shipVars
<1>3. inbox' \in [Partitions -> Seq(LoggerMsg)]
  <2>1. inbox \in [Partitions -> Seq(LoggerMsg)]
    BY <1>1 DEF TypeOK
  <2>2. CASE HandleTxnLogRequest(p)
    BY <2>2, HandlesFacts DEF HandleTxnLogRequest
  <2>3. CASE TimerFires(p)
    BY <2>1, <2>3 DEF TimerFires
  <2>4. CASE SendTimeout(p)
    <3>1. PICK m \in LoggerMsg : inbox' = [inbox EXCEPT ![p] = Append(inbox[p], m)]
      BY <2>4, NewMessages DEF SendTimeout
    <3> QED BY <2>1, <3>1
  <2> QED BY <2>2, <2>3, <2>4
<1>4. /\ safeReqs' \in [Partitions -> Nat] /\ replWaits' \in [Partitions -> BOOLEAN]
      /\ timerOn' \in [Partitions -> BOOLEAN]
  <2>1. /\ safeReqs \in [Partitions -> Nat] /\ replWaits \in [Partitions -> BOOLEAN]
        /\ timerOn \in [Partitions -> BOOLEAN]
    BY <1>1 DEF TypeOK
  <2>2. CASE HandleTxnLogRequest(p)
    BY <2>1, <2>2 DEF HandleTxnLogRequest
  <2>3. CASE TimerFires(p) \/ SendTimeout(p)
    BY <2>1, <2>3 DEF TimerFires, SendTimeout
  <2> QED BY <2>2, <2>3
<1>5. fired' \in [Partitions -> Nat] /\ nTimeouts' \in Nat
  <2>1. fired \in [Partitions -> Nat] /\ nTimeouts \in Nat
    BY <1>1 DEF TypeOK
  <2>2. CASE HandleTxnLogRequest(p)
    BY <2>1, <2>2 DEF HandleTxnLogRequest
  <2>3. CASE TimerFires(p)
    BY <2>1, <2>3 DEF TimerFires
  <2>4. CASE SendTimeout(p)
    <3>1. fired[p] > 0 /\ fired' = [fired EXCEPT ![p] = fired[p] - 1] /\ nTimeouts' = nTimeouts
      BY <2>4 DEF SendTimeout
    <3> QED BY <2>1, <3>1
  <2> QED BY <2>2, <2>3, <2>4
<1>6. TypeOK'
  BY <1>1, <1>2, <1>3, <1>4, <1>5 DEF TypeOK, LogTypeOK, shipVars, replVars, logVars
<1> QED BY <1>2, <1>6, OnlyTypes, DecisionsStay DEF logVars

\* A logger answers the replicator, or has nothing to answer.
LEMMA AnswerType ==
    ASSUME ShipInv, NEW p \in Partitions, NEW clk \in Clock,
           inbox' \in [Partitions -> Seq(LoggerMsg)],
           timerOn' \in [Partitions -> BOOLEAN],
           UNCHANGED <<logVars, safeReqs, log, fired, replVars, nTimeouts>>,
           \/ ReplyToReplicator(p, clk)
           \/ UNCHANGED <<partsChan, lastSharedPos, currentTxnPos, replWaits>>
    PROVE  ShipInv'
<1>1. TypeOK /\ LogTypeOK /\ PositionsOK /\ SlotsOK /\ RepliesOK /\ CachesOK /\ PhaseOK
  BY DEF ShipInv, TypeOK
<1>2. /\ lastSharedPos \in [Partitions -> Nat] /\ currentTxnPos \in [Partitions -> Nat]
      /\ replWaits \in [Partitions -> BOOLEAN] /\ partsChan \in Seq(Reply)
      /\ \A q \in Partitions : Len(log[q]) \in Nat
  BY <1>1 DEF TypeOK
<1>3. /\ lastSharedPos' \in [Partitions -> Nat] /\ currentTxnPos' \in [Partitions -> Nat]
      /\ PositionsOK' /\ replWaits' \in [Partitions -> BOOLEAN]
  <2>1. CASE ReplyToReplicator(p, clk)
    <3>1. PICK m \in Nat, n \in Nat :
             /\ lastSharedPos' = [lastSharedPos EXCEPT ![p] = m]
             /\ currentTxnPos' = [currentTxnPos EXCEPT ![p] = n]
             /\ m <= n /\ n <= currentTxnPos[p]
      <4>1. lastSharedPos[p] \in Nat /\ currentTxnPos[p] \in Nat
        BY <1>2
      <4>2. \/ /\ lastSharedPos' = [lastSharedPos EXCEPT ![p] = 0]
               /\ currentTxnPos' = [currentTxnPos EXCEPT ![p] = 0]
            \/ /\ lastSharedPos' = [lastSharedPos EXCEPT ![p] = currentTxnPos[p]]
               /\ currentTxnPos' = [currentTxnPos EXCEPT ![p] = currentTxnPos[p]]
        BY <2>1 DEF ReplyToReplicator, NextShared
      <4>3. 0 \in Nat /\ 0 <= 0 /\ 0 <= currentTxnPos[p] /\ currentTxnPos[p] <= currentTxnPos[p]
        BY <4>1
      <4> QED BY <4>1, <4>2, <4>3
    <3>2. log' = log /\ replWaits' = [replWaits EXCEPT ![p] = FALSE]
      BY <2>1 DEF ReplyToReplicator
    <3> QED BY <1>1, <1>2, <3>1, <3>2 DEF PositionsOK
  <2>2. CASE UNCHANGED <<partsChan, lastSharedPos, currentTxnPos, replWaits>>
    BY <1>1, <1>2, <2>2 DEF PositionsOK
  <2> QED BY <2>1, <2>2
<1>4. partsChan' \in Seq(Reply) /\ RepliesOK'
  <2>1. CASE ReplyToReplicator(p, clk)
    <3>1. PICK r : r = [part |-> p, from |-> lastSharedPos[p], to |-> currentTxnPos[p], clk |-> clk]
      OBVIOUS
    <3>2. r \in Reply /\ r.part = p /\ r.from = lastSharedPos[p] /\ r.to = currentTxnPos[p]
      BY <1>2, <3>1 DEF Reply
    <3>3. ReplyOK(r)
      BY <1>1, <3>2 DEF ReplyOK, PositionsOK
    <3>4. partsChan' = Append(partsChan, r) /\ log' = log /\ copying' = copying
      BY <2>1, <3>1 DEF ReplyToReplicator, replVars
    <3>5. partsChan' \in Seq(Reply)
      BY <1>2, <3>2, <3>4, AppendFacts
    <3>6. ASSUME NEW i \in 1 .. Len(partsChan')
          PROVE  ReplyOK(partsChan[i])'
      <4>1. CASE i \in 1 .. Len(partsChan)
        <5>1. partsChan'[i] = partsChan[i]
          BY <1>2, <3>2, <3>4, <4>1, AppendFacts
        <5> QED BY <1>1, <3>4, <4>1, <5>1 DEF RepliesOK, ReplyOK
      <4>2. CASE i = Len(partsChan) + 1
        <5>1. partsChan'[i] = r
          BY <1>2, <3>2, <3>4, <4>2, AppendFacts
        <5> QED BY <3>3, <3>4, <5>1 DEF ReplyOK
      <4> QED BY <1>2, <3>2, <3>4, <4>1, <4>2, AppendFacts
    <3>7. ReplyOK(copying)'
      BY <1>1, <3>4 DEF RepliesOK, ReplyOK
    <3> QED BY <3>5, <3>6, <3>7 DEF RepliesOK
  <2>2. CASE UNCHANGED <<partsChan, lastSharedPos, currentTxnPos, replWaits>>
    BY <1>1, <1>2, <2>2 DEF RepliesOK, ReplyOK, replVars
  <2> QED BY <2>1, <2>2
<1>5. TypeOK'
  BY <1>1, <1>3, <1>4 DEF TypeOK, LogTypeOK, logVars, replVars
<1>6. SlotsOK' /\ CachesOK' /\ PhaseOK'
  BY <1>1 DEF SlotsOK, CachesOK, CacheOK, PhaseOK, replVars
<1>7. DecidedOK'
  BY DecisionsStay DEF logVars
<1> QED BY <1>3, <1>4, <1>5, <1>6, <1>7 DEF ShipInv

\* handleMatClkRequest and handleClkTimeoutRequest
LEMMA AnswersType ==
    ASSUME ShipInv, NEW p \in Partitions, HandleMatClkRequest(p) \/ HandleClkTimeoutRequest(p)
    PROVE  ShipInv'
<1>1. timerOn \in [Partitions -> BOOLEAN]
  BY DEF ShipInv, TypeOK
<1>2. CASE HandleMatClkRequest(p)
  <2>1. Head(inbox[p]).clk \in Clock /\ inbox' \in [Partitions -> Seq(LoggerMsg)]
    BY <1>2, HandlesFacts, MessageFacts DEF HandleMatClkRequest
  <2>2. timerOn' \in [Partitions -> BOOLEAN]
    BY <1>1, <1>2 DEF HandleMatClkRequest
  <2>3. /\ UNCHANGED <<logVars, safeReqs, log, fired, replVars, nTimeouts>>
        /\ \/ ReplyToReplicator(p, Head(inbox[p]).clk)
           \/ UNCHANGED <<partsChan, lastSharedPos, currentTxnPos, replWaits>>
    BY <1>2 DEF HandleMatClkRequest
  <2> QED BY <2>1, <2>2, <2>3, AnswerType
<1>3. CASE HandleClkTimeoutRequest(p)
  <2>1. inbox' \in [Partitions -> Seq(LoggerMsg)]
    BY <1>3, HandlesFacts DEF HandleClkTimeoutRequest
  <2>2. /\ timerOn' \in [Partitions -> BOOLEAN]
        /\ UNCHANGED <<logVars, safeReqs, log, fired, replVars, nTimeouts>>
    BY <1>1, <1>3 DEF HandleClkTimeoutRequest
  <2>3. CASE lastSharedPos[p] # currentTxnPos[p] /\ ReplyToReplicator(p, log[p][currentTxnPos[p]].clk)
    <3>1. /\ lastSharedPos[p] \in Nat /\ currentTxnPos[p] \in Nat
          /\ lastSharedPos[p] <= currentTxnPos[p] /\ currentTxnPos[p] <= Len(log[p])
          /\ log[p] \in Seq(Entry)
      BY DEF ShipInv, TypeOK, PositionsOK
    <3>2. currentTxnPos[p] \in 1 .. Len(log[p])
      BY <2>3, <3>1
    <3>3. log[p][currentTxnPos[p]].clk \in Clock
      <4>1. log[p][currentTxnPos[p]] \in Entry
        BY <3>1, <3>2
      <4> QED BY <4>1 DEF Entry
    <3> QED BY <2>1, <2>2, <2>3, <3>3, AnswerType
  <2>4. CASE UNCHANGED <<partsChan, lastSharedPos, currentTxnPos, replWaits>>
    <3>1. NewTimestamp \in Clock
      BY DEF NewTimestamp, Clock
    <3> QED BY <2>1, <2>2, <2>4, <3>1, AnswerType
  <2> QED BY <1>3, <2>3, <2>4 DEF HandleClkTimeoutRequest
<1> QED BY <1>2, <1>3

\* sendGroupTxns takes at least one transaction, and those it takes share their dependencies.
LEMMA GroupEndFacts ==
    ASSUME toSend \in Seq(RemoteTxn), toSend # <<>>
    PROVE  /\ GroupEnd \in 1 .. Len(toSend) /\ GroupEnd <= MaxTxnsPerGroup
           /\ \A i \in 1 .. GroupEnd : IsEqualExceptForSelf(toSend[i].clk, toSend[1].clk)
<1> DEFINE most == IF Len(toSend) < MaxTxnsPerGroup THEN Len(toSend) ELSE MaxTxnsPerGroup
           differs == {i \in 1 .. most : ~IsEqualExceptForSelf(toSend[i].clk, toSend[1].clk)}
<1>1. /\ Len(toSend) \in Nat /\ Len(toSend) >= 1 /\ MaxTxnsPerGroup \in Nat /\ MaxTxnsPerGroup >= 1
  BY LogShipConstants
<1>2. most \in 1 .. Len(toSend) /\ most <= MaxTxnsPerGroup
  BY <1>1
<1>3. GroupEnd = IF differs = {} THEN most ELSE (CHOOSE i \in differs : \A j \in differs : i <= j) - 1
  BY DEF GroupEnd
<1>4. IsEqualExceptForSelf(toSend[1].clk, toSend[1].clk)
  BY DEF IsEqualExceptForSelf
<1>5. differs \in SUBSET Nat /\ 1 \notin differs /\ \A i \in differs : i \in 1 .. most
  BY <1>4
<1>6. \A i \in 1 .. most : i \notin differs => IsEqualExceptForSelf(toSend[i].clk, toSend[1].clk)
  OBVIOUS
<1> HIDE DEF most, differs
<1>7. CASE differs = {}
  <2>1. GroupEnd = most
    BY <1>3, <1>7
  <2> QED BY <1>2, <1>6, <1>7, <2>1
<1>8. CASE differs # {}
  <2>1. \E i \in differs : \A j \in differs : i <= j
    BY <1>5, <1>8, LowestNumber
  <2>2. PICK k : k = CHOOSE i \in differs : \A j \in differs : i <= j
    OBVIOUS
  <2>3. k \in differs /\ \A j \in differs : k <= j
    BY <2>1, <2>2
  <2>4. GroupEnd = k - 1
    BY <1>3, <1>8, <2>2
  <2>5. k \in 1 .. most /\ k # 1
    BY <1>5, <2>3
  <2>6. GroupEnd \in 1 .. Len(toSend) /\ GroupEnd <= MaxTxnsPerGroup
    BY <1>1, <1>2, <2>4, <2>5
  <2>7. ASSUME NEW i \in 1 .. GroupEnd
        PROVE  IsEqualExceptForSelf(toSend[i].clk, toSend[1].clk)
    <3>1. i \in 1 .. most /\ ~(k <= i)
      BY <1>2, <2>4, <2>5
    <3> QED BY <1>6, <2>3, <3>1
  <2> QED BY <2>6, <2>7
<1> QED BY <1>7, <1>8

\* What the next n transactions become when they are sent
LEMMA SentItems ==
    ASSUME toSend \in Seq(RemoteTxn), nMsgs \in Nat, NEW n \in 0 .. Len(toSend)
    PROVE  /\ Individually(n) \in Seq(SentItem) /\ Len(Individually(n)) = n
           /\ InGroup(n) \in Seq(SentItem) /\ Len(InGroup(n)) = n
<1>1. ASSUME NEW i \in 1 .. n
      PROVE  toSend[i] \in RemoteTxn /\ toSend[i].clk \in Clock /\ toSend[i].upds \in SUBSET Upd
  <2>1. toSend[i] \in RemoteTxn
    OBVIOUS
  <2> QED BY <2>1 DEF RemoteTxn
<1>2. n \in Nat
  OBVIOUS
<1>3. \A i \in 1 .. n : /\ [kind |-> "txn", msg |-> nMsgs + i, clk |-> toSend[i].clk,
                           upds |-> toSend[i].upds] \in SentItem
                        /\ [kind |-> "group", msg |-> nMsgs + 1, clk |-> toSend[i].clk,
                           upds |-> toSend[i].upds] \in SentItem
  BY <1>1 DEF SentItem
<1>4. Individually(n) \in [1 .. n -> SentItem] /\ InGroup(n) \in [1 .. n -> SentItem]
  BY <1>3 DEF Individually, InGroup
<1> QED BY <1>2, <1>4

\* The variables a step of the replicator after the replies leaves alone
restVars == <<logVars, loggerVars, partsChan, asked, received, copying, nCycles, nTimeouts>>

\* Steps that send
LEMMA SendStepsType ==
    ASSUME ShipInv, SendTxnsIndividually \/ SendGroupTxns \/ SendStableClk
    PROVE  ShipInv'
<1>1. TypeOK /\ LogTypeOK /\ PositionsOK /\ SlotsOK /\ RepliesOK /\ CachesOK /\ PhaseOK
  BY DEF ShipInv, TypeOK
<1>2. UNCHANGED restVars /\ UNCHANGED txnCache
  BY DEF SendTxnsIndividually, SendGroupTxns, SendStableClk, restVars
<1>3. /\ toSend \in Seq(RemoteTxn) /\ nMsgs \in Nat /\ sent \in Seq(SentItem)
      /\ rpc \in {"single", "group", "stable"} /\ Len(toSend) \in Nat /\ Len(sent) \in Nat
  BY <1>1 DEF TypeOK, SendTxnsIndividually, SendGroupTxns, SendStableClk
<1>4. /\ toSend' \in Seq(RemoteTxn) /\ nMsgs' \in Nat /\ sent' \in Seq(SentItem)
      /\ rpc' \in {"group", "stable", "sleep"}
      /\ rpc' = "group" => toSend' # <<>>
      /\ rpc' = "stable" => sent' # <<>>
  <2>1. CASE SendTxnsIndividually
    <3>1. toSend # <<>>
      BY <1>1, <2>1 DEF SendTxnsIndividually, PhaseOK
    <3>2. Individually(Len(toSend)) \in Seq(SentItem) /\ Len(Individually(Len(toSend))) = Len(toSend)
      BY <1>3, SentItems
    <3>3. PICK s \in Seq(SentItem) : s = Individually(Len(toSend)) /\ Len(s) = Len(toSend)
      BY <3>2
    <3>4. Len(s) >= 1
      BY <1>3, <3>1, <3>3
    <3>5. sent \o s \in Seq(SentItem) /\ sent \o s # <<>>
      BY <1>3, <3>4
    <3>6. /\ sent' = sent \o s /\ nMsgs' = nMsgs + Len(toSend) /\ toSend' = <<>> /\ rpc' = "stable"
      BY <2>1, <3>3 DEF SendTxnsIndividually
    <3> QED BY <1>3, <3>5, <3>6
  <2>2. CASE SendGroupTxns
    <3>1. toSend # <<>>
      BY <1>1, <2>2 DEF SendGroupTxns, PhaseOK
    <3>2. PICK n \in 1 .. Len(toSend) : n = GroupEnd
      BY <1>3, <3>1, GroupEndFacts
    <3>3. /\ Individually(n) \in Seq(SentItem) /\ Len(Individually(n)) = n
          /\ InGroup(n) \in Seq(SentItem) /\ Len(InGroup(n)) = n
      BY <1>3, SentItems
    <3>4. PICK s \in Seq(SentItem), k \in Nat : Len(s) = n /\ sent' = sent \o s /\ nMsgs' = nMsgs + k
      <4>0. n \in Nat /\ 1 \in Nat
        OBVIOUS
      <4>1. \/ sent' = sent \o Individually(n) /\ nMsgs' = nMsgs + n
            \/ sent' = sent \o InGroup(n) /\ nMsgs' = nMsgs + 1
        BY <2>2, <3>2 DEF SendGroupTxns
      <4> QED BY <3>3, <4>0, <4>1, Zenon
    <3>5. sent \o s \in Seq(SentItem) /\ sent \o s # <<>>
      BY <1>3, <3>4
    <3>6. /\ toSend' = SubSeq(toSend, n + 1, Len(toSend))
          /\ rpc' = IF n = Len(toSend) THEN "stable" ELSE "group"
      BY <2>2, <3>2 DEF SendGroupTxns
    <3>7. SubSeq(toSend, n + 1, Len(toSend)) \in Seq(RemoteTxn)
      BY <1>3
    <3>8. n # Len(toSend) => SubSeq(toSend, n + 1, Len(toSend)) # <<>>
      <4>1. Len(SubSeq(toSend, n + 1, Len(toSend))) = Len(toSend) - n
        BY <1>3
      <4>2. n # Len(toSend) => Len(toSend) - n # 0
        BY <1>3
      <4>3. Len(<<>>) = 0
        OBVIOUS
      <4> QED BY <4>1, <4>2, <4>3
    <3> QED BY <1>3, <3>4, <3>5, <3>6, <3>7, <3>8
  <2>3. CASE SendStableClk
    <3>1. sent # <<>> /\ rpc = "stable"
      BY <1>1, <2>3 DEF SendStableClk, PhaseOK
    <3>2. sent[Len(sent)] \in SentItem
      BY <1>3, <3>1
    <3>3. UpdateForcedPos(NewTimestamp, Self, sent[Len(sent)].clk[Self]) \in Clock
      BY <3>2, LogShipConstants DEF UpdateForcedPos, NewTimestamp, Clock, SentItem
    <3>4. PICK x \in SentItem : sent' = Append(sent, x)
      BY <1>3, <2>3, <3>3 DEF SendStableClk, SentItem
    <3>5. sent' \in Seq(SentItem)
      BY <1>3, <3>4
    <3> QED BY <1>3, <2>3, <3>5 DEF SendStableClk
  <2> QED BY <2>1, <2>2, <2>3
<1>5. TypeOK'
  BY <1>1, <1>2, <1>4 DEF TypeOK, LogTypeOK, logVars, loggerVars, restVars
<1>6. PositionsOK' /\ SlotsOK'
  BY <1>1, <1>2 DEF PositionsOK, SlotsOK, restVars, loggerVars
<1>7. RepliesOK'
  BY <1>1, <1>2 DEF RepliesOK, ReplyOK, restVars, loggerVars
<1>8. CachesOK'
  BY <1>1, <1>2, <1>3, <1>4 DEF CachesOK, CacheOK, restVars
<1>9. PhaseOK'
  BY <1>4 DEF PhaseOK
<1>10. DecidedOK'
  BY <1>2, DecisionsStay DEF restVars, logVars
<1> QED BY <1>5, <1>6, <1>7, <1>8, <1>9, <1>10 DEF ShipInv

\* getNewTxns asks, and replicateCycle starts again.
LEMMA CycleStepsType ==
    ASSUME ShipInv, AskPartition \/ NextCycle
    PROVE  ShipInv'
<1>1. TypeOK /\ LogTypeOK /\ PositionsOK /\ SlotsOK /\ RepliesOK /\ CachesOK /\ PhaseOK
  BY DEF ShipInv, TypeOK
<1>2. NParts \in Nat /\ NParts >= 1 /\ Partitions = 0 .. (NParts - 1)
  BY PartitionLogConstants DEF Partitions
<1>3. /\ inbox \in [Partitions -> Seq(LoggerMsg)] /\ asked \in 0 .. NParts
      /\ received \in 0 .. NParts /\ nCycles \in Nat
  BY <1>1 DEF TypeOK
<1>4. /\ UNCHANGED <<logVars, safeReqs, log, lastSharedPos, currentTxnPos, replWaits, timerOn,
                     fired, partsChan, copying, txnCache, toSend, sent, nMsgs, nTimeouts>>
      /\ rpc \in {"ask", "sleep"}
  BY DEF AskPartition, NextCycle, loggerVars
<1>5. /\ inbox' \in [Partitions -> Seq(LoggerMsg)] /\ asked' \in 0 .. NParts
      /\ received' \in 0 .. NParts /\ nCycles' \in Nat /\ rpc' \in {"ask", "collect"}
      /\ received' = 0 /\ (rpc' = "ask" => asked' < NParts)
  <2>1. CASE AskPartition
    <3>1. asked \in Partitions /\ received = 0
      BY <1>1, <1>2, <1>3, <2>1 DEF AskPartition, PhaseOK
    <3>2. PICK m \in LoggerMsg : inbox' = [inbox EXCEPT ![asked] = Append(inbox[asked], m)]
      BY <2>1, NewMessages DEF AskPartition
    <3>3. inbox' \in [Partitions -> Seq(LoggerMsg)]
      BY <1>3, <3>1, <3>2
    <3>4. /\ asked' = asked + 1 /\ received' = received /\ nCycles' = nCycles
          /\ rpc' = IF asked + 1 = NParts THEN "collect" ELSE "ask"
      BY <2>1 DEF AskPartition
    <3> QED BY <1>2, <1>3, <3>1, <3>3, <3>4
  <2>2. CASE NextCycle
    BY <1>2, <1>3, <2>2 DEF NextCycle, loggerVars
  <2> QED BY <2>1, <2>2
<1>6. TypeOK'
  BY <1>1, <1>4, <1>5 DEF TypeOK, LogTypeOK, logVars
<1>7. PositionsOK' /\ SlotsOK'
  BY <1>1, <1>4 DEF PositionsOK, SlotsOK
<1>8. RepliesOK'
  BY <1>1, <1>4 DEF RepliesOK, ReplyOK
<1>9. CachesOK'
  BY <1>1, <1>4, <1>5 DEF CachesOK, CacheOK
<1>10. PhaseOK'
  BY <1>2, <1>5 DEF PhaseOK
<1>11. DecidedOK'
  BY <1>4, DecisionsStay DEF logVars
<1> QED BY <1>6, <1>7, <1>8, <1>9, <1>10, <1>11 DEF ShipInv

\* The previous stable clock leaves the cache.
LEMMA WithoutLastFacts ==
    ASSUME NEW S, NEW s \in Seq(S), s # <<>>
    PROVE  /\ WithoutLast(s) \in Seq(S) /\ Len(s) \in Nat /\ Len(s) >= 1
           /\ Len(WithoutLast(s)) = Len(s) - 1
           /\ \A i \in 1 .. (Len(s) - 1) : WithoutLast(s)[i] = s[i]
<1>1. Len(s) \in Nat /\ Len(s) >= 1
  OBVIOUS
<1>2. PICK n \in Nat : n = Len(s) - 1
  BY <1>1
<1>3. WithoutLast(s) = SubSeq(s, 1, n)
  BY <1>2 DEF WithoutLast
<1>4. SubSeq(s, 1, n) \in Seq(S) /\ Len(SubSeq(s, 1, n)) = n
  BY <1>1, <1>2
<1>5. \A i \in 1 .. n : SubSeq(s, 1, n)[i] = s[i]
  BY <1>1, <1>2
<1> QED BY <1>1, <1>2, <1>3, <1>4, <1>5

\* getNewTxns receives a reply.
LEMMA ReceiveReplyType ==
    ASSUME ShipInv, ReceiveReply
    PROVE  ShipInv'
<1>1. TypeOK /\ LogTypeOK /\ PositionsOK /\ SlotsOK /\ RepliesOK /\ CachesOK /\ PhaseOK
  BY DEF ShipInv, TypeOK
<1>2. /\ partsChan \in Seq(Reply) /\ partsChan # <<>>
      /\ txnCache \in [Partitions -> Seq(Entry)] /\ rpc = "collect" /\ rpc' = "copy"
      /\ copying' = Head(partsChan) /\ partsChan' = Tail(partsChan)
      /\ UNCHANGED <<logVars, loggerVars, asked, received, toSend, sent, nMsgs, nCycles, nTimeouts>>
  BY <1>1 DEF TypeOK, ReceiveReply
<1>3. /\ Tail(partsChan) \in Seq(Reply) /\ Head(partsChan) \in Reply /\ Head(partsChan) = partsChan[1]
      /\ Len(partsChan) \in Nat /\ Len(partsChan) >= 1 /\ Len(Tail(partsChan)) = Len(partsChan) - 1
      /\ \A i \in 1 .. (Len(partsChan) - 1) : Tail(partsChan)[i] = partsChan[i + 1]
  BY <1>2, TailFacts
<1>4. PICK p \in Partitions : p = Head(partsChan).part
  BY <1>3 DEF Reply
<1>5. txnCache' = [txnCache EXCEPT ![p] = WithoutLast(txnCache[p])]
  BY <1>4 DEF ReceiveReply
<1>6. /\ txnCache[p] \in Seq(Entry) /\ txnCache[p] # <<>>
      /\ \A i \in 1 .. (Len(txnCache[p]) - 1) : txnCache[p][i].txn \in Txns
  BY <1>1, <1>2 DEF CachesOK, CacheOK
<1>7. /\ WithoutLast(txnCache[p]) \in Seq(Entry)
      /\ Len(WithoutLast(txnCache[p])) = Len(txnCache[p]) - 1
      /\ \A i \in 1 .. (Len(txnCache[p]) - 1) : WithoutLast(txnCache[p])[i] = txnCache[p][i]
  BY <1>6, WithoutLastFacts
<1>8. TypeOK'
  BY <1>1, <1>2, <1>3, <1>5, <1>7 DEF TypeOK, LogTypeOK, logVars, loggerVars
<1>9. PositionsOK' /\ SlotsOK'
  BY <1>1, <1>2 DEF PositionsOK, SlotsOK, loggerVars
<1>10. RepliesOK'
  <2>1. log' = log /\ copying' = partsChan[1]
    BY <1>2, <1>3 DEF loggerVars
  <2>2. \A i \in 1 .. Len(partsChan) : ReplyOK(partsChan[i])
    BY <1>1 DEF RepliesOK
  <2>3. ReplyOK(copying)'
    BY <1>3, <2>1, <2>2 DEF ReplyOK
  <2>4. ASSUME NEW i \in 1 .. Len(partsChan')
        PROVE  ReplyOK(partsChan[i])'
    <3>1. partsChan'[i] = partsChan[i + 1] /\ i + 1 \in 1 .. Len(partsChan)
      BY <1>2, <1>3
    <3> QED BY <2>1, <2>2, <3>1 DEF ReplyOK
  <2> QED BY <2>3, <2>4 DEF RepliesOK
<1>11. CachesOK'
  <2> SUFFICES ASSUME NEW q \in Partitions
               PROVE  CacheOK(q)'
    BY DEF CachesOK
  <2>1. CASE q = p
    <3>1. copying'.part = q /\ txnCache'[q] = WithoutLast(txnCache[p])
      BY <1>2, <1>4, <1>5, <2>1
    <3>2. \A i \in 1 .. Len(txnCache'[q]) : txnCache'[q][i].txn \in Txns
      BY <1>6, <1>7, <3>1
    <3> QED BY <1>2, <3>1, <3>2 DEF CacheOK
  <2>2. CASE q # p
    <3>1. copying'.part # q /\ txnCache'[q] = txnCache[q]
      BY <1>2, <1>4, <1>5, <2>2
    <3> QED BY <1>1, <1>2, <3>1 DEF CachesOK, CacheOK
  <2> QED BY <2>1, <2>2
<1>12. PhaseOK'
  BY <1>1, <1>2 DEF PhaseOK
<1>13. DecidedOK'
  BY <1>2, DecisionsStay DEF logVars
<1> QED BY <1>8, <1>9, <1>10, <1>11, <1>12, <1>13 DEF ShipInv

\* The slice is copied to the cache, and the stable clock goes last.
LEMMA CopyEntryType ==
    ASSUME ShipInv, CopyEntry
    PROVE  ShipInv'
<1>1. TypeOK /\ LogTypeOK /\ PositionsOK /\ SlotsOK /\ RepliesOK /\ CachesOK /\ PhaseOK
  BY DEF ShipInv, TypeOK
<1>2. /\ copying \in Reply /\ received \in 0 .. NParts /\ rpc = "copy"
      /\ txnCache \in [Partitions -> Seq(Entry)] /\ log \in [Partitions -> Seq(Entry)]
      /\ UNCHANGED <<logVars, loggerVars, partsChan, asked, toSend, sent, nMsgs, nCycles, nTimeouts>>
  BY <1>1 DEF TypeOK, CopyEntry
<1>3. PICK p \in Partitions : p = copying.part
  BY <1>2 DEF Reply
<1>4. /\ copying.from \in Nat /\ copying.to \in Nat /\ copying.clk \in Clock
      /\ copying.from <= copying.to /\ copying.to <= Len(log[p]) /\ Len(log[p]) \in Nat
  BY <1>1, <1>2, <1>3 DEF Reply, RepliesOK, ReplyOK
<1>5. /\ txnCache[p] \in Seq(Entry)
      /\ \A i \in 1 .. Len(txnCache[p]) : txnCache[p][i].txn \in Txns
  BY <1>1, <1>2, <1>3 DEF CachesOK, CacheOK
<1>6. PositionsOK' /\ SlotsOK'
  BY <1>1, <1>2 DEF PositionsOK, SlotsOK, loggerVars
<1>7. DecidedOK'
  BY <1>2, DecisionsStay DEF logVars
<1>8. NParts \in Nat /\ NParts >= 1 /\ 0 \in Partitions
  BY PartitionLogConstants DEF Partitions
<1>9. CASE copying.from < copying.to
  <2>1. PICK k \in 1 .. Len(log[p]) : k = copying.from + 1
    BY <1>4, <1>9
  <2>2. PICK e \in Entry : e = log[p][k] /\ e.txn \in Txns
    <3>1. log[p][k] \in Entry
      BY <1>2, <2>1
    <3>2. log[p][k].txn \in Txns
      BY <1>1, <2>1 DEF SlotsOK
    <3> QED BY <3>1, <3>2
  <2>3. /\ txnCache' = [txnCache EXCEPT ![p] = Append(txnCache[p], e)]
        /\ copying' = [copying EXCEPT !.from = k] /\ received' = received /\ rpc' = rpc
    BY <1>3, <1>4, <1>9, <2>1, <2>2 DEF CopyEntry
  <2>4. /\ copying' \in Reply /\ copying'.part = p /\ copying'.to = copying.to /\ copying'.from = k
        /\ k \in Nat
    <3>1. k \in Nat
      BY <2>1
    <3> QED BY <1>2, <1>3, <2>3, <3>1 DEF Reply
  <2>5. TypeOK'
    <3>1. txnCache' \in [Partitions -> Seq(Entry)]
      BY <1>2, <1>5, <2>3
    <3> QED BY <1>1, <1>2, <2>3, <2>4, <3>1 DEF TypeOK, LogTypeOK, logVars, loggerVars
  <2>6. RepliesOK'
    <3>1. log' = log /\ partsChan' = partsChan
      BY <1>2 DEF loggerVars
    <3>2. ReplyOK(copying)'
      BY <1>4, <1>9, <2>1, <2>4, <3>1 DEF ReplyOK
    <3> QED BY <1>1, <3>1, <3>2 DEF RepliesOK, ReplyOK
  <2>7. CachesOK'
    <3> SUFFICES ASSUME NEW q \in Partitions
                 PROVE  CacheOK(q)'
      BY DEF CachesOK
    <3>1. CASE q = p
      <4>1. txnCache'[q] = Append(txnCache[p], e)
        BY <1>2, <2>3, <3>1
      <4>2. \A i \in 1 .. Len(txnCache'[q]) : txnCache'[q][i].txn \in Txns
        BY <1>5, <2>2, <4>1, AppendFacts
      <4> QED BY <1>2, <2>3, <2>4, <3>1, <4>2 DEF CacheOK
    <3>2. CASE q # p
      <4>1. txnCache'[q] = txnCache[q]
        BY <1>2, <2>3, <3>2
      <4> QED BY <1>1, <1>3, <2>4, <3>2, <4>1 DEF CachesOK, CacheOK
    <3> QED BY <3>1, <3>2
  <2>8. PhaseOK'
    BY <1>1, <1>2, <2>3 DEF PhaseOK
  <2> QED BY <1>6, <1>7, <2>5, <2>6, <2>7, <2>8 DEF ShipInv
<1>10. CASE copying.from = copying.to
  <2>1. PICK e \in Entry : e = [txn |-> NoTxn, clk |-> copying.clk] /\ e.txn = NoTxn
    <3>1. [txn |-> NoTxn, clk |-> copying.clk] \in Entry
      BY <1>4 DEF Entry
    <3> QED BY <3>1
  <2>2. /\ txnCache' = [txnCache EXCEPT ![p] = Append(txnCache[p], e)]
        /\ copying' = NoReply /\ received' = received + 1
        /\ rpc' = IF received + 1 = NParts THEN "prepare" ELSE "collect"
    BY <1>3, <1>4, <1>10, <2>1 DEF CopyEntry
  <2>3. NewTimestamp \in Clock
    BY DEF NewTimestamp, Clock
  <2>4. /\ copying' \in Reply /\ copying'.part = 0 /\ copying'.to = 0 /\ copying'.from = 0
    BY <1>8, <2>2, <2>3 DEF NoReply, Reply
  <2>5. /\ received' \in 0 .. NParts /\ rpc' \in {"prepare", "collect"}
        /\ rpc' = "collect" => received' < NParts
    BY <1>1, <1>2, <1>8, <2>2 DEF PhaseOK
  <2>6. TypeOK'
    <3>1. txnCache' \in [Partitions -> Seq(Entry)]
      BY <1>2, <1>5, <2>2
    <3> QED BY <1>1, <1>2, <2>4, <2>5, <3>1 DEF TypeOK, LogTypeOK, logVars, loggerVars
  <2>7. RepliesOK'
    <3>1. log' = log /\ partsChan' = partsChan
      BY <1>2 DEF loggerVars
    <3>2. Len(log[0]) \in Nat
      BY <1>2, <1>8
    <3>3. ReplyOK(copying)'
      BY <2>4, <3>1, <3>2 DEF ReplyOK
    <3> QED BY <1>1, <3>1, <3>3 DEF RepliesOK, ReplyOK
  <2>8. CachesOK'
    <3> SUFFICES ASSUME NEW q \in Partitions
                 PROVE  CacheOK(q)'
      BY DEF CachesOK
    <3>1. CASE q = p
      <4>1. txnCache'[q] = Append(txnCache[p], e)
        BY <1>2, <2>2, <3>1
      <4>2. /\ txnCache'[q] # <<>> /\ txnCache'[q][Len(txnCache'[q])].txn = NoTxn
            /\ \A i \in 1 .. (Len(txnCache'[q]) - 1) : txnCache'[q][i].txn \in Txns
        BY <1>5, <2>1, <4>1, AppendFacts
      <4> QED BY <2>5, <4>2 DEF CacheOK
    <3>2. CASE q # p
      <4>1. txnCache'[q] = txnCache[q]
        BY <1>2, <2>2, <3>2
      <4> QED BY <1>1, <1>3, <2>5, <3>2, <4>1 DEF CachesOK, CacheOK
    <3> QED BY <3>1, <3>2
  <2>9. PhaseOK'
    BY <2>5 DEF PhaseOK
  <2> QED BY <1>6, <1>7, <2>6, <2>7, <2>8, <2>9 DEF ShipInv
<1> QED BY <1>4, <1>9, <1>10

\* The merge takes the first entries of some caches, and each of them is a transaction.
LEMMA MergeFacts ==
    ASSUME ShipInv, rpc = "prepare", ~Scan[NParts].stop
    PROVE  /\ Scan[NParts].min \in Clock /\ Scan[NParts].upds \in SUBSET Upd /\ Scan[NParts].upds # {}
           /\ \A u \in Scan[NParts].upds :
                 /\ u.part \in Partitions /\ txnCache[u.part][1].txn \in Txns
                 /\ Scan[NParts].min = txnCache[u.part][1].clk
<1>1. CachesRead
  BY DEF ShipInv, TypeOK, CachesOK, CacheOK, CachesRead
<1>2. FoundOK(Scan[NParts]) /\ Scan[NParts].upds # {}
  BY <1>1, ScanFound
<1>3. Scan[NParts] \in ScanResult
  BY <1>2 DEF FoundOK
<1>4. Scan[NParts].min \in Clock /\ Scan[NParts].upds \in SUBSET Heads
  BY <1>3 DEF ScanResult
<1>5. ASSUME NEW u \in Scan[NParts].upds
      PROVE  /\ u \in Upd /\ u.part \in Partitions /\ txnCache[u.part][1].txn \in Txns
             /\ Scan[NParts].min = txnCache[u.part][1].clk
  <2>1. u \in Heads
    BY <1>4
  <2>2. /\ u.txn = txnCache[u.part][1].txn /\ Scan[NParts].min = txnCache[u.part][1].clk
        /\ u.txn # NoTxn
    BY <1>2 DEF FoundOK
  <2>3. u.part \in Partitions /\ u.txn \in Txns
    BY <2>1, <2>2 DEF Heads
  <2>4. u \in Upd
    BY <2>1, <2>3 DEF Heads, Upd
  <2> QED BY <2>2, <2>3, <2>4
<1> QED BY <1>2, <1>4, <1>5

\* preparateDataToSend
LEMMA PrepareType ==
    ASSUME ShipInv, PrepareDataToSend
    PROVE  ShipInv'
<1>1. TypeOK /\ LogTypeOK /\ PositionsOK /\ SlotsOK /\ RepliesOK /\ CachesOK /\ PhaseOK
  BY DEF ShipInv, TypeOK
<1>2. /\ rpc = "prepare" /\ txnCache \in [Partitions -> Seq(Entry)] /\ toSend \in Seq(RemoteTxn)
      /\ UNCHANGED <<logVars, loggerVars, partsChan, asked, received, copying, sent, nMsgs, nCycles,
                     nTimeouts>>
  BY <1>1 DEF TypeOK, PrepareDataToSend
<1>3. PositionsOK' /\ SlotsOK'
  BY <1>1, <1>2 DEF PositionsOK, SlotsOK, loggerVars
<1>4. RepliesOK'
  BY <1>1, <1>2 DEF RepliesOK, ReplyOK, loggerVars
<1>5. DecidedOK'
  BY <1>2, DecisionsStay DEF logVars
<1>6. CASE ~Scan[NParts].stop
  <2>1. PICK s : s = Scan[NParts]
    OBVIOUS
  <2>2. /\ s.min \in Clock /\ s.upds \in SUBSET Upd
        /\ \A u \in s.upds : u.part \in Partitions /\ txnCache[u.part][1].txn \in Txns
    BY <1>2, <1>6, <2>1, MergeFacts
  <2>3. PICK updated : updated = {u.part : u \in s.upds}
    OBVIOUS
  <2>4. /\ toSend' = Append(toSend, [clk |-> s.min, upds |-> s.upds])
        /\ txnCache' = [p \in Partitions |-> IF p \in updated THEN Tail(txnCache[p]) ELSE txnCache[p]]
        /\ rpc' = rpc
    BY <1>6, <2>1, <2>3 DEF PrepareDataToSend
  <2>5. toSend' \in Seq(RemoteTxn)
    <3>1. [clk |-> s.min, upds |-> s.upds] \in RemoteTxn
      BY <2>2 DEF RemoteTxn
    <3> QED BY <1>2, <2>4, <3>1, AppendFacts
  <2>6. ASSUME NEW p \in Partitions
        PROVE  txnCache'[p] \in Seq(Entry) /\ CacheOK(p)'
    <3>1. /\ txnCache[p] \in Seq(Entry) /\ txnCache[p] # <<>>
          /\ txnCache[p][Len(txnCache[p])].txn = NoTxn
          /\ \A i \in 1 .. (Len(txnCache[p]) - 1) : txnCache[p][i].txn \in Txns
      BY <1>1, <1>2 DEF CachesOK, CacheOK
    <3>2. CASE p \in updated
      <4>1. PICK c \in Seq(Entry) : c = txnCache[p]
        BY <3>1
      <4>2. c[1].txn \in Txns
        BY <2>2, <2>3, <3>2, <4>1
      <4>3. c # <<>> /\ c[Len(c)].txn = NoTxn /\ \A i \in 1 .. (Len(c) - 1) : c[i].txn \in Txns
        BY <3>1, <4>1
      <4>4. /\ Tail(c) \in Seq(Entry) /\ Len(c) \in Nat /\ Len(c) >= 1 /\ Len(Tail(c)) = Len(c) - 1
            /\ \A i \in 1 .. (Len(c) - 1) : Tail(c)[i] = c[i + 1]
        BY <4>3, TailFacts
      <4>5. Len(c) # 1
        BY <4>2, <4>3, PartitionLogConstants
      <4>6. Tail(c)[Len(c) - 1] = c[Len(c)] /\ Tail(c) # <<>>
        <5>1. Len(c) - 1 \in 1 .. (Len(c) - 1) /\ (Len(c) - 1) + 1 = Len(c) /\ Len(Tail(c)) # 0
          BY <4>4, <4>5
        <5>2. Tail(c)[Len(c) - 1] = c[(Len(c) - 1) + 1]
          BY <4>4, <5>1
        <5>3. Len(<<>>) = 0
          OBVIOUS
        <5> QED BY <5>1, <5>2, <5>3
      <4>7. \A i \in 1 .. (Len(Tail(c)) - 1) : Tail(c)[i].txn \in Txns
        BY <4>3, <4>4
      <4>8. txnCache'[p] = Tail(c)
        BY <2>4, <3>2, <4>1
      <4> QED BY <1>2, <2>4, <4>3, <4>4, <4>6, <4>7, <4>8 DEF CacheOK
    <3>3. CASE p \notin updated
      <4>1. txnCache'[p] = txnCache[p]
        BY <2>4, <3>3
      <4> QED BY <1>2, <2>4, <3>1, <4>1 DEF CacheOK
    <3> QED BY <3>2, <3>3
  <2>7. txnCache' \in [Partitions -> Seq(Entry)] /\ CachesOK'
    BY <2>4, <2>6 DEF CachesOK
  <2>8. TypeOK'
    BY <1>1, <1>2, <2>4, <2>5, <2>7 DEF TypeOK, LogTypeOK, logVars, loggerVars
  <2>9. PhaseOK'
    BY <1>2, <2>4 DEF PhaseOK
  <2> QED BY <1>3, <1>4, <1>5, <2>7, <2>8, <2>9 DEF ShipInv
<1>7. CASE Scan[NParts].stop
  <2>1. /\ toSend' = toSend /\ txnCache' = txnCache
        /\ rpc' = IF toSend = <<>> THEN "sleep"
                  ELSE IF Len(toSend) < MinTxnsToGroup THEN "single" ELSE "group"
    BY <1>7 DEF PrepareDataToSend
  <2>2. rpc' \in {"sleep", "single", "group"} /\ (rpc' # "sleep" => toSend' # <<>>)
    BY <2>1
  <2>3. TypeOK'
    BY <1>1, <1>2, <2>1, <2>2 DEF TypeOK, LogTypeOK, logVars, loggerVars
  <2>4. CachesOK'
    BY <1>1, <1>2, <2>1, <2>2 DEF CachesOK, CacheOK
  <2>5. PhaseOK'
    BY <2>2 DEF PhaseOK
  <2> QED BY <1>3, <1>4, <1>5, <2>3, <2>4, <2>5 DEF ShipInv
<1> QED BY <1>6, <1>7

LEMMA ShipInvNext == ShipInv /\ [Next]_vars => ShipInv'
<1> SUFFICES ASSUME ShipInv, [Next]_vars PROVE ShipInv'
  OBVIOUS
<1>1. 0 \in Partitions
  BY PartitionLogConstants DEF Partitions
<1>2. ASSUME NEW t \in Txns, DecideTxn(t) PROVE ShipInv'
  BY <1>1, <1>2, PartitionStepsType
<1>3. ASSUME NEW p \in Partitions, NEW t \in Txns, PartitionCommits(p, t) PROVE ShipInv'
  BY <1>3, PartitionStepsType
<1>4. ASSUME NEW p \in Partitions, PartitionAnswers(p) PROVE ShipInv'
  BY <1>4, PartitionStepsType
<1>5. ASSUME NEW p \in Partitions, Logger(p) PROVE ShipInv'
  BY <1>5, CommitLoggedType, MessageStepsType, AnswersType DEF Logger
<1>6. ASSUME NEW p \in Partitions, TimerFires(p) \/ SendTimeout(p) PROVE ShipInv'
  BY <1>6, MessageStepsType
<1>7. ASSUME Replicator PROVE ShipInv'
  BY <1>7, CycleStepsType, ReceiveReplyType, CopyEntryType, PrepareType, SendStepsType DEF Replicator
<1>8. ASSUME UNCHANGED vars PROVE ShipInv'
  <2>1. TypeOK /\ LogTypeOK
    BY DEF ShipInv, TypeOK
  <2>2. TypeOK'
    BY <1>8, <2>1 DEF vars, logVars, loggerVars, replVars, TypeOK, LogTypeOK
  <2> QED BY <1>8, <2>2, OnlyTypes, DecisionsStay DEF vars, logVars, loggerVars, shipVars
<1> QED BY <1>2, <1>3, <1>4, <1>5, <1>6, <1>7, <1>8 DEF Next

LEMMA Shipping == Spec => []ShipInv
BY ShipInvInit, ShipInvNext, PTL DEF Spec

\* Types, for every number of partitions, transactions and cycles (logger.go, replicator.go).
THEOREM ShipTypeCorrect == Spec => []TypeOK
<1>1. ShipInv => TypeOK
  BY DEF ShipInv
<1> QED BY <1>1, Shipping, PTL

\* preparateDataToSend always finds a first entry in every cache, and the last one is a stable
\* clock, whatever the loggers answer, and late or not (replicator.go).
THEOREM CachesEndWithClk == Spec => []CacheEndsWithClk
<1>1. ShipInv => CacheEndsWithClk
  BY DEF ShipInv, CachesOK, CacheOK, CacheEndsWithClk
<1> QED BY <1>1, Shipping, PTL

-----------------------------------------------------------------------------
(* Groups *)

\* Concatenation, entry by entry.
LEMMA ConcatFacts ==
    ASSUME NEW S, NEW s \in Seq(S), NEW t \in Seq(S)
    PROVE  /\ s \o t \in Seq(S) /\ Len(s) \in Nat /\ Len(t) \in Nat /\ Len(s \o t) = Len(s) + Len(t)
           /\ \A i \in 1 .. Len(s) : (s \o t)[i] = s[i]
           /\ \A i \in 1 .. Len(t) : (s \o t)[Len(s) + i] = t[i]
           /\ \A i \in 1 .. Len(s \o t) : i \in 1 .. Len(s) \/ \E k \in 1 .. Len(t) : i = Len(s) + k
<1>1. Len(s) \in Nat /\ Len(t) \in Nat /\ s \o t \in Seq(S) /\ Len(s \o t) = Len(s) + Len(t)
  OBVIOUS
<1>2. \A i \in 1 .. Len(s) : (s \o t)[i] = s[i]
  OBVIOUS
<1>3. \A i \in 1 .. Len(t) : (s \o t)[Len(s) + i] = t[i]
  BY <1>1
<1>4. ASSUME NEW i \in 1 .. Len(s \o t), i \notin 1 .. Len(s)
      PROVE  \E k \in 1 .. Len(t) : i = Len(s) + k
  <2>1. i - Len(s) \in 1 .. Len(t) /\ i = Len(s) + (i - Len(s))
    BY <1>1, <1>4
  <2> QED BY <2>1
<1> QED BY <1>1, <1>2, <1>3, <1>4

\* Messages are numbered upwards.
Numbered == \A i \in 1 .. Len(sent) : sent[i].msg <= nMsgs

GroupInv == Numbered /\ GroupsShareDependencies

\* What the transactions of one message have in common
SameMessage(s, i, j) ==
    /\ s[i].kind = "group" /\ s[j].kind = "group"
    /\ j - i < MaxTxnsPerGroup
    /\ IsEqualExceptForSelf(s[i].clk, s[j].clk)

\* Messages with new numbers keep it.
LEMMA NewMessagesGrouped ==
    ASSUME GroupInv, sent \in Seq(SentItem), nMsgs \in Nat, nMsgs' \in Nat, nMsgs <= nMsgs',
           NEW s \in Seq(SentItem), sent' = sent \o s,
           \A i \in 1 .. Len(s) : s[i].msg > nMsgs /\ s[i].msg <= nMsgs',
           \A i, j \in 1 .. Len(s) : i < j /\ s[i].msg = s[j].msg => SameMessage(s, i, j)
    PROVE  GroupInv'
<1>1. /\ Len(sent) \in Nat /\ Len(s) \in Nat /\ Len(sent') = Len(sent) + Len(s)
      /\ \A i \in 1 .. Len(sent) : sent'[i] = sent[i]
      /\ \A i \in 1 .. Len(s) : sent'[Len(sent) + i] = s[i]
      /\ \A i \in 1 .. Len(sent') : i \in 1 .. Len(sent) \/ \E k \in 1 .. Len(s) : i = Len(sent) + k
  BY ConcatFacts
<1>2. \A i \in 1 .. Len(sent) : sent[i].msg \in Nat /\ sent[i].msg <= nMsgs
  <2>1. \A i \in 1 .. Len(sent) : sent[i] \in SentItem
    OBVIOUS
  <2> QED BY <2>1 DEF GroupInv, Numbered, SentItem
<1>3. \A i \in 1 .. Len(s) : s[i].msg \in Nat
  <2>1. \A i \in 1 .. Len(s) : s[i] \in SentItem
    OBVIOUS
  <2> QED BY <2>1 DEF SentItem
<1>4. Numbered'
  <2> SUFFICES ASSUME NEW i \in 1 .. Len(sent')
               PROVE  sent'[i].msg <= nMsgs'
    BY DEF Numbered
  <2>1. CASE i \in 1 .. Len(sent)
    BY <1>1, <1>2, <2>1
  <2>2. ASSUME NEW k \in 1 .. Len(s), i = Len(sent) + k PROVE sent'[i].msg <= nMsgs'
    BY <1>1, <2>2
  <2> QED BY <1>1, <2>1, <2>2
<1>5. GroupsShareDependencies'
  <2> SUFFICES ASSUME NEW i \in 1 .. Len(sent'), NEW j \in 1 .. Len(sent'), i < j,
                      sent'[i].msg = sent'[j].msg
               PROVE  SameMessage(sent', i, j)
    BY DEF GroupsShareDependencies, SameMessage
  <2>1. CASE i \in 1 .. Len(sent) /\ j \in 1 .. Len(sent)
    <3>1. sent'[i] = sent[i] /\ sent'[j] = sent[j]
      BY <1>1, <2>1
    <3> QED BY <2>1, <3>1 DEF GroupInv, GroupsShareDependencies, SameMessage
  <2>2. ASSUME i \in 1 .. Len(sent), NEW k \in 1 .. Len(s), j = Len(sent) + k
        PROVE  SameMessage(sent', i, j)
    <3>1. sent'[i] = sent[i] /\ sent'[j] = s[k]
      BY <1>1, <2>2
    <3> QED BY <1>2, <1>3, <2>2, <3>1
  <2>3. ASSUME NEW h \in 1 .. Len(s), i = Len(sent) + h, NEW k \in 1 .. Len(s), j = Len(sent) + k
        PROVE  SameMessage(sent', i, j)
    <3>1. sent'[i] = s[h] /\ sent'[j] = s[k] /\ h < k /\ j - i = k - h
      BY <1>1, <2>3, SMTT(60)
    <3>2. SameMessage(s, h, k)
      BY <3>1
    <3> QED BY <3>1, <3>2 DEF SameMessage
  <2>4. j \in 1 .. Len(sent) => i \in 1 .. Len(sent)
    BY <1>1
  <2> QED BY <1>1, <2>1, <2>2, <2>3, <2>4
<1> QED BY <1>4, <1>5 DEF GroupInv

LEMMA GroupInvNext == ShipInv /\ GroupInv /\ [Next]_vars => GroupInv'
<1> SUFFICES ASSUME ShipInv, GroupInv, [Next]_vars PROVE GroupInv'
  OBVIOUS
<1>1. /\ toSend \in Seq(RemoteTxn) /\ nMsgs \in Nat /\ sent \in Seq(SentItem)
      /\ Len(toSend) \in Nat /\ Len(sent) \in Nat
  BY DEF ShipInv, TypeOK
<1>2. ASSUME NEW n \in 1 .. Len(toSend), sent' = sent \o Individually(n), nMsgs' = nMsgs + n
      PROVE  GroupInv'
  <2>0. n \in 0 .. Len(toSend)
    BY <1>1
  <2>1. PICK s \in Seq(SentItem) : s = Individually(n) /\ Len(s) = n
    BY <1>1, <2>0, SentItems
  <2>2. \A i \in 1 .. n : s[i].msg = nMsgs + i
    BY <2>1 DEF Individually
  <2>3. \A i \in 1 .. Len(s) : s[i].msg > nMsgs /\ s[i].msg <= nMsgs'
    BY <1>1, <1>2, <2>1, <2>2
  <2>4. ASSUME NEW i \in 1 .. Len(s), NEW j \in 1 .. Len(s), i < j
        PROVE  s[i].msg # s[j].msg
    <3>1. s[i].msg = nMsgs + i /\ s[j].msg = nMsgs + j
      BY <2>1, <2>2
    <3>2. nMsgs + i # nMsgs + j
      BY <1>1, <2>4
    <3> QED BY <3>1, <3>2
  <2>5. nMsgs' \in Nat /\ nMsgs <= nMsgs'
    BY <1>1, <1>2
  <2> QED BY <1>1, <1>2, <2>1, <2>3, <2>4, <2>5, NewMessagesGrouped
<1>3. ASSUME sent' = sent \o InGroup(GroupEnd), nMsgs' = nMsgs + 1, toSend # <<>>
      PROVE  GroupInv'
  <2>1. PICK n \in 1 .. Len(toSend) :
           /\ n = GroupEnd /\ n <= MaxTxnsPerGroup
           /\ \A i \in 1 .. n : IsEqualExceptForSelf(toSend[i].clk, toSend[1].clk)
    BY <1>1, <1>3, GroupEndFacts
  <2>2. PICK s \in Seq(SentItem) : s = InGroup(n) /\ Len(s) = n
    BY <1>1, SentItems
  <2>3. \A i \in 1 .. n : /\ s[i].msg = nMsgs + 1 /\ s[i].kind = "group" /\ s[i].clk = toSend[i].clk
    BY <2>2 DEF InGroup
  <2>4. \A i \in 1 .. Len(s) : s[i].msg > nMsgs /\ s[i].msg <= nMsgs'
    BY <1>1, <1>3, <2>2, <2>3
  <2>5. ASSUME NEW i \in 1 .. Len(s), NEW j \in 1 .. Len(s)
        PROVE  SameMessage(s, i, j)
    <3>1. s[i].kind = "group" /\ s[j].kind = "group"
      BY <2>2, <2>3
    <3>2. j - i < MaxTxnsPerGroup
      BY <2>1, <2>2, LogShipConstants
    <3>3. IsEqualExceptForSelf(s[i].clk, s[j].clk)
      BY <2>1, <2>2, <2>3 DEF IsEqualExceptForSelf
    <3> QED BY <3>1, <3>2, <3>3 DEF SameMessage
  <2>6. nMsgs' \in Nat /\ nMsgs <= nMsgs'
    BY <1>1, <1>3
  <2> QED BY <1>1, <1>3, <2>1, <2>2, <2>4, <2>5, <2>6, NewMessagesGrouped
<1>4. CASE SendTxnsIndividually
  <2>1. toSend # <<>> /\ sent' = sent \o Individually(Len(toSend)) /\ nMsgs' = nMsgs + Len(toSend)
    BY <1>4 DEF SendTxnsIndividually, ShipInv, PhaseOK
  <2>2. Len(toSend) \in 1 .. Len(toSend)
    BY <1>1, <2>1
  <2> QED BY <1>2, <2>1, <2>2
<1>5. CASE SendGroupTxns
  <2>1. toSend # <<>>
    BY <1>5 DEF SendGroupTxns, ShipInv, PhaseOK
  <2>2. GroupEnd \in 1 .. Len(toSend)
    BY <1>1, <2>1, GroupEndFacts
  <2> QED BY <1>2, <1>3, <1>5, <2>1, <2>2 DEF SendGroupTxns
<1>6. CASE SendStableClk
  <2>1. PICK x : /\ sent' = Append(sent, x) /\ x.msg = nMsgs + 1 /\ nMsgs' = nMsgs + 1
    BY <1>6 DEF SendStableClk
  <2>2. sent' \in Seq(SentItem) /\ Len(sent') = Len(sent) + 1
    <3>1. sent' \in Seq(SentItem)
      BY <1>6, SendStepsType DEF ShipInv, TypeOK
    <3> QED BY <1>1, <2>1, <3>1
  <2>3. x \in SentItem
    <3>1. sent'[Len(sent) + 1] = x
      BY <1>1, <2>1
    <3>2. Len(sent) + 1 \in 1 .. Len(sent')
      BY <1>1, <2>2
    <3> QED BY <2>2, <3>1, <3>2
  <2>4. <<x>> \in Seq(SentItem) /\ Len(<<x>>) = 1 /\ <<x>>[1] = x
    BY <2>3
  <2>5. sent' = sent \o <<x>>
    BY <1>1, <2>1, <2>3
  <2>6. \A i \in 1 .. Len(<<x>>) : <<x>>[i].msg > nMsgs /\ <<x>>[i].msg <= nMsgs'
    BY <1>1, <2>1, <2>4
  <2>7. \A i, j \in 1 .. Len(<<x>>) : ~(i < j)
    BY <2>4
  <2>8. nMsgs' \in Nat /\ nMsgs <= nMsgs'
    BY <1>1, <2>1
  <2> QED BY <1>1, <2>4, <2>5, <2>6, <2>7, <2>8, NewMessagesGrouped
<1>7. CASE UNCHANGED <<sent, nMsgs>>
  BY <1>7, SMTT(60) DEF GroupInv, Numbered, GroupsShareDependencies
<1>8. SendTxnsIndividually \/ SendGroupTxns \/ SendStableClk \/ UNCHANGED <<sent, nMsgs>>
  BY ZenonT(60) DEF Next, DecideTxn, PartitionCommits, PartitionAnswers, Logger, TimerFires, SendTimeout,
         HandleCommitLogRequest, HandleTxnLogRequest, HandleMatClkRequest, HandleClkTimeoutRequest,
         Replicator, AskPartition, ReceiveReply, CopyEntry, PrepareDataToSend, NextCycle, replVars, vars
<1> QED BY <1>4, <1>5, <1>6, <1>7, <1>8

\* The transactions of a group have the same dependencies and are not more than
\* maxTxnsPerGroup, for every value of the limits (sendGroupTxns, replicator.go).
THEOREM GroupedAlike == Spec => []GroupsShareDependencies
<1>1. Init => GroupInv
  BY DEF Init, GroupInv, Numbered, GroupsShareDependencies
<1>2. GroupInv => GroupsShareDependencies
  BY DEF GroupInv
<1> QED BY <1>1, <1>2, Shipping, GroupInvNext, PTL DEF Spec

-----------------------------------------------------------------------------
(***************************************************************************)
(* The replicator sends the transactions in the order of this replica's    *)
(* position in their timestamps, as long as it copies the loggers' slices  *)
(* before their slots are written again.                                   *)
(***************************************************************************)

-----------------------------------------------------------------------------
(* The order of what is on its way, at the position of this replica *)

\* The timestamps of a server's transactions are comparable: with the commit protocol, the
\* position of this replica orders them and the others follow (CommitOrderProofs).
TimestampsOrdered ==
    \A c, d \in Timestamps : IsLowerOrEqual(c, d) \/ IsLowerOrEqual(d, c)

At(c) == c[Self]

Below(A, B) == \A m \in A, n \in B : m <= n

\* The transactions among the messages q, and the slots from + 1 .. to of an array
Commits(q) == {At(q[i].clk) : i \in {j \in 1 .. Len(q) : q[j].type = "commit"}}
Slots(s, from, to) == {At(s[i].clk) : i \in (from + 1) .. to}
Rising(s, from, to) == \A i, j \in (from + 1) .. to : i < j => At(s[i].clk) <= At(s[j].clk)

\* What p has reached: the numbers up to one p has sent to its logger
Passed(p) == {0} \cup UNION {0 .. At(logChan[p][i].clk) : i \in 1 .. Len(logChan[p])}

\* What p's logger has still to share, what follows the i-th reply from p, and what follows the
\* cache of p
Unshared(p) == Slots(log[p], lastSharedPos[p], currentTxnPos[p])
RepliesAfter(p, i) == {j \in (i + 1) .. Len(partsChan) : partsChan[j].part = p}
After(p, i) ==
    Commits(inbox[p]) \cup Unshared(p)
      \cup UNION {Slots(log[p], partsChan[j].from, partsChan[j].to) : j \in RepliesAfter(p, i)}
CopyingAt(p) == IF copying.part = p THEN Slots(log[p], copying.from, copying.to) ELSE {}
Ahead(p) == After(p, 0) \cup CopyingAt(p)

\* What a partition has still to log is not below what it has sent to its logger.
UnloggedAbove == \A p \in Partitions : \A t \in Unlogged(p) : Below(Passed(p), {At(commitTs[t])})

FromPartition(m) == m.type \in {"commit", "clk"}

\* Nothing in the inbox is above a transaction behind it.
QueueOrder(q, passed) ==
    /\ \A i \in 1 .. Len(q) : FromPartition(q[i]) => At(q[i].clk) \in passed
    /\ \A i, j \in 1 .. Len(q) :
          i < j /\ FromPartition(q[i]) /\ q[j].type = "commit" => At(q[i].clk) <= At(q[j].clk)

InboxOrder(p) == QueueOrder(inbox[p], Passed(p))

LogOrder(p) ==
    /\ \A i \in 1 .. Len(log[p]) : At(log[p][i].clk) \in Passed(p)
    /\ Rising(log[p], lastSharedPos[p], currentTxnPos[p])
    /\ Below(Unshared(p), Commits(inbox[p]))

\* The slice r of s is in order; it and its stable clock are not above what follows.
SliceOrder(s, r, passed, following) ==
    /\ Rising(s, r.from, r.to)
    /\ Below(Slots(s, r.from, r.to), following) /\ Below({At(r.clk)}, following)
    /\ At(r.clk) \in passed

RepliesOrder(p) ==
    /\ \A i \in 1 .. Len(partsChan) :
          partsChan[i].part = p => SliceOrder(log[p], partsChan[i], Passed(p), After(p, i))
    /\ copying.part = p => SliceOrder(log[p], copying, Passed(p), After(p, 0))

CacheAt(c) == {At(c[i].clk) : i \in 1 .. Len(c)}
CacheTxns(c) == {At(c[i].clk) : i \in {j \in 1 .. Len(c) : c[j].txn # NoTxn}}

CacheRising(c) ==
    \A i, j \in 1 .. Len(c) : i < j /\ c[j].txn # NoTxn => At(c[i].clk) <= At(c[j].clk)

CacheOrder(p) ==
    CacheAt(txnCache[p]) \subseteq Passed(p) /\ CacheRising(txnCache[p])
      /\ Below(CacheAt(txnCache[p]), Ahead(p))

\* What has been prepared for sending, or sent
Past == CacheAt(sent) \cup CacheAt(toSend)

PastOrder(p) ==
    Past \subseteq Passed(p) /\ Below(Past, Ahead(p)) /\ Below(Past, CacheTxns(txnCache[p]))

ToSendOrder == Rising(toSend, 0, Len(toSend)) /\ Below(CacheAt(sent), CacheAt(toSend))

WayInv ==
    /\ UnloggedAbove /\ ToSendOrder /\ ShippedInOrder
    /\ \A p \in Partitions :
          InboxOrder(p) /\ LogOrder(p) /\ RepliesOrder(p) /\ CacheOrder(p) /\ PastOrder(p)

\* Every clock on the way is one of the timestamps, or the one a cache starts with.
Known == Timestamps \cup {NewTimestamp}
KnownClks ==
    /\ \A p \in Partitions : /\ \A i \in 1 .. Len(log[p]) : log[p][i].clk \in Known
                             /\ \A i \in 1 .. Len(txnCache[p]) : txnCache[p][i].clk \in Known
    /\ copying.clk \in Known /\ \A i \in 1 .. Len(partsChan) : partsChan[i].clk \in Known

-----------------------------------------------------------------------------
(* The clocks on the way *)

\* The order of clocks
LEMMA ClocksOrdered ==
    ASSUME NEW c \in Clock
    PROVE  /\ IsLowerOrEqual(c, c)
           /\ \A d, e \in Clock : IsLowerOrEqual(c, d) /\ IsLowerOrEqual(d, e) => IsLowerOrEqual(c, e)
           /\ \A d \in Clock : IsLowerOrEqual(c, d) /\ ~IsLower(c, d) => c = d
<1>1. \A d \in Clock : \A r \in Replicas : d[r] \in Nat
  BY DEF Clock
<1>2. IsLowerOrEqual(c, c)
  <2>1. ASSUME NEW r \in Replicas PROVE c[r] <= c[r]
    <3>1. c[r] \in Nat
      BY <1>1
    <3> QED BY <3>1
  <2> QED BY <2>1 DEF IsLowerOrEqual
<1>3. ASSUME NEW d \in Clock, NEW e \in Clock, IsLowerOrEqual(c, d), IsLowerOrEqual(d, e)
      PROVE  IsLowerOrEqual(c, e)
  <2>1. ASSUME NEW r \in Replicas PROVE c[r] <= e[r]
    <3>1. c[r] \in Nat /\ d[r] \in Nat /\ e[r] \in Nat
      BY <1>1
    <3>2. c[r] <= d[r] /\ d[r] <= e[r]
      BY <1>3 DEF IsLowerOrEqual
    <3> QED BY <3>1, <3>2
  <2> QED BY <2>1 DEF IsLowerOrEqual
<1>4. ASSUME NEW d \in Clock, IsLowerOrEqual(c, d), ~IsLower(c, d)
      PROVE  c = d
  <2>1. ASSUME NEW r \in Replicas PROVE c[r] = d[r]
    <3>1. c[r] \in Nat /\ d[r] \in Nat
      BY <1>1
    <3>2. c[r] <= d[r] /\ ~(c[r] < d[r])
      BY <1>4 DEF IsLowerOrEqual, IsLower
    <3> QED BY <3>1, <3>2
  <2> QED BY <2>1 DEF Clock
<1> QED BY <1>2, <1>3, <1>4

LEMMA KnownOrdered ==
    ASSUME TimestampsOrdered, NEW c \in Known, NEW d \in Known
    PROVE  /\ c \in Clock /\ d \in Clock /\ At(c) \in Nat
           /\ IsLowerOrEqual(c, d) \/ IsLowerOrEqual(d, c)
<1>1. NewTimestamp \in Clock /\ Timestamps \subseteq Clock
  BY PartitionLogConstants DEF NewTimestamp, Clock
<1>2. c \in Clock /\ d \in Clock
  BY <1>1 DEF Known
<1>3. At(c) \in Nat
  BY <1>2, LogShipConstants DEF At, Clock
<1>4. ASSUME NEW e \in Clock PROVE IsLowerOrEqual(NewTimestamp, e)
  BY DEF IsLowerOrEqual, NewTimestamp, Clock
<1>5. CASE c \in Timestamps /\ d \in Timestamps
  BY <1>2, <1>3, <1>5 DEF TimestampsOrdered
<1>6. CASE c = NewTimestamp \/ d = NewTimestamp
  BY <1>2, <1>3, <1>4, <1>6
<1> QED BY <1>5, <1>6 DEF Known

LEMMA KnownInit == Init => KnownClks
<1>1. NewTimestamp \in Known
  BY DEF Known
<1> QED BY <1>1 DEF Init, KnownClks, NoReply

\* A logger's step
LEMMA KnownLogger ==
    ASSUME ShipInv, KnownClks, NEW p \in Partitions, Logger(p)
    PROVE  KnownClks'
<1>1. CASE HandleCommitLogRequest(p)
  <2>1. /\ Head(inbox[p]).clk \in Timestamps
    BY <1>1, HandlesFacts, MessageFacts DEF HandleCommitLogRequest
  <2>2. PICK k : k = currentTxnPos[p] + 1
    OBVIOUS
  <2>3. /\ log'[p][k].clk = Head(inbox[p]).clk
        /\ \A i \in 1 .. Len(log'[p]) : i # k => i \in 1 .. Len(log[p]) /\ log'[p][i] = log[p][i]
        /\ \A q \in Partitions \ {p} : log'[q] = log[q]
    <3>1. log'[p][currentTxnPos[p] + 1] = [txn |-> Head(inbox[p]).txn, clk |-> Head(inbox[p]).clk]
      BY <1>1, LogWritten
    <3>2. log'[p][k].clk = Head(inbox[p]).clk
      BY <2>2, <3>1
    <3> QED BY <1>1, <2>2, <3>2, LogWritten
  <2>4. UNCHANGED <<txnCache, copying, partsChan>>
    BY <1>1 DEF HandleCommitLogRequest, replVars
  <2>5. ASSUME NEW q \in Partitions, NEW i \in 1 .. Len(log'[q])
        PROVE  log'[q][i].clk \in Known
    BY <2>1, <2>3 DEF KnownClks, Known
  <2> QED BY <2>4, <2>5 DEF KnownClks
<1>2. ASSUME NEW clk \in Known, ReplyToReplicator(p, clk), UNCHANGED <<log, txnCache, copying>>
      PROVE  KnownClks'
  <2>1. PICK r : /\ r = [part |-> p, from |-> lastSharedPos[p], to |-> currentTxnPos[p], clk |-> clk]
                 /\ r.clk = clk /\ partsChan' = Append(partsChan, r)
    BY <1>2 DEF ReplyToReplicator
  <2>2. partsChan \in Seq(Reply) /\ r \in Reply
    <3>1. clk \in Clock
      BY PartitionLogConstants DEF Known, NewTimestamp, Clock
    <3> QED BY <2>1, <3>1 DEF ShipInv, TypeOK, Reply
  <2>3. \A i \in 1 .. Len(partsChan') : partsChan'[i].clk \in Known
    BY <2>1, <2>2, AppendFacts DEF KnownClks
  <2> QED BY <1>2, <2>3 DEF KnownClks
<1>3. CASE UNCHANGED <<log, txnCache, copying, partsChan>>
  BY <1>3 DEF KnownClks
<1>4. CASE HandleMatClkRequest(p)
  <2>1. Head(inbox[p]).clk \in Known
    BY <1>4, HandlesFacts, MessageFacts DEF HandleMatClkRequest, Known
  <2>2. UNCHANGED <<log, txnCache, copying>>
    BY <1>4 DEF HandleMatClkRequest, replVars
  <2> QED BY <1>2, <1>3, <1>4, <2>1, <2>2 DEF HandleMatClkRequest
<1>5. CASE HandleClkTimeoutRequest(p)
  <2>1. UNCHANGED <<log, txnCache, copying>>
    BY <1>5 DEF HandleClkTimeoutRequest, replVars
  <2>2. CASE lastSharedPos[p] # currentTxnPos[p] /\ ReplyToReplicator(p, log[p][currentTxnPos[p]].clk)
    <3>1. currentTxnPos[p] \in 1 .. Len(log[p])
      BY <2>2 DEF ShipInv, TypeOK, PositionsOK
    <3>2. log[p][currentTxnPos[p]].clk \in Known
      BY <3>1 DEF KnownClks
    <3> QED BY <1>2, <2>1, <2>2, <3>2
  <2>3. CASE UNCHANGED partsChan
    BY <1>3, <2>1, <2>3
  <2> QED BY <1>5, <2>2, <2>3 DEF HandleClkTimeoutRequest
<1>6. CASE HandleTxnLogRequest(p)
  BY <1>3, <1>6 DEF HandleTxnLogRequest, replVars
<1> QED BY <1>1, <1>4, <1>5, <1>6 DEF Logger

\* A step of the replicator
LEMMA KnownReplicator ==
    ASSUME ShipInv, KnownClks, Replicator
    PROVE  KnownClks'
<1>1. /\ partsChan \in Seq(Reply) /\ txnCache \in [Partitions -> Seq(Entry)] /\ copying \in Reply
  BY DEF ShipInv, TypeOK
<1>2. UNCHANGED log
  BY DEF Replicator, AskPartition, ReceiveReply, CopyEntry, PrepareDataToSend, SendTxnsIndividually,
         SendGroupTxns, SendStableClk, NextCycle, loggerVars
<1>3. CASE UNCHANGED <<txnCache, copying, partsChan>>
  BY <1>2, <1>3 DEF KnownClks
<1>4. CASE ReceiveReply
  <2>1. partsChan # <<>> /\ copying' = Head(partsChan) /\ partsChan' = Tail(partsChan)
    BY <1>4 DEF ReceiveReply
  <2>2. PICK p \in Partitions : p = Head(partsChan).part
    <3>1. Head(partsChan) \in Reply
      BY <1>1, <2>1, TailFacts
    <3> QED BY <3>1 DEF Reply
  <2>3. txnCache' = [txnCache EXCEPT ![p] = WithoutLast(txnCache[p])]
    BY <1>4, <2>2 DEF ReceiveReply
  <2>4. txnCache[p] \in Seq(Entry) /\ txnCache[p] # <<>>
    BY <1>1, <1>4 DEF ReceiveReply, ShipInv, CachesOK, CacheOK
  <2>5. \A i \in 1 .. Len(WithoutLast(txnCache[p])) :
            WithoutLast(txnCache[p])[i] = txnCache[p][i] /\ i \in 1 .. Len(txnCache[p])
    BY <2>4, WithoutLastFacts, SMTT(60)
  <2>6. ASSUME NEW q \in Partitions, NEW i \in 1 .. Len(txnCache'[q])
        PROVE  txnCache'[q][i].clk \in Known
    BY <1>1, <2>3, <2>5 DEF KnownClks
  <2>7. copying'.clk \in Known /\ \A i \in 1 .. Len(partsChan') : partsChan'[i].clk \in Known
    BY <1>1, <2>1, TailFacts DEF KnownClks
  <2> QED BY <1>2, <2>6, <2>7 DEF KnownClks
<1>5. CASE CopyEntry
  <2>1. PICK p \in Partitions : p = copying.part
    BY <1>1 DEF Reply
  <2>2. PICK e \in Entry : txnCache' = [txnCache EXCEPT ![p] = Append(txnCache[p], e)] /\ e.clk \in Known
    <3>1. CASE copying.from < copying.to
      <4>1. copying.from + 1 \in 1 .. Len(log[p]) /\ log[p] \in Seq(Entry)
        <5>1. log \in [Partitions -> Seq(Entry)] /\ ReplyOK(copying)
          BY DEF ShipInv, TypeOK, RepliesOK
        <5>2. copying.from \in Nat /\ copying.to \in Nat /\ copying.to <= Len(log[p])
          BY <1>1, <2>1, <5>1 DEF ReplyOK, Reply
        <5>3. log[p] \in Seq(Entry) /\ Len(log[p]) \in Nat
          BY <5>1
        <5> QED BY <3>1, <5>2, <5>3
      <4>2. log[p][copying.from + 1] \in Entry /\ log[p][copying.from + 1].clk \in Known
        BY <4>1 DEF KnownClks
      <4>3. txnCache' = [txnCache EXCEPT ![p] = Append(txnCache[p], log[p][copying.from + 1])]
        BY <1>1, <1>5, <2>1, <3>1 DEF CopyEntry, Reply
      <4> QED BY <4>2, <4>3
    <3>2. CASE copying.from = copying.to
      <4>1. PICK e : e = [txn |-> NoTxn, clk |-> copying.clk]
        OBVIOUS
      <4>2. e \in Entry /\ e.clk \in Known
        BY <1>1, <4>1 DEF Entry, Reply, KnownClks
      <4>3. txnCache' = [txnCache EXCEPT ![p] = Append(txnCache[p], e)]
        BY <1>1, <1>5, <2>1, <3>2, <4>1 DEF CopyEntry, Reply
      <4> QED BY <4>2, <4>3
    <3> QED BY <1>5, <3>1, <3>2 DEF CopyEntry
  <2>3. ASSUME NEW q \in Partitions, NEW i \in 1 .. Len(txnCache'[q])
        PROVE  txnCache'[q][i].clk \in Known
    <3>1. CASE q = p
      <4>1. txnCache[p] \in Seq(Entry) /\ txnCache'[q] = Append(txnCache[p], e)
        BY <1>1, <2>2, <3>1
      <4> QED BY <2>2, <4>1, AppendFacts DEF KnownClks
    <3>2. CASE q # p
      BY <1>1, <2>2, <3>2 DEF KnownClks
    <3> QED BY <3>1, <3>2
  <2>4. copying'.clk \in Known
    <3>1. copying' = NoReply \/ copying' = [copying EXCEPT !.from = copying.from + 1]
      BY <1>5 DEF CopyEntry
    <3>2. NoReply.clk \in Known /\ [copying EXCEPT !.from = copying.from + 1].clk = copying.clk
      BY <1>1 DEF NoReply, Known, Reply
    <3> QED BY <3>1, <3>2 DEF KnownClks
  <2>5. partsChan' = partsChan
    BY <1>5 DEF CopyEntry
  <2> QED BY <1>2, <2>3, <2>4, <2>5 DEF KnownClks
<1>6. CASE PrepareDataToSend
  <2>1. UNCHANGED <<copying, partsChan>>
    BY <1>6 DEF PrepareDataToSend
  <2>2. ASSUME NEW q \in Partitions, NEW i \in 1 .. Len(txnCache'[q])
        PROVE  txnCache'[q][i].clk \in Known
    <3>1. txnCache'[q] = txnCache[q] \/ txnCache'[q] = Tail(txnCache[q])
      BY <1>1, <1>6 DEF PrepareDataToSend
    <3>2. txnCache[q] \in Seq(Entry) /\ txnCache[q] # <<>>
      BY <1>1, <1>6 DEF PrepareDataToSend, ShipInv, CachesOK, CacheOK
    <3>3. \A k \in 1 .. Len(txnCache[q]) : txnCache[q][k].clk \in Known
      BY DEF KnownClks
    <3>4. CASE txnCache'[q] = txnCache[q]
      BY <3>3, <3>4
    <3>5. CASE txnCache'[q] = Tail(txnCache[q])
      <4>1. txnCache'[q][i] = txnCache[q][i + 1] /\ i + 1 \in 1 .. Len(txnCache[q])
        BY <3>2, <3>5, TailFacts
      <4> QED BY <3>3, <4>1
    <3> QED BY <3>1, <3>4, <3>5
  <2> QED BY <1>2, <2>1, <2>2 DEF KnownClks
<1>7. ReceiveReply \/ CopyEntry \/ PrepareDataToSend \/ UNCHANGED <<txnCache, copying, partsChan>>
  BY DEF Replicator, AskPartition, SendTxnsIndividually, SendGroupTxns, SendStableClk, NextCycle
<1> QED BY <1>3, <1>4, <1>5, <1>6, <1>7

LEMMA KnownNext == ShipInv /\ KnownClks /\ [Next]_vars => KnownClks'
<1> SUFFICES ASSUME ShipInv, KnownClks, [Next]_vars PROVE KnownClks'
  OBVIOUS
<1>1. CASE UNCHANGED <<log, txnCache, copying, partsChan>>
  BY <1>1 DEF KnownClks
<1>2. \/ UNCHANGED <<log, txnCache, copying, partsChan>> \/ Replicator
      \/ \E p \in Partitions : Logger(p)
  BY DEF Next, DecideTxn, PartitionCommits, PartitionAnswers, TimerFires, SendTimeout, vars, replVars,
         loggerVars
<1> QED BY <1>1, <1>2, KnownLogger, KnownReplicator

\* The inner loop of preparateDataToSend finds a clock that none of the first entries is below.
LEMMA ScanLowest ==
    ASSUME CachesRead, KnownClks, TimestampsOrdered
    PROVE  \A p \in Partitions : IsLowerOrEqual(Scan[NParts].min, txnCache[p][1].clk)
<1> DEFINE S == {n \in 0 .. NParts :
                    /\ FoundOK(Scan[n]) /\ Scan[n].min \in Known
                    /\ \A p \in 0 .. (n - 1) : IsLowerOrEqual(Scan[n].min, txnCache[p][1].clk)}
<1>0. NParts \in Nat /\ NParts >= 1 /\ Partitions = 0 .. (NParts - 1)
  BY PartitionLogConstants DEF Partitions
<1>1. \A p \in Partitions : txnCache[p][1].clk \in Known
  BY DEF CachesRead, KnownClks
<1>2. 0 \in S
  <2>1. Scan[0] = ScanStart /\ FoundOK(ScanStart)
    BY ScanSteps
  <2>2. ScanStart.min \in Known
    BY <1>0, <1>1 DEF ScanStart
  <2>3. 0 .. (0 - 1) = {} /\ 0 \in 0 .. NParts
    BY <1>0
  <2> QED BY <2>1, <2>2, <2>3
<1>3. ASSUME NEW n \in 0 .. (NParts - 1), n \in S
      PROVE  n + 1 \in S
  <2>1. PICK e : e = txnCache[n][1]
    OBVIOUS
  <2>2. PICK s : s = Scan[n]
    OBVIOUS
  <2>3. PICK r : r = Scan[n + 1]
    OBVIOUS
  <2>4. /\ r = ScanEntry(s, n, e) /\ FoundOK(s) /\ s.min \in Known
        /\ n \in Partitions /\ e \in Entry /\ n + 1 \in 0 .. NParts
        /\ \A p \in 0 .. (n - 1) : IsLowerOrEqual(s.min, txnCache[p][1].clk)
    BY <1>0, <1>3, <2>1, <2>2, <2>3, ScanSteps
  <2>5. /\ FoundOK(r)
        /\ IsLower(e.clk, s.min) \/ s.min = e.clk => r.min = e.clk
        /\ ~(IsLower(e.clk, s.min) \/ s.min = e.clk) => r = s
    BY <2>1, <2>4, ScanEntryFound
  <2>6. e.clk \in Known
    BY <1>1, <2>1, <2>4
  <2>7. e.clk \in Clock /\ s.min \in Clock /\ (IsLowerOrEqual(e.clk, s.min) \/ IsLowerOrEqual(s.min, e.clk))
    BY <2>4, <2>6, KnownOrdered
  <2>8. r.min \in Known /\ IsLowerOrEqual(r.min, e.clk) /\ IsLowerOrEqual(r.min, s.min)
    <3>1. CASE IsLower(e.clk, s.min) \/ s.min = e.clk
      <4>1. IsLowerOrEqual(e.clk, e.clk) /\ (IsLower(e.clk, s.min) => IsLowerOrEqual(e.clk, s.min))
        BY <2>7, ClocksOrdered DEF IsLower, IsLowerOrEqual
      <4> QED BY <2>5, <2>6, <3>1, <4>1
    <3>2. CASE ~(IsLower(e.clk, s.min) \/ s.min = e.clk)
      <4>1. IsLowerOrEqual(s.min, e.clk)
        BY <2>7, <3>2, ClocksOrdered
      <4>2. IsLowerOrEqual(s.min, s.min)
        BY <2>7, ClocksOrdered
      <4> QED BY <2>4, <2>5, <3>2, <4>1, <4>2
    <3> QED BY <3>1, <3>2
  <2>9. ASSUME NEW p \in 0 .. ((n + 1) - 1)
        PROVE  IsLowerOrEqual(r.min, txnCache[p][1].clk)
    <3>1. CASE p = n
      BY <2>1, <2>8, <3>1
    <3>2. CASE p # n
      <4>1. p \in 0 .. (n - 1) /\ p \in Partitions
        BY <1>0, <3>2
      <4>2. IsLowerOrEqual(s.min, txnCache[p][1].clk)
        BY <2>4, <4>1
      <4>3. txnCache[p][1].clk \in Clock /\ r.min \in Clock
        BY <1>1, <2>8, <4>1, KnownOrdered
      <4> QED BY <2>7, <2>8, <4>2, <4>3, ClocksOrdered
    <3> QED BY <3>1, <3>2
  <2> QED BY <2>3, <2>4, <2>5, <2>8, <2>9
<1>4. NParts \in S
  <2> HIDE DEF S
  <2>1. 0 .. NParts \subseteq S
    BY <1>0, <1>2, <1>3, AllReached
  <2> QED BY <1>0, <2>1
<1> QED BY <1>0, <1>4

-----------------------------------------------------------------------------
(* The steps of the partitions and the loggers *)

\* The slots of a slice depend on the array at those places only.
LEMMA SameSlots ==
    ASSUME NEW s, NEW u, NEW from, NEW to, \A i \in (from + 1) .. to : u[i] = s[i]
    PROVE  Slots(u, from, to) = Slots(s, from, to) /\ (Rising(s, from, to) => Rising(u, from, to))
<1>1. Slots(u, from, to) = Slots(s, from, to)
  BY DEF Slots
<1> QED BY <1>1 DEF Rising

\* What the replicator has still to copy
LEMMA SlicesKept ==
    ASSUME CopiedInTime, NEW p \in Partitions
    PROVE  /\ \A i \in 1 .. Len(partsChan) : partsChan[i].part = p =>
                 \A k \in (partsChan[i].from + 1) .. partsChan[i].to : log'[p][k] = log[p][k]
           /\ copying.part = p => \A k \in (copying.from + 1) .. copying.to : log'[p][k] = log[p][k]
BY DEF CopiedInTime

\* The slots of a slice are among those p has passed.
LEMMA SlicePassed ==
    ASSUME ShipInv, NEW p \in Partitions, LogOrder(p), NEW r \in Reply, ReplyOK(r), r.part = p
    PROVE  Slots(log[p], r.from, r.to) \subseteq Passed(p)
<1>1. /\ r.from \in Nat /\ r.to \in Nat /\ r.from <= r.to /\ r.to <= Len(log[p]) /\ Len(log[p]) \in Nat
  BY DEF Reply, ReplyOK, ShipInv, TypeOK
<1>2. \A i \in (r.from + 1) .. r.to : i \in 1 .. Len(log[p])
  BY <1>1
<1> QED BY <1>2 DEF Slots, LogOrder

\* A slice whose slots stay keeps its order, when what follows is not below what p has passed.
LEMMA SliceKept ==
    ASSUME ShipInv, NEW p \in Partitions, LogOrder(p), NEW r \in Reply, ReplyOK(r), r.part = p,
           \A k \in (r.from + 1) .. r.to : log'[p][k] = log[p][k],
           NEW A, NEW B, SliceOrder(log[p], r, Passed(p), A), Passed(p) \subseteq Passed(p)',
           \A n \in B : n \in A \/ Below(Passed(p), {n})
    PROVE  SliceOrder(log'[p], r, Passed(p)', B)
<1>1. /\ Slots(log'[p], r.from, r.to) = Slots(log[p], r.from, r.to)
      /\ Rising(log[p], r.from, r.to) => Rising(log'[p], r.from, r.to)
  BY SameSlots
<1>2. Slots(log[p], r.from, r.to) \subseteq Passed(p)
  BY SlicePassed
<1>3. Below(Slots(log[p], r.from, r.to), B) /\ Below({At(r.clk)}, B)
  BY <1>2 DEF SliceOrder, Below
<1> QED BY <1>1, <1>3 DEF SliceOrder

\* The caches and what was sent stay behind what follows.
LEMMA CachesKept ==
    ASSUME WayInv, UNCHANGED <<txnCache, toSend, sent>>,
           \A q \in Partitions :
              /\ Passed(q) \subseteq Passed(q)'
              /\ \A n \in Ahead(q)' : n \in Ahead(q) \/ Below(Passed(q), {n})
    PROVE  /\ ToSendOrder' /\ ShippedInOrder'
           /\ \A q \in Partitions : CacheOrder(q)' /\ PastOrder(q)'
<1>1. ToSendOrder' /\ ShippedInOrder' /\ Past' = Past
  BY DEF WayInv, ToSendOrder, ShippedInOrder, Past
<1>2. ASSUME NEW q \in Partitions
      PROVE  CacheOrder(q)' /\ PastOrder(q)'
  <2>1. /\ CacheAt(txnCache[q]) \subseteq Passed(q) /\ Below(CacheAt(txnCache[q]), Ahead(q))
        /\ CacheRising(txnCache[q])
        /\ Past \subseteq Passed(q) /\ Below(Past, Ahead(q)) /\ Below(Past, CacheTxns(txnCache[q]))
    BY DEF WayInv, CacheOrder, PastOrder
  <2>2. Below(CacheAt(txnCache[q]), Ahead(q)') /\ Below(Past, Ahead(q)')
    BY <2>1 DEF Below
  <2>3. txnCache'[q] = txnCache[q] /\ Passed(q) \subseteq Passed(q)'
    OBVIOUS
  <2>4. CacheOrder(q)'
    BY <2>1, <2>2, <2>3 DEF CacheOrder
  <2>5. PastOrder(q)'
    BY <1>1, <2>1, <2>2, <2>3 DEF PastOrder
  <2> QED BY <2>4, <2>5
<1> QED BY <1>1, <1>2

\* Steps of the partitions and the loggers that leave the replies alone
LEMMA WayKept ==
    ASSUME ShipInv, WayInv, CopiedInTime, UNCHANGED <<partsChan, copying, txnCache, toSend, sent>>,
           UnloggedAbove',
           \A q \in Partitions :
              /\ Passed(q) \subseteq Passed(q)' /\ InboxOrder(q)' /\ LogOrder(q)'
              /\ \A n \in Commits(inbox'[q]) \cup Unshared(q)' :
                    n \in Commits(inbox[q]) \cup Unshared(q) \/ Below(Passed(q), {n})
    PROVE  WayInv'
<1>1. partsChan \in Seq(Reply) /\ copying \in Reply /\ Len(partsChan) \in Nat
  BY DEF ShipInv, TypeOK
<1>2. ASSUME NEW q \in Partitions, NEW i \in Nat, NEW n \in After(q, i)'
      PROVE  n \in After(q, i) \/ Below(Passed(q), {n})
  <2>1. CASE n \in Commits(inbox'[q]) \cup Unshared(q)'
    BY <2>1 DEF After
  <2>2. CASE n \notin Commits(inbox'[q]) \cup Unshared(q)'
    <3>1. PICK j \in (i + 1) .. Len(partsChan) :
             partsChan[j].part = q /\ n \in Slots(log'[q], partsChan[j].from, partsChan[j].to)
      BY <2>2 DEF After, RepliesAfter
    <3>2. j \in 1 .. Len(partsChan)
      BY <1>1
    <3>3. Slots(log'[q], partsChan[j].from, partsChan[j].to)
             = Slots(log[q], partsChan[j].from, partsChan[j].to)
      BY <3>1, <3>2, SlicesKept, SameSlots
    <3> QED BY <3>1, <3>3 DEF After, RepliesAfter
  <2> QED BY <2>1, <2>2
<1>3. ASSUME NEW q \in Partitions, NEW n \in Ahead(q)'
      PROVE  n \in Ahead(q) \/ Below(Passed(q), {n})
  <2>1. CASE n \in After(q, 0)'
    BY <1>2, <2>1 DEF Ahead
  <2>2. CASE n \in CopyingAt(q)'
    <3>1. copying.part = q /\ n \in Slots(log'[q], copying.from, copying.to)
      BY <2>2 DEF CopyingAt
    <3>2. n \in Slots(log[q], copying.from, copying.to)
      BY <3>1, SlicesKept, SameSlots
    <3> QED BY <3>1, <3>2 DEF Ahead, CopyingAt
  <2> QED BY <2>1, <2>2 DEF Ahead
<1>4. ASSUME NEW q \in Partitions
      PROVE  RepliesOrder(q)'
  <2>0. RepliesOrder(q) /\ LogOrder(q)
    BY DEF WayInv
  <2>1. ASSUME NEW i \in 1 .. Len(partsChan), partsChan[i].part = q
        PROVE  SliceOrder(log'[q], partsChan[i], Passed(q)', After(q, i)')
    <3>1. PICK r \in Reply : r = partsChan[i]
      BY <1>1
    <3>2. ReplyOK(r) /\ r.part = q /\ SliceOrder(log[q], r, Passed(q), After(q, i))
      BY <2>0, <2>1, <3>1 DEF ShipInv, RepliesOK, RepliesOrder
    <3>3. \A k \in (r.from + 1) .. r.to : log'[q][k] = log[q][k]
      BY <2>1, <3>1, SlicesKept
    <3>4. \A n \in After(q, i)' : n \in After(q, i) \/ Below(Passed(q), {n})
      <4>1. i \in Nat
        OBVIOUS
      <4> QED BY <1>2, <4>1
    <3>5. SliceOrder(log'[q], r, Passed(q)', After(q, i)')
      BY <2>0, <3>2, <3>3, <3>4, SliceKept
    <3> QED BY <3>1, <3>5
  <2>2. ASSUME copying.part = q
        PROVE  SliceOrder(log'[q], copying, Passed(q)', After(q, 0)')
    <3>1. PICK r \in Reply : r = copying
      BY <1>1
    <3>2. ReplyOK(r) /\ r.part = q /\ SliceOrder(log[q], r, Passed(q), After(q, 0))
      BY <2>0, <2>2, <3>1 DEF ShipInv, RepliesOK, RepliesOrder
    <3>3. \A k \in (r.from + 1) .. r.to : log'[q][k] = log[q][k]
      BY <2>2, <3>1, SlicesKept
    <3>4. \A n \in After(q, 0)' : n \in After(q, 0) \/ Below(Passed(q), {n})
      BY <1>2
    <3>5. SliceOrder(log'[q], r, Passed(q)', After(q, 0)')
      BY <2>0, <3>2, <3>3, <3>4, SliceKept
    <3> QED BY <3>1, <3>5
  <2> QED BY <2>1, <2>2 DEF RepliesOrder
<1>5. /\ ToSendOrder' /\ ShippedInOrder' /\ \A q \in Partitions : CacheOrder(q)' /\ PastOrder(q)'
  BY <1>3, CachesKept
<1> QED BY <1>4, <1>5 DEF WayInv

\* A message goes to the end of a queue.
LEMMA QueueAppend ==
    ASSUME NEW q \in Seq(LoggerMsg), NEW m \in LoggerMsg, NEW A, NEW B, QueueOrder(q, A), A \subseteq B,
           FromPartition(m) => At(m.clk) \in B,
           m.type = "commit" => Below(A, {At(m.clk)})
    PROVE  /\ QueueOrder(Append(q, m), B)
           /\ \A n \in Commits(Append(q, m)) : n \in Commits(q) \/ (m.type = "commit" /\ n = At(m.clk))
<1>1. /\ Len(q) \in Nat /\ Len(Append(q, m)) = Len(q) + 1
      /\ \A i \in 1 .. Len(q) : Append(q, m)[i] = q[i]
      /\ Append(q, m)[Len(q) + 1] = m
      /\ \A i \in 1 .. Len(Append(q, m)) : i \in 1 .. Len(q) \/ i = Len(q) + 1
  BY AppendFacts
<1>2. PICK s : s = Append(q, m)
  OBVIOUS
<1>3. ASSUME NEW i \in 1 .. Len(s), FromPartition(s[i]) PROVE At(s[i].clk) \in B
  BY <1>1, <1>2, <1>3 DEF QueueOrder
<1>4. ASSUME NEW i \in 1 .. Len(s), NEW j \in 1 .. Len(s), i < j, FromPartition(s[i]), s[j].type = "commit"
      PROVE  At(s[i].clk) <= At(s[j].clk)
  <2>1. i \in 1 .. Len(q) /\ s[i] = q[i]
    BY <1>1, <1>2, <1>4
  <2>2. CASE j \in 1 .. Len(q)
    BY <1>1, <1>2, <1>4, <2>1, <2>2 DEF QueueOrder
  <2>3. CASE j = Len(q) + 1
    <3>1. s[j] = m /\ At(q[i].clk) \in A
      BY <1>1, <1>2, <1>4, <2>1, <2>3 DEF QueueOrder
    <3> QED BY <1>4, <2>1, <3>1 DEF Below
  <2> QED BY <1>1, <1>2, <2>2, <2>3
<1>5. ASSUME NEW n \in Commits(s) PROVE n \in Commits(q) \/ (m.type = "commit" /\ n = At(m.clk))
  <2>1. PICK i \in 1 .. Len(s) : s[i].type = "commit" /\ n = At(s[i].clk)
    BY <1>5 DEF Commits
  <2>2. CASE i \in 1 .. Len(q)
    BY <1>1, <1>2, <2>1, <2>2 DEF Commits
  <2>3. CASE i = Len(q) + 1
    BY <1>1, <1>2, <2>1, <2>3
  <2> QED BY <1>1, <1>2, <2>2, <2>3
<1> QED BY <1>2, <1>3, <1>4, <1>5 DEF QueueOrder

\* The first message leaves a queue.
LEMMA QueueTail ==
    ASSUME NEW q \in Seq(LoggerMsg), q # <<>>, NEW A, QueueOrder(q, A)
    PROVE  /\ QueueOrder(Tail(q), A) /\ Commits(Tail(q)) \subseteq Commits(q)
           /\ Head(q).type = "commit" => At(Head(q).clk) \in Commits(q)
           /\ FromPartition(Head(q)) => /\ At(Head(q).clk) \in A
                                        /\ Below({At(Head(q).clk)}, Commits(Tail(q)))
<1>1. /\ Len(q) \in Nat /\ Len(q) >= 1 /\ Len(Tail(q)) = Len(q) - 1 /\ Head(q) = q[1]
      /\ \A i \in 1 .. (Len(q) - 1) : Tail(q)[i] = q[i + 1]
  BY TailFacts
<1>2. PICK s : s = Tail(q)
  OBVIOUS
<1>3. \A i \in 1 .. Len(s) : i \in Nat /\ s[i] = q[i + 1] /\ i + 1 \in 1 .. Len(q) /\ 1 < i + 1
  BY <1>1, <1>2
<1>4. 1 \in 1 .. Len(q)
  BY <1>1
<1>5. QueueOrder(s, A)
  <2>1. ASSUME NEW i \in 1 .. Len(s), FromPartition(s[i]) PROVE At(s[i].clk) \in A
    BY <1>3, <2>1 DEF QueueOrder
  <2>2. ASSUME NEW i \in 1 .. Len(s), NEW j \in 1 .. Len(s), i < j, FromPartition(s[i]),
               s[j].type = "commit"
        PROVE  At(s[i].clk) <= At(s[j].clk)
    <3>1. i + 1 < j + 1
      BY <2>2
    <3> QED BY <1>3, <2>2, <3>1 DEF QueueOrder
  <2> QED BY <2>1, <2>2 DEF QueueOrder
<1>6. ASSUME NEW n \in Commits(s)
      PROVE  n \in Commits(q) /\ (FromPartition(q[1]) => At(q[1].clk) <= n)
  <2>1. PICK i \in 1 .. Len(s) : s[i].type = "commit" /\ n = At(s[i].clk)
    BY <1>6 DEF Commits
  <2>2. n \in Commits(q)
    BY <1>3, <2>1 DEF Commits
  <2>3. FromPartition(q[1]) => At(q[1].clk) <= n
    BY <1>3, <1>4, <2>1 DEF QueueOrder
  <2> QED BY <2>2, <2>3
<1>7. q[1].type = "commit" => At(q[1].clk) \in Commits(q)
  BY <1>4 DEF Commits
<1>8. FromPartition(q[1]) => At(q[1].clk) \in A
  BY <1>4 DEF QueueOrder
<1> QED BY <1>1, <1>2, <1>5, <1>6, <1>7, <1>8 DEF Below

\* What a logger has still to share is among what its partition has passed.
LEMMA UnsharedPassed ==
    ASSUME ShipInv, NEW p \in Partitions, LogOrder(p)
    PROVE  Unshared(p) \subseteq Passed(p)
<1>1. /\ lastSharedPos[p] \in Nat /\ currentTxnPos[p] \in Nat /\ Len(log[p]) \in Nat
      /\ currentTxnPos[p] <= Len(log[p])
  BY DEF ShipInv, TypeOK, PositionsOK
<1>2. \A i \in (lastSharedPos[p] + 1) .. currentTxnPos[p] : i \in 1 .. Len(log[p])
  BY <1>1
<1> QED BY <1>2 DEF Unshared, Slots, LogOrder

\* A log that is not written keeps its order.
LEMMA LogKept ==
    ASSUME ShipInv, NEW p \in Partitions, LogOrder(p), Passed(p) \subseteq Passed(p)',
           log'[p] = log[p], lastSharedPos'[p] = lastSharedPos[p], currentTxnPos'[p] = currentTxnPos[p],
           \A n \in Commits(inbox'[p]) : n \in Commits(inbox[p]) \/ Below(Passed(p), {n})
    PROVE  LogOrder(p)' /\ Unshared(p)' = Unshared(p)
<1>1. Unshared(p)' = Unshared(p)
  BY DEF Unshared
<1>2. Unshared(p) \subseteq Passed(p)
  BY UnsharedPassed
<1>3. Below(Unshared(p), Commits(inbox'[p]))
  BY <1>2 DEF LogOrder, Below
<1> QED BY <1>1, <1>3 DEF LogOrder

\* What a partition has passed grows with what it sends.
LEMMA PassedGrows ==
    ASSUME ShipInv, NEW p \in Partitions, NEW m \in LogRequest,
           logChan' = [logChan EXCEPT ![p] = Append(logChan[p], m)]
    PROVE  /\ m.clk \in Timestamps /\ m.clk \in Clock /\ At(m.clk) \in Nat
           /\ At(m.clk) \in Passed(p)'
           /\ \A q \in Partitions : Passed(q) \subseteq Passed(q)'
           /\ \A q \in Partitions : \A n \in Passed(q)' :
                 n \in Passed(q) \/ (q = p /\ n \in Nat /\ n <= At(m.clk))
<1>1. logChan \in [Partitions -> Seq(LogRequest)]
  BY DEF ShipInv, TypeOK, LogTypeOK
<1>2. m.clk \in Timestamps /\ m.clk \in Clock
  BY PartitionLogConstants DEF LogRequest
<1>3. At(m.clk) \in Nat
  BY <1>2, LogShipConstants DEF At, Clock
<1>4. PICK s \in Seq(LogRequest) : s = logChan[p]
  BY <1>1
<1>5. /\ Len(s) \in Nat /\ Len(Append(s, m)) = Len(s) + 1
      /\ \A i \in 1 .. Len(s) : Append(s, m)[i] = s[i] /\ i \in 1 .. Len(Append(s, m))
      /\ Append(s, m)[Len(s) + 1] = m
      /\ \A i \in 1 .. Len(Append(s, m)) : i \in 1 .. Len(s) \/ i = Len(s) + 1
  BY AppendFacts
<1>6. logChan'[p] = Append(s, m) /\ \A q \in Partitions \ {p} : logChan'[q] = logChan[q]
  BY <1>1, <1>4
<1>7. At(m.clk) \in Passed(p)'
  <2>1. Len(s) + 1 \in 1 .. Len(logChan'[p]) /\ logChan'[p][Len(s) + 1] = m
    BY <1>5, <1>6
  <2>2. At(m.clk) \in 0 .. At(logChan'[p][Len(s) + 1].clk)
    BY <1>3, <2>1
  <2> QED BY <2>1, <2>2 DEF Passed
<1>8. Passed(p) \subseteq Passed(p)'
  BY <1>4, <1>5, <1>6 DEF Passed
<1>9. ASSUME NEW n \in Passed(p)'
      PROVE  n \in Passed(p) \/ (n \in Nat /\ n <= At(m.clk))
  <2>1. CASE n = 0
    BY <2>1 DEF Passed
  <2>2. CASE n # 0
    <3>1. PICK i \in 1 .. Len(Append(s, m)) : n \in 0 .. At(Append(s, m)[i].clk)
      BY <1>6, <2>2 DEF Passed
    <3>2. CASE i \in 1 .. Len(s)
      BY <1>4, <1>5, <3>1, <3>2 DEF Passed
    <3>3. CASE i = Len(s) + 1
      BY <1>3, <1>5, <3>1, <3>3
    <3> QED BY <1>5, <3>2, <3>3
  <2> QED BY <2>1, <2>2
<1>10. \A q \in Partitions \ {p} : Passed(q)' = Passed(q)
  BY <1>6 DEF Passed
<1> QED BY <1>2, <1>3, <1>7, <1>8, <1>9, <1>10

\* What is below two comparable clocks' positions
LEMMA AtOrdered ==
    ASSUME NEW c \in Clock, NEW d \in Clock
    PROVE  /\ At(c) \in Nat /\ At(d) \in Nat
           /\ IsLowerOrEqual(c, d) => At(c) <= At(d)
BY LogShipConstants DEF At, Clock, IsLowerOrEqual

\* A partition sends a message to its logger.
LEMMA WayPartition ==
    ASSUME ShipInv, WayInv, CopiedInTime, NEW p \in Partitions, NEW m \in LogRequest,
           logChan' = [logChan EXCEPT ![p] = Append(logChan[p], m)],
           inbox' = [inbox EXCEPT ![p] = Append(inbox[p], m)],
           UNCHANGED <<involved, commitTs, log, lastSharedPos, currentTxnPos, partsChan, copying,
                       txnCache, toSend, sent>>,
           m.type = "commit" => Below(Passed(p), {At(m.clk)}),
           \A u \in Unlogged(p)' : IsLowerOrEqual(m.clk, commitTs[u])
    PROVE  WayInv'
<1>1. /\ m.clk \in Timestamps /\ m.clk \in Clock /\ At(m.clk) \in Nat
      /\ At(m.clk) \in Passed(p)'
      /\ \A q \in Partitions : Passed(q) \subseteq Passed(q)'
      /\ \A q \in Partitions : \A n \in Passed(q)' :
            n \in Passed(q) \/ (q = p /\ n \in Nat /\ n <= At(m.clk))
  BY PassedGrows
<1>2. /\ inbox \in [Partitions -> Seq(LoggerMsg)] /\ m \in LoggerMsg
      /\ commitTs \in [Txns -> Clock] /\ logChan \in [Partitions -> Seq(LogRequest)]
  BY NewMessages DEF ShipInv, TypeOK, LogTypeOK
<1>3. /\ QueueOrder(Append(inbox[p], m), Passed(p)')
      /\ \A n \in Commits(Append(inbox[p], m)) :
            n \in Commits(inbox[p]) \/ (m.type = "commit" /\ n = At(m.clk))
  <2>1. inbox[p] \in Seq(LoggerMsg) /\ QueueOrder(inbox[p], Passed(p))
    BY <1>2 DEF WayInv, InboxOrder
  <2> QED BY <1>1, <1>2, <2>1, QueueAppend
<1>4. ASSUME NEW q \in Partitions
      PROVE  /\ InboxOrder(q)'
             /\ \A n \in Commits(inbox'[q]) : n \in Commits(inbox[q]) \/ Below(Passed(q), {n})
  <2>1. CASE q = p
    <3>1. inbox'[q] = Append(inbox[p], m)
      BY <1>2, <2>1
    <3> QED BY <1>3, <2>1, <3>1 DEF InboxOrder
  <2>2. CASE q # p
    <3>1. inbox'[q] = inbox[q] /\ Passed(q) \subseteq Passed(q)' /\ QueueOrder(inbox[q], Passed(q))
      BY <1>1, <1>2, <2>2 DEF WayInv, InboxOrder
    <3> QED BY <3>1 DEF InboxOrder, QueueOrder
  <2> QED BY <2>1, <2>2
<1>5. ASSUME NEW q \in Partitions
      PROVE  LogOrder(q)' /\ Unshared(q)' = Unshared(q)
  <2>1. LogOrder(q)
    BY DEF WayInv
  <2> QED BY <1>1, <1>4, <2>1, LogKept
<1>6. UnloggedAbove'
  <2> SUFFICES ASSUME NEW q \in Partitions, NEW u \in Unlogged(q)', NEW n \in Passed(q)'
               PROVE  n <= At(commitTs[u])
    BY DEF UnloggedAbove, Below
  <2>1. u \in Unlogged(q)
    <3>1. ASSUME IsLogged(q, u) PROVE IsLogged(q, u)'
      <4>1. PICK i \in 1 .. Len(logChan[q]) : logChan[q][i].txn = u
        BY <3>1 DEF IsLogged
      <4>2. CASE q = p
        <5>1. logChan'[q] = Append(logChan[q], m) /\ logChan[q] \in Seq(LogRequest)
          BY <1>2, <4>2
        <5>2. i \in 1 .. Len(logChan'[q]) /\ logChan'[q][i] = logChan[q][i]
          BY <4>1, <5>1, AppendFacts
        <5> QED BY <4>1, <5>2 DEF IsLogged
      <4>3. CASE q # p
        BY <1>2, <4>1, <4>3 DEF IsLogged
      <4> QED BY <4>2, <4>3
    <3> QED BY <3>1 DEF Unlogged
  <2>2. commitTs[u] \in Clock
    BY <1>2, <2>1 DEF Unlogged
  <2>3. CASE n \in Passed(q)
    BY <2>1, <2>3 DEF WayInv, UnloggedAbove, Below
  <2>4. CASE q = p /\ n \in Nat /\ n <= At(m.clk)
    <3>1. At(m.clk) <= At(commitTs[u]) /\ At(commitTs[u]) \in Nat
      BY <1>1, <2>2, <2>4, AtOrdered
    <3> QED BY <1>1, <2>4, <3>1
  <2> QED BY <1>1, <2>3, <2>4
<1>7. \A q \in Partitions : \A n \in Commits(inbox'[q]) \cup Unshared(q)' :
         n \in Commits(inbox[q]) \cup Unshared(q) \/ Below(Passed(q), {n})
  BY <1>4, <1>5
<1> QED BY <1>1, <1>4, <1>5, <1>6, <1>7, WayKept

\* A coordinator decides; a partition commits, or answers its logger.
LEMMA WayPartitionSteps ==
    ASSUME TimestampsOrdered, ShipInv, WayInv, CopiedInTime, NEW p \in Partitions, NEW t,
           \/ t \in Txns /\ (DecideTxn(t) \/ PartitionCommits(p, t))
           \/ PartitionAnswers(p)
    PROVE  WayInv'
<1>1. /\ commitTs \in [Txns -> Clock] /\ logChan \in [Partitions -> Seq(LogRequest)]
      /\ Timestamps \subseteq Clock /\ involved \in [Txns -> SUBSET Partitions]
  BY PartitionLogConstants DEF ShipInv, TypeOK, LogTypeOK
<1>2. CASE t \in Txns /\ PartitionCommits(p, t)
  <2>1. /\ t \in Unlogged(p) /\ \A u \in Unlogged(p) : ~IsLower(commitTs[u], commitTs[t])
        /\ logChan' = [logChan EXCEPT ![p] = Append(logChan[p], CommitEntry(t))]
        /\ inbox' = [inbox EXCEPT ![p] = Append(inbox[p], CommitEntry(t))]
        /\ UNCHANGED <<involved, commitTs, log, lastSharedPos, currentTxnPos, partsChan, copying,
                       txnCache, toSend, sent>>
    BY <1>2 DEF PartitionCommits, LogCommit, replVars
  <2>2. \A u \in Unlogged(p) : commitTs[u] \in Timestamps /\ commitTs[u] \in Clock
    BY <1>1 DEF ShipInv, DecidedOK, Unlogged
  <2>3. CommitEntry(t) \in LogRequest /\ CommitEntry(t).clk = commitTs[t]
    BY <1>2, <2>1, <2>2, NewMessages DEF CommitEntry
  <2>4. Below(Passed(p), {At(CommitEntry(t).clk)})
    BY <2>1, <2>3 DEF WayInv, UnloggedAbove
  <2>5. ASSUME NEW u \in Unlogged(p) PROVE IsLowerOrEqual(commitTs[t], commitTs[u])
    <3>1. IsLowerOrEqual(commitTs[t], commitTs[u]) \/ IsLowerOrEqual(commitTs[u], commitTs[t])
      BY <2>1, <2>2 DEF TimestampsOrdered
    <3> QED BY <2>1, <2>2, <3>1, ClocksOrdered
  <2>6. Unlogged(p)' \subseteq Unlogged(p)
    <3>1. ASSUME NEW u, IsLogged(p, u) PROVE IsLogged(p, u)'
      <4>1. logChan'[p] = Append(logChan[p], CommitEntry(t)) /\ logChan[p] \in Seq(LogRequest)
        BY <1>1, <2>1
      <4> QED BY <2>3, <3>1, <4>1, AppendFacts DEF IsLogged
    <3> QED BY <2>1, <3>1 DEF Unlogged
  <2> QED BY <2>1, <2>3, <2>4, <2>5, <2>6, WayPartition
<1>3. CASE PartitionAnswers(p)
  <2>1. PICK clk \in Timestamps : /\ \A u \in Unlogged(p) : IsLowerOrEqual(clk, commitTs[u])
                                  /\ logChan' = [logChan EXCEPT ![p] = Append(logChan[p], ClkEntry(clk))]
                                  /\ inbox' = [inbox EXCEPT ![p] = Append(inbox[p], ClkEntry(clk))]
                                  /\ UNCHANGED <<involved, commitTs>>
    BY <1>3 DEF PartitionAnswers, AnnounceClk
  <2>2. UNCHANGED <<log, lastSharedPos, currentTxnPos, partsChan, copying, txnCache, toSend, sent>>
    BY <1>3 DEF PartitionAnswers, replVars
  <2>3. ClkEntry(clk) \in LogRequest /\ ClkEntry(clk).clk = clk /\ ClkEntry(clk).type = "clk"
    BY NewMessages DEF ClkEntry
  <2>4. Unlogged(p)' \subseteq Unlogged(p)
    <3>1. ASSUME NEW u, IsLogged(p, u) PROVE IsLogged(p, u)'
      <4>1. logChan'[p] = Append(logChan[p], ClkEntry(clk)) /\ logChan[p] \in Seq(LogRequest)
        BY <1>1, <2>1
      <4> QED BY <2>3, <3>1, <4>1, AppendFacts DEF IsLogged
    <3> QED BY <2>1, <3>1 DEF Unlogged
  <2> QED BY <2>1, <2>2, <2>3, <2>4, WayPartition
<1>4. CASE t \in Txns /\ DecideTxn(t)
  <2>1. PICK P \in SUBSET Partitions, clk \in Timestamps : Decide(t, P, clk)
    BY <1>4 DEF DecideTxn
  <2>2. /\ UNCHANGED <<logChan, inbox, log, lastSharedPos, currentTxnPos, partsChan, copying, txnCache,
                       toSend, sent>>
    BY <1>4, <2>1 DEF DecideTxn, Decide, loggerVars, replVars
  <2>3. ASSUME NEW q \in Partitions
        PROVE  /\ Passed(q)' = Passed(q) /\ InboxOrder(q)' /\ LogOrder(q)' /\ Unshared(q)' = Unshared(q)
    <3>1. InboxOrder(q) /\ LogOrder(q)
      BY DEF WayInv
    <3>2. Passed(q)' = Passed(q) /\ Unshared(q)' = Unshared(q)
      BY <2>2 DEF Passed, Unshared
    <3> QED BY <2>2, <3>1, <3>2 DEF InboxOrder, LogOrder
  <2>4. ASSUME NEW q \in Partitions, NEW u \in Unlogged(q)', NEW n \in Passed(q)
        PROVE  n <= At(commitTs'[u])
    <3>1. CASE u # t
      <4>1. u \in Unlogged(q) /\ commitTs'[u] = commitTs[u]
        BY <1>1, <2>1, <2>2, <3>1 DEF Unlogged, IsLogged, Decide
      <4> QED BY <4>1 DEF WayInv, UnloggedAbove, Below
    <3>2. CASE u = t
      <4>1. q \in P /\ commitTs'[u] = clk
        BY <1>1, <1>4, <2>1, <3>2 DEF Unlogged, Decide
      <4>2. clk \in Clock /\ At(clk) \in Nat
        BY <1>1, AtOrdered
      <4>3. CASE n = 0
        BY <4>1, <4>2, <4>3
      <4>4. CASE n # 0
        <5>1. PICK i \in 1 .. Len(logChan[q]) : n \in 0 .. At(logChan[q][i].clk)
          BY <4>4 DEF Passed
        <5>2. logChan[q][i] \in LogRequest
          BY <1>1
        <5>3. logChan[q][i].clk \in Clock
          BY <1>1, <5>2 DEF LogRequest
        <5>4. IsLowerOrEqual(logChan[q][i].clk, clk)
          BY <2>1, <4>1, <5>1 DEF Decide
        <5>5. At(logChan[q][i].clk) <= At(clk) /\ At(logChan[q][i].clk) \in Nat
          BY <4>2, <5>3, <5>4, AtOrdered
        <5> QED BY <4>1, <4>2, <5>1, <5>5
      <4> QED BY <4>3, <4>4
    <3> QED BY <3>1, <3>2
  <2>5. UnloggedAbove'
    BY <2>3, <2>4 DEF UnloggedAbove, Below
  <2>6. \A q \in Partitions : Passed(q) \subseteq Passed(q)' /\ InboxOrder(q)' /\ LogOrder(q)'
    BY <2>3
  <2>7. \A q \in Partitions : \A n \in Commits(inbox'[q]) \cup Unshared(q)' :
           n \in Commits(inbox[q]) \cup Unshared(q)
    BY <2>2, <2>3
  <2> QED BY <2>2, <2>5, <2>6, <2>7, WayKept
<1> QED BY <1>2, <1>3, <1>4

\* A step that leaves the partitions alone
LEMMA PartitionsStay ==
    ASSUME WayInv, UNCHANGED logVars
    PROVE  UnloggedAbove' /\ \A q \in Partitions : Passed(q)' = Passed(q)
<1>1. UNCHANGED <<involved, commitTs, logChan>>
  BY DEF logVars
<1>2. ASSUME NEW q \in Partitions PROVE Passed(q)' = Passed(q) /\ Unlogged(q)' = Unlogged(q)
  BY <1>1 DEF Passed, Unlogged, IsLogged
<1>3. UnloggedAbove
  BY DEF WayInv
<1> QED BY <1>1, <1>2, <1>3 DEF UnloggedAbove

\* The inbox of p becomes s, in which nothing new is a transaction.
LEMMA WayInbox ==
    ASSUME ShipInv, WayInv, CopiedInTime, NEW p \in Partitions, NEW s,
           inbox' = [inbox EXCEPT ![p] = s], QueueOrder(s, Passed(p)), Commits(s) \subseteq Commits(inbox[p]),
           UNCHANGED <<logVars, log, lastSharedPos, currentTxnPos, partsChan, copying, txnCache, toSend,
                       sent>>
    PROVE  WayInv'
<1>1. UnloggedAbove' /\ \A q \in Partitions : Passed(q)' = Passed(q)
  BY PartitionsStay
<1>2. inbox \in [Partitions -> Seq(LoggerMsg)]
  BY DEF ShipInv, TypeOK
<1>3. ASSUME NEW q \in Partitions
      PROVE  InboxOrder(q)' /\ Commits(inbox'[q]) \subseteq Commits(inbox[q])
  <2>1. CASE q = p
    BY <1>1, <1>2, <2>1 DEF InboxOrder
  <2>2. CASE q # p
    <3>1. inbox'[q] = inbox[q] /\ InboxOrder(q)
      BY <1>2, <2>2 DEF WayInv
    <3> QED BY <1>1, <3>1 DEF InboxOrder
  <2> QED BY <2>1, <2>2
<1>4. ASSUME NEW q \in Partitions
      PROVE  LogOrder(q)' /\ Unshared(q)' = Unshared(q)
  <2>1. LogOrder(q)
    BY DEF WayInv
  <2> QED BY <1>1, <1>3, <2>1, LogKept
<1>5. \A q \in Partitions : \A n \in Commits(inbox'[q]) \cup Unshared(q)' :
         n \in Commits(inbox[q]) \cup Unshared(q)
  BY <1>3, <1>4
<1> QED BY <1>1, <1>3, <1>4, <1>5, WayKept

\* Requests and timeouts arrive at a logger; the timer fires.
LEMMA WayMessages ==
    ASSUME ShipInv, WayInv, CopiedInTime, NEW p \in Partitions,
           HandleTxnLogRequest(p) \/ TimerFires(p) \/ SendTimeout(p) \/ (AskPartition /\ p = asked)
    PROVE  WayInv'
<1>1. /\ UNCHANGED <<logVars, log, lastSharedPos, currentTxnPos, partsChan, copying, txnCache, toSend,
                     sent>>
  BY DEF HandleTxnLogRequest, TimerFires, SendTimeout, AskPartition, replVars
<1>2. inbox \in [Partitions -> Seq(LoggerMsg)] /\ inbox[p] \in Seq(LoggerMsg)
  BY DEF ShipInv, TypeOK
<1>3. QueueOrder(inbox[p], Passed(p))
  BY DEF WayInv, InboxOrder
<1>4. CASE HandleTxnLogRequest(p)
  <2>1. inbox[p] # <<>> /\ inbox' = [inbox EXCEPT ![p] = Tail(inbox[p])]
    BY <1>4 DEF HandleTxnLogRequest, Handles
  <2>2. QueueOrder(Tail(inbox[p]), Passed(p)) /\ Commits(Tail(inbox[p])) \subseteq Commits(inbox[p])
    BY <1>2, <1>3, <2>1, QueueTail
  <2> QED BY <1>1, <2>1, <2>2, WayInbox
<1>5. CASE TimerFires(p)
  <2>1. inbox' = inbox
    BY <1>5 DEF TimerFires
  <2>2. inbox' = [inbox EXCEPT ![p] = inbox[p]]
    BY <1>2, <2>1
  <2> QED BY <1>1, <1>3, <2>2, WayInbox
<1>6. CASE SendTimeout(p) \/ (AskPartition /\ p = asked)
  <2>1. PICK m \in LoggerMsg : /\ m.type \in {"timeout", "txnLog"}
                               /\ inbox' = [inbox EXCEPT ![p] = Append(inbox[p], m)]
    <3>1. CASE SendTimeout(p)
      <4>1. PICK m : m = [type |-> "timeout", txn |-> NoTxn, clk |-> NewTimestamp]
        OBVIOUS
      <4>2. m \in LoggerMsg /\ m.type = "timeout"
        BY <4>1, NewMessages
      <4> QED BY <3>1, <4>1, <4>2 DEF SendTimeout
    <3>2. CASE AskPartition /\ p = asked
      <4>1. PICK m : m = [type |-> "txnLog", txn |-> NoTxn, clk |-> NewTimestamp]
        OBVIOUS
      <4>2. m \in LoggerMsg /\ m.type = "txnLog"
        BY <4>1, NewMessages
      <4> QED BY <3>2, <4>1, <4>2 DEF AskPartition
    <3> QED BY <1>6, <3>1, <3>2
  <2>2. ~FromPartition(m) /\ m.type # "commit"
    BY <2>1 DEF FromPartition
  <2>3. /\ QueueOrder(Append(inbox[p], m), Passed(p))
        /\ Commits(Append(inbox[p], m)) \subseteq Commits(inbox[p])
    BY <1>2, <1>3, <2>1, <2>2, QueueAppend
  <2> QED BY <1>1, <2>1, <2>3, WayInbox
<1> QED BY <1>4, <1>5, <1>6

\* handleCommitLogRequest writes the next transaction to the log.
LEMMA WayCommitLogged ==
    ASSUME ShipInv, WayInv, CopiedInTime, NEW p \in Partitions, HandleCommitLogRequest(p)
    PROVE  WayInv'
<1>1. UNCHANGED <<logVars, lastSharedPos, partsChan, copying, txnCache, toSend, sent>>
  BY DEF HandleCommitLogRequest, replVars
<1>2. UnloggedAbove' /\ \A q \in Partitions : Passed(q)' = Passed(q)
  BY <1>1, PartitionsStay
<1>3. /\ inbox \in [Partitions -> Seq(LoggerMsg)] /\ inbox[p] \in Seq(LoggerMsg) /\ inbox[p] # <<>>
      /\ Head(inbox[p]).type = "commit" /\ inbox' = [inbox EXCEPT ![p] = Tail(inbox[p])]
  BY DEF ShipInv, TypeOK, HandleCommitLogRequest, Handles
<1>4. PICK h : h = At(Head(inbox[p]).clk)
  OBVIOUS
<1>5. /\ QueueOrder(Tail(inbox[p]), Passed(p)) /\ Commits(Tail(inbox[p])) \subseteq Commits(inbox[p])
      /\ h \in Commits(inbox[p]) /\ h \in Passed(p) /\ Below({h}, Commits(Tail(inbox[p])))
  BY <1>3, <1>4, QueueTail DEF WayInv, InboxOrder, FromPartition
<1>6. PICK n \in Nat : n = currentTxnPos[p]
  BY DEF ShipInv, TypeOK
<1>7. PICK b \in Nat : b = lastSharedPos[p] /\ b <= n
  BY <1>6 DEF ShipInv, TypeOK, PositionsOK
<1>8. currentTxnPos' = [currentTxnPos EXCEPT ![p] = n + 1] /\ currentTxnPos \in [Partitions -> Nat]
  BY <1>6 DEF HandleCommitLogRequest, ShipInv, TypeOK
<1>9. /\ Len(log[p]) \in Nat /\ Len(log'[p]) \in Nat
      /\ Len(log'[p]) >= Len(log[p]) /\ Len(log'[p]) >= n + 1
      /\ \A i \in 1 .. Len(log'[p]) : i # n + 1 => i \in 1 .. Len(log[p]) /\ log'[p][i] = log[p][i]
      /\ \A q \in Partitions \ {p} : log'[q] = log[q]
  BY <1>6, LogWritten
<1>10. At(log'[p][n + 1].clk) = h
  <2>1. log'[p][n + 1] = [txn |-> Head(inbox[p]).txn, clk |-> Head(inbox[p]).clk]
    BY <1>6, LogWritten
  <2>2. log'[p][n + 1].clk = Head(inbox[p]).clk
    BY <2>1
  <2> QED BY <1>4, <2>2
<1>11. LogOrder(p) /\ Unshared(p) = Slots(log[p], b, n) /\ Unshared(p)' = Slots(log'[p], b, n + 1)
  <2>1. lastSharedPos'[p] = b /\ currentTxnPos'[p] = n + 1
    BY <1>1, <1>7, <1>8
  <2> QED BY <1>6, <1>7, <2>1 DEF WayInv, Unshared
<1>12. \A i \in (b + 1) .. n : log'[p][i] = log[p][i]
  BY <1>9
<1>13. ASSUME NEW m \in Unshared(p)' PROVE m \in Unshared(p) \/ m = h
  <2>1. PICK i \in (b + 1) .. (n + 1) : m = At(log'[p][i].clk)
    BY <1>11, <1>13 DEF Slots
  <2>2. CASE i = n + 1
    BY <1>10, <2>1, <2>2
  <2>3. CASE i # n + 1
    <3>1. i \in (b + 1) .. n
      BY <2>3
    <3> QED BY <1>11, <1>12, <2>1, <3>1 DEF Slots
  <2> QED BY <2>2, <2>3
<1>14. LogOrder(p)'
  <2>1. ASSUME NEW i \in 1 .. Len(log'[p]) PROVE At(log'[p][i].clk) \in Passed(p)'
    <3>1. CASE i = n + 1
      BY <1>2, <1>5, <1>10, <3>1
    <3>2. CASE i # n + 1
      BY <1>2, <1>9, <1>11, <3>2 DEF LogOrder
    <3> QED BY <3>1, <3>2
  <2>2. ASSUME NEW i \in (b + 1) .. (n + 1), NEW j \in (b + 1) .. (n + 1), i < j
        PROVE  At(log'[p][i].clk) <= At(log'[p][j].clk)
    <3>0. i \in (b + 1) .. n /\ log'[p][i] = log[p][i]
      BY <1>12, <2>2
    <3>1. CASE j = n + 1
      <4>1. At(log[p][i].clk) \in Unshared(p)
        BY <1>11, <3>0 DEF Slots
      <4> QED BY <1>5, <1>10, <1>11, <3>0, <3>1, <4>1 DEF LogOrder, Below
    <3>2. CASE j # n + 1
      <4>1. j \in (b + 1) .. n /\ log'[p][j] = log[p][j]
        BY <1>12, <3>2
      <4>2. Rising(log[p], b, n)
        BY <1>6, <1>7, <1>11 DEF LogOrder
      <4> QED BY <2>2, <3>0, <4>1, <4>2 DEF Rising
    <3> QED BY <3>1, <3>2
  <2>3. Below(Unshared(p)', Commits(inbox'[p]))
    <3>1. inbox'[p] = Tail(inbox[p])
      BY <1>3
    <3> QED BY <1>5, <1>11, <1>13, <3>1 DEF LogOrder, Below
  <2>4. Rising(log'[p], lastSharedPos'[p], currentTxnPos'[p])
    <3>1. lastSharedPos'[p] = b /\ currentTxnPos'[p] = n + 1
      BY <1>1, <1>7, <1>8
    <3> QED BY <2>2, <3>1 DEF Rising
  <2> QED BY <2>1, <2>3, <2>4 DEF LogOrder
<1>15. ASSUME NEW q \in Partitions
       PROVE  /\ InboxOrder(q)' /\ LogOrder(q)'
              /\ \A m \in Commits(inbox'[q]) \cup Unshared(q)' : m \in Commits(inbox[q]) \cup Unshared(q)
  <2>1. CASE q = p
    <3>1. inbox'[p] = Tail(inbox[p])
      BY <1>3
    <3> QED BY <1>2, <1>5, <1>13, <1>14, <2>1, <3>1 DEF InboxOrder
  <2>2. CASE q # p
    <3>1. /\ inbox'[q] = inbox[q] /\ log'[q] = log[q] /\ lastSharedPos'[q] = lastSharedPos[q]
          /\ currentTxnPos'[q] = currentTxnPos[q] /\ InboxOrder(q) /\ LogOrder(q)
      BY <1>1, <1>3, <1>8, <1>9, <2>2 DEF WayInv
    <3>2. LogOrder(q)' /\ Unshared(q)' = Unshared(q)
      BY <1>2, <3>1, LogKept
    <3> QED BY <1>2, <3>1, <3>2 DEF InboxOrder
  <2> QED BY <2>1, <2>2
<1> QED BY <1>1, <1>2, <1>15, WayKept

\* A logger answers with the unshared part of its log and a clock that nothing in its inbox is
\* below.
LEMMA WayReply ==
    ASSUME ShipInv, WayInv, NEW p \in Partitions, NEW clk \in Clock,
           inbox[p] # <<>>, inbox' = [inbox EXCEPT ![p] = Tail(inbox[p])],
           At(clk) \in Passed(p), Below({At(clk)}, Commits(Tail(inbox[p]))),
           ReplyToReplicator(p, clk), UNCHANGED <<logVars, log, copying, txnCache, toSend, sent>>
    PROVE  WayInv'
<1>1. UnloggedAbove' /\ \A q \in Partitions : Passed(q)' = Passed(q)
  BY PartitionsStay
<1>2. /\ inbox \in [Partitions -> Seq(LoggerMsg)] /\ inbox[p] \in Seq(LoggerMsg)
      /\ lastSharedPos \in [Partitions -> Nat] /\ currentTxnPos \in [Partitions -> Nat]
      /\ partsChan \in Seq(Reply) /\ Len(partsChan) \in Nat /\ copying \in Reply
  BY SMTT(60) DEF ShipInv, TypeOK
<1>3. QueueOrder(Tail(inbox[p]), Passed(p)) /\ Commits(Tail(inbox[p])) \subseteq Commits(inbox[p])
  BY <1>2, QueueTail DEF WayInv, InboxOrder
<1>4. PICK b \in Nat, n \in Nat : b = lastSharedPos[p] /\ n = currentTxnPos[p]
  BY <1>2
<1>5. PICK k \in Nat : /\ lastSharedPos' = [lastSharedPos EXCEPT ![p] = k]
                       /\ currentTxnPos' = [currentTxnPos EXCEPT ![p] = k]
  <2>1. \/ /\ lastSharedPos' = [lastSharedPos EXCEPT ![p] = 0]
           /\ currentTxnPos' = [currentTxnPos EXCEPT ![p] = 0]
        \/ /\ lastSharedPos' = [lastSharedPos EXCEPT ![p] = n]
           /\ currentTxnPos' = [currentTxnPos EXCEPT ![p] = n]
    BY <1>4 DEF ReplyToReplicator, NextShared
  <2>2. 0 \in Nat
    OBVIOUS
  <2> QED BY <2>1, <2>2
<1>6. PICK r : r = [part |-> p, from |-> b, to |-> n, clk |-> clk]
  OBVIOUS
<1>7. r \in Reply /\ r.part = p /\ r.from = b /\ r.to = n /\ r.clk = clk
  BY <1>6 DEF Reply
<1>8. partsChan' = Append(partsChan, r)
  BY <1>4, <1>6 DEF ReplyToReplicator
<1>9. /\ Len(partsChan') = Len(partsChan) + 1 /\ partsChan'[Len(partsChan) + 1] = r
      /\ \A i \in 1 .. Len(partsChan) : partsChan'[i] = partsChan[i]
      /\ \A i \in 1 .. Len(partsChan') : i \in 1 .. Len(partsChan) \/ i = Len(partsChan) + 1
  BY <1>2, <1>7, <1>8, AppendFacts
<1>10. Unshared(p) = Slots(log[p], r.from, r.to) /\ Unshared(p)' = {}
  <2>1. lastSharedPos'[p] = k /\ currentTxnPos'[p] = k
    BY <1>2, <1>5
  <2>2. (k + 1) .. k = {}
    OBVIOUS
  <2> QED BY <1>4, <1>7, <2>1, <2>2 DEF Unshared, Slots
<1>11. ASSUME NEW q \in Partitions
       PROVE  /\ InboxOrder(q)' /\ Commits(inbox'[q]) \subseteq Commits(inbox[q])
              /\ LogOrder(q)' /\ Unshared(q)' \subseteq Unshared(q)
  <2>1. CASE q = p
    <3>1. inbox'[q] = Tail(inbox[p])
      BY <1>2, <2>1
    <3>2. lastSharedPos'[q] = k /\ currentTxnPos'[q] = k /\ log' = log
      BY <1>2, <1>5, <2>1
    <3>3. Rising(log'[q], lastSharedPos'[q], currentTxnPos'[q])
      BY <3>2 DEF Rising
    <3>4. LogOrder(q)'
      BY <1>1, <1>10, <2>1, <3>2, <3>3 DEF LogOrder, WayInv, Below
    <3> QED BY <1>1, <1>3, <1>10, <2>1, <3>1, <3>4 DEF InboxOrder
  <2>2. CASE q # p
    <3>1. /\ inbox'[q] = inbox[q] /\ log'[q] = log[q] /\ lastSharedPos'[q] = lastSharedPos[q]
          /\ currentTxnPos'[q] = currentTxnPos[q] /\ InboxOrder(q) /\ LogOrder(q)
      BY <1>2, <1>5, <2>2 DEF WayInv
    <3>2. LogOrder(q)' /\ Unshared(q)' = Unshared(q)
      BY <1>1, <3>1, LogKept
    <3> QED BY <1>1, <3>1, <3>2 DEF InboxOrder
  <2> QED BY <2>1, <2>2
<1>12. ASSUME NEW q \in Partitions, NEW i \in Nat, NEW m \in After(q, i)'
       PROVE  m \in After(q, i)
  <2>1. CASE m \in Commits(inbox'[q]) \cup Unshared(q)'
    BY <1>11, <2>1 DEF After
  <2>2. CASE m \notin Commits(inbox'[q]) \cup Unshared(q)'
    <3>1. PICK j \in (i + 1) .. Len(partsChan') :
             partsChan'[j].part = q /\ m \in Slots(log[q], partsChan'[j].from, partsChan'[j].to)
      BY <2>2 DEF After, RepliesAfter
    <3>2. CASE j = Len(partsChan) + 1
      BY <1>7, <1>9, <1>10, <3>1, <3>2 DEF After
    <3>3. CASE j # Len(partsChan) + 1
      <4>1. j \in (i + 1) .. Len(partsChan) /\ partsChan'[j] = partsChan[j]
        BY <1>2, <1>9, <3>3
      <4> QED BY <3>1, <4>1 DEF After, RepliesAfter
    <3> QED BY <3>2, <3>3
  <2> QED BY <2>1, <2>2
<1>13. ASSUME NEW i, i = Len(partsChan) + 1
       PROVE  After(p, i)' \subseteq Commits(Tail(inbox[p]))
  <2>1. RepliesAfter(p, i)' = {}
    BY <1>2, <1>9, <1>13 DEF RepliesAfter
  <2>2. inbox'[p] = Tail(inbox[p])
    BY <1>2
  <2> QED BY <1>10, <2>1, <2>2 DEF After
<1>14. ASSUME NEW q \in Partitions
       PROVE  RepliesOrder(q)'
  <2>0. RepliesOrder(q) /\ LogOrder(q) /\ Passed(q) \subseteq Passed(q)'
    BY <1>1 DEF WayInv
  <2>1. ASSUME NEW i \in 1 .. Len(partsChan'), partsChan'[i].part = q
        PROVE  SliceOrder(log'[q], partsChan'[i], Passed(q)', After(q, i)')
    <3>1. CASE i \in 1 .. Len(partsChan)
      <4>1. PICK x \in Reply : x = partsChan[i]
        BY <1>2, <3>1
      <4>2. ReplyOK(x) /\ x.part = q /\ SliceOrder(log[q], x, Passed(q), After(q, i))
        BY <1>9, <2>0, <2>1, <3>1, <4>1 DEF ShipInv, RepliesOK, RepliesOrder
      <4>3. i \in Nat
        BY <3>1
      <4>4. \A m \in After(q, i)' : m \in After(q, i)
        BY <1>12, <4>3
      <4>5. SliceOrder(log'[q], x, Passed(q)', After(q, i)')
        <5>1. \A j \in (x.from + 1) .. x.to : log'[q][j] = log[q][j]
          OBVIOUS
        <5> QED BY <2>0, <4>2, <4>4, <5>1, SliceKept
      <4> QED BY <1>9, <3>1, <4>1, <4>5
    <3>2. CASE i = Len(partsChan) + 1
      <4>1. partsChan'[i] = r /\ q = p
        BY <1>7, <1>9, <2>1, <3>2
      <4>2. After(q, i)' \subseteq Commits(Tail(inbox[p]))
        BY <1>13, <3>2, <4>1
      <4>3. Rising(log[p], b, n) /\ Below(Unshared(p), Commits(inbox[p]))
        BY <1>4, <2>0, <4>1 DEF LogOrder
      <4>4. Below(Unshared(p), After(q, i)') /\ Below({At(clk)}, After(q, i)')
        BY <1>3, <4>2, <4>3 DEF Below
      <4>5. log'[q] = log[p] /\ Passed(q)' = Passed(p)
        BY <1>1, <4>1
      <4> QED BY <1>7, <1>10, <4>1, <4>3, <4>4, <4>5 DEF SliceOrder
    <3> QED BY <1>9, <3>1, <3>2
  <2>2. ASSUME copying'.part = q
        PROVE  SliceOrder(log'[q], copying', Passed(q)', After(q, 0)')
    <3>1. PICK x \in Reply : x = copying
      BY <1>2
    <3>2. ReplyOK(x) /\ x.part = q /\ SliceOrder(log[q], x, Passed(q), After(q, 0)) /\ copying' = x
      BY <2>0, <2>2, <3>1 DEF ShipInv, RepliesOK, RepliesOrder
    <3>3. \A m \in After(q, 0)' : m \in After(q, 0)
      BY <1>12
    <3>4. SliceOrder(log'[q], x, Passed(q)', After(q, 0)')
      BY <2>0, <3>2, <3>3, SliceKept
    <3> QED BY <3>2, <3>4
  <2> QED BY <2>1, <2>2 DEF RepliesOrder
<1>15. ASSUME NEW q \in Partitions, NEW m \in Ahead(q)'
       PROVE  m \in Ahead(q)
  <2>1. CASE m \in After(q, 0)'
    BY <1>12, <2>1 DEF Ahead
  <2>2. CASE m \in CopyingAt(q)'
    BY <2>2 DEF CopyingAt, Ahead
  <2> QED BY <2>1, <2>2 DEF Ahead
<1>16. /\ ToSendOrder' /\ ShippedInOrder' /\ \A q \in Partitions : CacheOrder(q)' /\ PastOrder(q)'
  BY <1>1, <1>15, CachesKept
<1> QED BY <1>1, <1>11, <1>14, <1>16 DEF WayInv

\* handleMatClkRequest and handleClkTimeoutRequest
LEMMA WayAnswers ==
    ASSUME ShipInv, WayInv, CopiedInTime, NEW p \in Partitions,
           HandleMatClkRequest(p) \/ HandleClkTimeoutRequest(p)
    PROVE  WayInv'
<1>1. /\ UNCHANGED <<logVars, log, copying, txnCache, toSend, sent>>
      /\ inbox[p] # <<>> /\ inbox' = [inbox EXCEPT ![p] = Tail(inbox[p])]
  BY DEF HandleMatClkRequest, HandleClkTimeoutRequest, Handles, replVars
<1>2. inbox[p] \in Seq(LoggerMsg) /\ LogOrder(p) /\ QueueOrder(inbox[p], Passed(p))
  BY DEF ShipInv, TypeOK, WayInv, InboxOrder
<1>3. /\ QueueOrder(Tail(inbox[p]), Passed(p)) /\ Commits(Tail(inbox[p])) \subseteq Commits(inbox[p])
      /\ FromPartition(Head(inbox[p])) =>
            /\ At(Head(inbox[p]).clk) \in Passed(p)
            /\ Below({At(Head(inbox[p]).clk)}, Commits(Tail(inbox[p])))
  BY <1>1, <1>2, QueueTail
<1>4. CASE UNCHANGED <<partsChan, lastSharedPos, currentTxnPos>>
  BY <1>1, <1>3, <1>4, WayInbox
<1>5. CASE HandleMatClkRequest(p) /\ ReplyToReplicator(p, Head(inbox[p]).clk)
  <2>1. FromPartition(Head(inbox[p])) /\ Head(inbox[p]).clk \in Clock
    BY <1>5, HandlesFacts, MessageFacts DEF HandleMatClkRequest, Handles, FromPartition
  <2> QED BY <1>1, <1>3, <1>5, <2>1, WayReply
<1>6. CASE /\ lastSharedPos[p] # currentTxnPos[p]
           /\ ReplyToReplicator(p, log[p][currentTxnPos[p]].clk)
  <2>1. /\ lastSharedPos[p] \in Nat /\ currentTxnPos[p] \in Nat /\ log[p] \in Seq(Entry)
        /\ lastSharedPos[p] <= currentTxnPos[p] /\ currentTxnPos[p] <= Len(log[p])
    BY DEF ShipInv, TypeOK, PositionsOK
  <2>2. PICK n : n = currentTxnPos[p]
    OBVIOUS
  <2>3. n \in (lastSharedPos[p] + 1) .. currentTxnPos[p] /\ n \in 1 .. Len(log[p])
    BY <1>6, <2>1, <2>2
  <2>4. log[p][n] \in Entry
    BY <2>1, <2>3
  <2>5. log[p][n].clk \in Clock
    BY <2>4 DEF Entry
  <2>6. At(log[p][n].clk) \in Unshared(p)
    BY <2>3 DEF Unshared, Slots
  <2>7. At(log[p][n].clk) \in Passed(p)
    BY <1>2, <2>3 DEF LogOrder
  <2>8. Below({At(log[p][n].clk)}, Commits(Tail(inbox[p])))
    BY <1>2, <1>3, <2>6 DEF LogOrder, Below
  <2> QED BY <1>1, <1>6, <2>2, <2>5, <2>7, <2>8, WayReply
<1> QED BY <1>4, <1>5, <1>6 DEF HandleMatClkRequest, HandleClkTimeoutRequest

-----------------------------------------------------------------------------
(* The steps of the replicator *)

LEMMA PassedNumbers ==
    ASSUME ShipInv, NEW p \in Partitions
    PROVE  /\ Passed(p) \subseteq Nat /\ 0 \in Passed(p)
           /\ \A n \in Passed(p), m \in Nat : m <= n => m \in Passed(p)
<1>1. logChan[p] \in Seq(LogRequest)
  BY DEF ShipInv, TypeOK, LogTypeOK
<1>2. ASSUME NEW i \in 1 .. Len(logChan[p]) PROVE At(logChan[p][i].clk) \in Nat
  <2>1. logChan[p][i] \in LogRequest
    BY <1>1
  <2>2. logChan[p][i].clk \in Clock
    BY <2>1, PartitionLogConstants DEF LogRequest
  <2> QED BY <2>2, AtOrdered
<1>3. ASSUME NEW n \in Passed(p), n # 0
      PROVE  n \in Nat /\ \A m \in Nat : m <= n => m \in Passed(p)
  <2>1. PICK i \in 1 .. Len(logChan[p]) : n \in 0 .. At(logChan[p][i].clk)
    BY <1>3 DEF Passed
  <2>2. n \in Nat /\ \A m \in Nat : m <= n => m \in 0 .. At(logChan[p][i].clk)
    BY <1>2, <2>1
  <2> QED BY <2>1, <2>2 DEF Passed
<1>4. 0 \in Passed(p) /\ \A m \in Nat : m <= 0 => m = 0
  BY DEF Passed
<1> QED BY <1>3, <1>4

\* Everything on its way from p is among what p has passed.
LEMMA AheadPassed ==
    ASSUME ShipInv, WayInv, NEW p \in Partitions
    PROVE  Ahead(p) \subseteq Passed(p) /\ Ahead(p) \subseteq Nat
<1>1. LogOrder(p) /\ QueueOrder(inbox[p], Passed(p))
  BY DEF WayInv, InboxOrder
<1>2. Commits(inbox[p]) \subseteq Passed(p)
  BY <1>1 DEF Commits, QueueOrder, FromPartition
<1>3. Unshared(p) \subseteq Passed(p)
  BY <1>1, UnsharedPassed
<1>4. partsChan \in Seq(Reply) /\ copying \in Reply
  BY DEF ShipInv, TypeOK
<1>5. ASSUME NEW j \in 1 .. Len(partsChan), partsChan[j].part = p
      PROVE  Slots(log[p], partsChan[j].from, partsChan[j].to) \subseteq Passed(p)
  <2>1. PICK r \in Reply : r = partsChan[j]
    BY <1>4
  <2>2. ReplyOK(r) /\ r.part = p
    BY <1>5, <2>1 DEF ShipInv, RepliesOK
  <2> QED BY <1>1, <2>1, <2>2, SlicePassed
<1>6. CopyingAt(p) \subseteq Passed(p)
  <2>1. CASE copying.part = p
    <3>1. ReplyOK(copying)
      BY DEF ShipInv, RepliesOK
    <3>2. Slots(log[p], copying.from, copying.to) \subseteq Passed(p)
      BY <1>1, <1>4, <2>1, <3>1, SlicePassed
    <3> QED BY <2>1, <3>2 DEF CopyingAt
  <2>2. CASE copying.part # p
    BY <2>2 DEF CopyingAt
  <2> QED BY <2>1, <2>2
<1>7. \A j \in (0 + 1) .. Len(partsChan) : j \in 1 .. Len(partsChan)
  OBVIOUS
<1>8. Ahead(p) \subseteq Passed(p)
  BY <1>2, <1>3, <1>5, <1>6, <1>7 DEF Ahead, After, RepliesAfter
<1> QED BY <1>8, PassedNumbers

\* The loggers and the replies stay.
LEMMA LoggersStay ==
    ASSUME WayInv, UNCHANGED <<logVars, inbox, log, lastSharedPos, currentTxnPos, partsChan>>
    PROVE  /\ UnloggedAbove'
           /\ \A q \in Partitions : /\ Passed(q)' = Passed(q) /\ InboxOrder(q)' /\ LogOrder(q)'
                                    /\ \A i \in Nat : After(q, i)' = After(q, i)
           /\ copying' = copying =>
                 \A q \in Partitions : RepliesOrder(q)' /\ Ahead(q)' = Ahead(q)
<1>1. UnloggedAbove' /\ \A q \in Partitions : Passed(q)' = Passed(q)
  BY PartitionsStay
<1>2. ASSUME NEW q \in Partitions
      PROVE  InboxOrder(q)' /\ LogOrder(q)' /\ \A i \in Nat : After(q, i)' = After(q, i)
  <2>1. InboxOrder(q) /\ LogOrder(q) /\ Passed(q)' = Passed(q)
    BY <1>1 DEF WayInv
  <2>2. Unshared(q)' = Unshared(q)
    BY DEF Unshared
  <2>3. ASSUME NEW i \in Nat PROVE After(q, i)' = After(q, i)
    BY <2>2 DEF After, RepliesAfter
  <2> QED BY <2>1, <2>2, <2>3 DEF InboxOrder, LogOrder
<1>3. ASSUME copying' = copying, NEW q \in Partitions
      PROVE  RepliesOrder(q)' /\ Ahead(q)' = Ahead(q)
  <2>1. RepliesOrder(q) /\ Passed(q)' = Passed(q)
    BY <1>1 DEF WayInv
  <2>2. \A i \in 1 .. Len(partsChan) : After(q, i)' = After(q, i)
    BY <1>2
  <2>3. After(q, 0)' = After(q, 0)
    BY <1>2
  <2>4. RepliesOrder(q)'
    BY <1>3, <2>1, <2>2, <2>3 DEF RepliesOrder
  <2>5. CopyingAt(q)' = CopyingAt(q)
    BY <1>3 DEF CopyingAt
  <2> QED BY <2>3, <2>4, <2>5 DEF Ahead
<1> QED BY <1>1, <1>2, <1>3

\* An entry goes to the end of a cache, or of what is to be sent.
LEMMA CacheAppend ==
    ASSUME NEW S, NEW c \in Seq(S), NEW e \in S
    PROVE  /\ CacheAt(Append(c, e)) = CacheAt(c) \cup {At(e.clk)}
           /\ CacheTxns(Append(c, e)) \subseteq CacheTxns(c) \cup {At(e.clk)}
           /\ e.txn = NoTxn => CacheTxns(Append(c, e)) \subseteq CacheTxns(c)
           /\ CacheRising(c) /\ (e.txn # NoTxn => Below(CacheAt(c), {At(e.clk)}))
                => CacheRising(Append(c, e))
<1>1. PICK s : s = Append(c, e)
  OBVIOUS
<1>2. /\ Len(c) \in Nat /\ Len(s) = Len(c) + 1 /\ s[Len(c) + 1] = e
      /\ \A i \in 1 .. Len(c) : s[i] = c[i] /\ i \in 1 .. Len(s)
      /\ \A i \in 1 .. Len(s) : i \in 1 .. Len(c) \/ i = Len(c) + 1
  BY <1>1, AppendFacts
<1>3. Len(c) + 1 \in 1 .. Len(s)
  BY <1>2
<1>4. CacheAt(s) \subseteq CacheAt(c) \cup {At(e.clk)}
  BY <1>2 DEF CacheAt
<1>5. CacheAt(c) \subseteq CacheAt(s) /\ At(e.clk) \in CacheAt(s)
  BY <1>2, <1>3 DEF CacheAt
<1>6. ASSUME NEW n \in CacheTxns(s)
      PROVE  n \in CacheTxns(c) \/ (e.txn # NoTxn /\ n = At(e.clk))
  <2>1. PICK i \in 1 .. Len(s) : s[i].txn # NoTxn /\ n = At(s[i].clk)
    BY <1>6 DEF CacheTxns
  <2>2. CASE i \in 1 .. Len(c)
    BY <1>2, <2>1, <2>2 DEF CacheTxns
  <2>3. CASE i = Len(c) + 1
    BY <1>2, <2>1, <2>3
  <2> QED BY <1>2, <2>2, <2>3
<1>7. ASSUME CacheRising(c), e.txn # NoTxn => Below(CacheAt(c), {At(e.clk)}),
             NEW i \in 1 .. Len(s), NEW j \in 1 .. Len(s), i < j, s[j].txn # NoTxn
      PROVE  At(s[i].clk) <= At(s[j].clk)
  <2>1. i \in 1 .. Len(c) /\ s[i] = c[i]
    BY <1>2, <1>7
  <2>2. CASE j \in 1 .. Len(c)
    BY <1>2, <1>7, <2>1, <2>2 DEF CacheRising
  <2>3. CASE j = Len(c) + 1
    <3>1. At(c[i].clk) \in CacheAt(c) /\ s[j] = e
      BY <1>2, <2>1, <2>3 DEF CacheAt
    <3> QED BY <1>7, <2>1, <3>1 DEF Below
  <2> QED BY <1>2, <2>2, <2>3
<1>8. CacheRising(c) /\ (e.txn # NoTxn => Below(CacheAt(c), {At(e.clk)})) => CacheRising(s)
  BY <1>7 DEF CacheRising
<1> QED BY <1>1, <1>4, <1>5, <1>6, <1>8

\* The last entry leaves a cache, or the first.
LEMMA CacheWithoutLast ==
    ASSUME NEW S, NEW c \in Seq(S), c # <<>>
    PROVE  /\ CacheAt(WithoutLast(c)) \subseteq CacheAt(c) /\ CacheTxns(WithoutLast(c)) \subseteq CacheTxns(c)
           /\ CacheRising(c) => CacheRising(WithoutLast(c))
<1>1. PICK s : s = WithoutLast(c)
  OBVIOUS
<1>2. \A i \in 1 .. Len(s) : s[i] = c[i] /\ i \in 1 .. Len(c)
  BY <1>1, WithoutLastFacts
<1>3. CacheAt(s) \subseteq CacheAt(c)
  BY <1>2 DEF CacheAt
<1>4. CacheTxns(s) \subseteq CacheTxns(c)
  BY <1>2 DEF CacheTxns
<1>5. CacheRising(c) => CacheRising(s)
  BY <1>2 DEF CacheRising
<1> QED BY <1>1, <1>3, <1>4, <1>5

LEMMA CacheTail ==
    ASSUME NEW S, NEW c \in Seq(S), c # <<>>
    PROVE  /\ CacheAt(Tail(c)) \subseteq CacheAt(c) /\ CacheTxns(Tail(c)) \subseteq CacheTxns(c)
           /\ CacheRising(c) => CacheRising(Tail(c))
<1>1. PICK s : s = Tail(c)
  OBVIOUS
<1>2. \A i \in 1 .. Len(s) : s[i] = c[i + 1] /\ i + 1 \in 1 .. Len(c)
  BY <1>1, TailFacts
<1>3. CacheAt(s) \subseteq CacheAt(c)
  BY <1>2 DEF CacheAt
<1>4. CacheTxns(s) \subseteq CacheTxns(c)
  BY <1>2 DEF CacheTxns
<1>5. ASSUME CacheRising(c), NEW i \in 1 .. Len(s), NEW j \in 1 .. Len(s), i < j, s[j].txn # NoTxn
      PROVE  At(s[i].clk) <= At(s[j].clk)
  <2>1. i + 1 < j + 1
    BY <1>5
  <2> QED BY <1>2, <1>5, <2>1 DEF CacheRising
<1>6. CacheRising(c) => CacheRising(s)
  BY <1>5 DEF CacheRising
<1> QED BY <1>1, <1>3, <1>4, <1>6

\* The caches lose entries, and nothing new comes ahead of them.
LEMMA CachesShrink ==
    ASSUME WayInv, UNCHANGED <<toSend, sent>>,
           \A q \in Partitions :
              /\ Passed(q)' = Passed(q) /\ Ahead(q)' \subseteq Ahead(q)
              /\ CacheAt(txnCache'[q]) \subseteq CacheAt(txnCache[q])
              /\ CacheTxns(txnCache'[q]) \subseteq CacheTxns(txnCache[q])
              /\ CacheRising(txnCache[q]) => CacheRising(txnCache'[q])
    PROVE  /\ ToSendOrder' /\ ShippedInOrder'
           /\ \A q \in Partitions : CacheOrder(q)' /\ PastOrder(q)'
<1>1. ToSendOrder' /\ ShippedInOrder' /\ Past' = Past
  BY DEF WayInv, ToSendOrder, ShippedInOrder, Past
<1>2. ASSUME NEW q \in Partitions
      PROVE  CacheOrder(q)' /\ PastOrder(q)'
  <2>1. /\ CacheAt(txnCache[q]) \subseteq Passed(q) /\ Below(CacheAt(txnCache[q]), Ahead(q))
        /\ CacheRising(txnCache[q])
        /\ Past \subseteq Passed(q) /\ Below(Past, Ahead(q)) /\ Below(Past, CacheTxns(txnCache[q]))
    BY DEF WayInv, CacheOrder, PastOrder
  <2>2. /\ Below(CacheAt(txnCache'[q]), Ahead(q)') /\ Below(Past, Ahead(q)')
        /\ Below(Past, CacheTxns(txnCache'[q]))
    BY <2>1 DEF Below
  <2>3. CacheOrder(q)'
    BY <2>1, <2>2 DEF CacheOrder
  <2>4. PastOrder(q)'
    BY <1>1, <2>1, <2>2 DEF PastOrder
  <2> QED BY <2>3, <2>4
<1> QED BY <1>1, <1>2

\* getNewTxns receives a reply.
LEMMA WayReceive ==
    ASSUME ShipInv, WayInv, ReceiveReply
    PROVE  WayInv'
<1>1. /\ partsChan \in Seq(Reply) /\ partsChan # <<>> /\ txnCache \in [Partitions -> Seq(Entry)]
      /\ copying' = Head(partsChan) /\ partsChan' = Tail(partsChan) /\ rpc = "collect"
      /\ UNCHANGED <<logVars, inbox, log, lastSharedPos, currentTxnPos, toSend, sent>>
  BY DEF ReceiveReply, ShipInv, TypeOK, loggerVars
<1>2. /\ Head(partsChan) \in Reply /\ copying' = partsChan[1]
      /\ Len(partsChan) \in Nat /\ Len(partsChan) >= 1 /\ Len(partsChan') = Len(partsChan) - 1
      /\ \A i \in 1 .. (Len(partsChan) - 1) : partsChan'[i] = partsChan[i + 1]
  BY <1>1, TailFacts
<1>3. PICK p \in Partitions : p = Head(partsChan).part
  BY <1>2 DEF Reply
<1>4. UnloggedAbove' /\ \A q \in Partitions : Passed(q)' = Passed(q)
  BY <1>1, PartitionsStay
<1>5. ASSUME NEW q \in Partitions
      PROVE  InboxOrder(q)' /\ LogOrder(q)' /\ Unshared(q)' = Unshared(q)
  <2>1. InboxOrder(q) /\ LogOrder(q) /\ Passed(q)' = Passed(q)
    BY <1>4 DEF WayInv
  <2>2. Unshared(q)' = Unshared(q)
    BY <1>1 DEF Unshared
  <2> QED BY <1>1, <2>1, <2>2 DEF InboxOrder, LogOrder
<1>6. ASSUME NEW q \in Partitions, NEW i \in Nat, NEW k, k = i + 1, NEW n \in After(q, i)'
      PROVE  n \in After(q, k) /\ n \in After(q, i)
  <2>1. CASE n \in Commits(inbox'[q]) \cup Unshared(q)'
    BY <1>1, <1>5, <2>1 DEF After
  <2>2. CASE n \notin Commits(inbox'[q]) \cup Unshared(q)'
    <3>1. PICK j \in (i + 1) .. Len(partsChan') :
             partsChan'[j].part = q /\ n \in Slots(log[q], partsChan'[j].from, partsChan'[j].to)
      BY <1>1, <2>2 DEF After, RepliesAfter
    <3>2. PICK h : h = j + 1
      OBVIOUS
    <3>3. h \in (k + 1) .. Len(partsChan) /\ h \in (i + 1) .. Len(partsChan) /\ partsChan'[j] = partsChan[h]
      BY <1>2, <1>6, <3>2
    <3>4. h \in RepliesAfter(q, k) /\ h \in RepliesAfter(q, i)
      BY <3>1, <3>3 DEF RepliesAfter
    <3>5. n \in Slots(log[q], partsChan[h].from, partsChan[h].to)
      BY <3>1, <3>3
    <3> QED BY <3>4, <3>5 DEF After
  <2> QED BY <2>1, <2>2
<1>7. ASSUME NEW q \in Partitions
      PROVE  RepliesOrder(q)'
  <2>0. RepliesOrder(q) /\ Passed(q)' = Passed(q) /\ log' = log
    BY <1>1, <1>4 DEF WayInv
  <2>1. ASSUME NEW i \in Nat, NEW k \in 1 .. Len(partsChan), k = i + 1, partsChan[k].part = q
        PROVE  SliceOrder(log'[q], partsChan[k], Passed(q)', After(q, i)')
    <3>1. SliceOrder(log[q], partsChan[k], Passed(q), After(q, k))
      BY <2>0, <2>1 DEF RepliesOrder
    <3>2. After(q, i)' \subseteq After(q, k)
      BY <1>6, <2>1
    <3> QED BY <2>0, <3>1, <3>2 DEF SliceOrder, Below
  <2>2. ASSUME NEW i \in 1 .. Len(partsChan'), partsChan'[i].part = q
        PROVE  SliceOrder(log'[q], partsChan'[i], Passed(q)', After(q, i)')
    <3>1. PICK k : k = i + 1
      OBVIOUS
    <3>2. i \in Nat /\ k \in 1 .. Len(partsChan) /\ partsChan'[i] = partsChan[k]
      BY <1>2, <3>1
    <3> QED BY <2>1, <2>2, <3>1, <3>2
  <2>3. ASSUME copying'.part = q
        PROVE  SliceOrder(log'[q], copying', Passed(q)', After(q, 0)')
    <3>1. 0 \in Nat /\ 1 \in 1 .. Len(partsChan) /\ 1 = 0 + 1
      BY <1>2
    <3> QED BY <1>2, <2>1, <2>3, <3>1
  <2> QED BY <2>2, <2>3 DEF RepliesOrder
<1>8. ASSUME NEW q \in Partitions
      PROVE  Ahead(q)' \subseteq Ahead(q)
  <2>1. After(q, 0)' \subseteq After(q, 0)
    <3>1. 0 \in Nat /\ 1 = 0 + 1
      OBVIOUS
    <3> QED BY <1>6, <3>1
  <2>2. CopyingAt(q)' \subseteq After(q, 0)
    <3>1. 1 \in (0 + 1) .. Len(partsChan)
      BY <1>2
    <3>2. partsChan[1].part = q => 1 \in RepliesAfter(q, 0)
      BY <3>1 DEF RepliesAfter
    <3> QED BY <1>1, <1>2, <3>2 DEF CopyingAt, After
  <2> QED BY <2>1, <2>2 DEF Ahead
<1>9. ASSUME NEW q \in Partitions
      PROVE  /\ CacheAt(txnCache'[q]) \subseteq CacheAt(txnCache[q])
             /\ CacheTxns(txnCache'[q]) \subseteq CacheTxns(txnCache[q])
             /\ CacheRising(txnCache[q]) => CacheRising(txnCache'[q])
  <2>1. txnCache' = [txnCache EXCEPT ![p] = WithoutLast(txnCache[p])]
    BY <1>3 DEF ReceiveReply
  <2>2. txnCache[p] \in Seq(Entry) /\ txnCache[p] # <<>>
    BY <1>1 DEF ShipInv, CachesOK, CacheOK
  <2>3. CASE q = p
    <3>1. txnCache'[q] = WithoutLast(txnCache[p])
      BY <1>1, <2>1, <2>3
    <3> QED BY <2>2, <2>3, <3>1, CacheWithoutLast
  <2>4. CASE q # p
    <3>1. txnCache'[q] = txnCache[q]
      BY <1>1, <2>1, <2>4
    <3> QED BY <3>1
  <2> QED BY <2>3, <2>4
<1>10. ToSendOrder' /\ ShippedInOrder' /\ \A q \in Partitions : CacheOrder(q)' /\ PastOrder(q)'
  BY <1>1, <1>4, <1>8, <1>9, CachesShrink
<1> QED BY <1>4, <1>5, <1>7, <1>10 DEF WayInv

\* An entry that nothing ahead is below goes to the cache of p.
LEMMA WayCached ==
    ASSUME ShipInv, WayInv, NEW p \in Partitions, NEW e \in Entry,
           txnCache' = [txnCache EXCEPT ![p] = Append(txnCache[p], e)], UNCHANGED <<toSend, sent>>,
           \A q \in Partitions : Passed(q)' = Passed(q) /\ Ahead(q)' \subseteq Ahead(q),
           At(e.clk) \in Passed(p), Below({At(e.clk)}, Ahead(p)'),
           e.txn # NoTxn => At(e.clk) \in Ahead(p)
    PROVE  /\ ToSendOrder' /\ ShippedInOrder'
           /\ \A q \in Partitions : CacheOrder(q)' /\ PastOrder(q)'
<1>1. ToSendOrder' /\ ShippedInOrder' /\ Past' = Past
  BY DEF WayInv, ToSendOrder, ShippedInOrder, Past
<1>2. txnCache \in [Partitions -> Seq(Entry)]
  BY DEF ShipInv, TypeOK
<1>3. ASSUME NEW q \in Partitions
      PROVE  CacheOrder(q)' /\ PastOrder(q)'
  <2>1. /\ CacheAt(txnCache[q]) \subseteq Passed(q) /\ Below(CacheAt(txnCache[q]), Ahead(q))
        /\ CacheRising(txnCache[q])
        /\ Past \subseteq Passed(q) /\ Below(Past, Ahead(q)) /\ Below(Past, CacheTxns(txnCache[q]))
    BY DEF WayInv, CacheOrder, PastOrder
  <2>2. Below(Past, Ahead(q)') /\ Below(CacheAt(txnCache[q]), Ahead(q)')
    BY <2>1 DEF Below
  <2>3. CASE q = p
    <3>1. PICK c \in Seq(Entry) : c = txnCache[q]
      BY <1>2
    <3>2. txnCache'[q] = Append(c, e)
      BY <1>2, <2>3, <3>1
    <3>3. /\ CacheAt(txnCache'[q]) = CacheAt(c) \cup {At(e.clk)}
          /\ CacheTxns(txnCache'[q]) \subseteq CacheTxns(c) \cup {At(e.clk)}
          /\ e.txn = NoTxn => CacheTxns(txnCache'[q]) \subseteq CacheTxns(c)
          /\ CacheRising(c) /\ (e.txn # NoTxn => Below(CacheAt(c), {At(e.clk)}))
                => CacheRising(txnCache'[q])
      BY <3>2, CacheAppend, ZenonT(60)
    <3>4. CacheRising(txnCache'[q])
      BY <2>1, <2>3, <3>1, <3>3 DEF Below
    <3>5. Below(CacheAt(txnCache'[q]), Ahead(q)')
      BY <2>2, <2>3, <3>1, <3>3 DEF Below
    <3>6. Below(Past, CacheTxns(txnCache'[q]))
      BY <2>1, <2>3, <3>1, <3>3 DEF Below
    <3>7. CacheOrder(q)'
      BY <2>1, <2>3, <3>1, <3>3, <3>4, <3>5 DEF CacheOrder
    <3>8. PastOrder(q)'
      BY <1>1, <2>1, <2>2, <3>6 DEF PastOrder
    <3> QED BY <3>7, <3>8
  <2>4. CASE q # p
    <3>1. txnCache'[q] = txnCache[q]
      BY <1>2, <2>4
    <3>2. CacheOrder(q)'
      BY <2>1, <2>2, <3>1 DEF CacheOrder
    <3>3. PastOrder(q)'
      BY <1>1, <2>1, <2>2, <3>1 DEF PastOrder
    <3> QED BY <3>2, <3>3
  <2> QED BY <2>3, <2>4
<1> QED BY <1>1, <1>3

\* The slice is copied, then the stable clock.
LEMMA WayCopy ==
    ASSUME ShipInv, WayInv, CopyEntry
    PROVE  WayInv'
<1>1. /\ copying \in Reply /\ log \in [Partitions -> Seq(Entry)] /\ ReplyOK(copying)
      /\ UNCHANGED <<logVars, inbox, log, lastSharedPos, currentTxnPos, partsChan, toSend, sent>>
  BY DEF CopyEntry, ShipInv, TypeOK, RepliesOK, loggerVars
<1>2. PICK p \in Partitions : p = copying.part
  BY <1>1 DEF Reply
<1>3. PICK a \in Nat, b \in Nat : a = copying.from /\ b = copying.to
  BY <1>1 DEF Reply
<1>4. a <= b /\ b <= Len(log[p]) /\ Len(log[p]) \in Nat
  BY <1>1, <1>2, <1>3 DEF ReplyOK
<1>5. /\ UnloggedAbove'
      /\ \A q \in Partitions : /\ Passed(q)' = Passed(q) /\ InboxOrder(q)' /\ LogOrder(q)'
                               /\ \A i \in Nat : After(q, i)' = After(q, i)
  BY <1>1, LoggersStay
<1>6. /\ LogOrder(p) /\ Rising(log[p], a, b) /\ Below(Slots(log[p], a, b), After(p, 0))
      /\ Below({At(copying.clk)}, After(p, 0)) /\ At(copying.clk) \in Passed(p)
  BY <1>2, <1>3 DEF WayInv, RepliesOrder, SliceOrder
<1>7. ASSUME NEW q \in Partitions, NEW i \in 1 .. Len(partsChan'), partsChan'[i].part = q
      PROVE  SliceOrder(log'[q], partsChan'[i], Passed(q)', After(q, i)')
  <2>1. i \in Nat /\ i \in 1 .. Len(partsChan) /\ RepliesOrder(q)
    BY <1>1, <1>7 DEF WayInv
  <2>2. After(q, i)' = After(q, i) /\ Passed(q)' = Passed(q)
    BY <1>5, <2>1
  <2> QED BY <1>1, <1>7, <2>1, <2>2 DEF RepliesOrder
<1>8. CASE a < b
  <2>1. PICK k \in 1 .. Len(log[p]) : k = a + 1
    BY <1>4, <1>8
  <2>2. PICK e \in Entry : e = log[p][k]
    BY <1>1
  <2>3. /\ txnCache' = [txnCache EXCEPT ![p] = Append(txnCache[p], e)]
        /\ copying' = [copying EXCEPT !.from = k]
    BY <1>2, <1>3, <1>8, <2>1, <2>2 DEF CopyEntry
  <2>4. copying'.part = p /\ copying'.from = k /\ copying'.to = b /\ copying'.clk = copying.clk
    BY <1>1, <1>2, <1>3, <2>3 DEF Reply
  <2>5. At(e.clk) \in Slots(log[p], a, b) /\ Slots(log[p], k, b) \subseteq Slots(log[p], a, b)
    <3>1. k \in (a + 1) .. b /\ \A i \in (k + 1) .. b : i \in (a + 1) .. b
      BY <1>4, <1>8, <2>1
    <3> QED BY <2>2, <3>1 DEF Slots
  <2>6. Rising(log[p], k, b) /\ Below({At(e.clk)}, Slots(log[p], k, b))
    <3>1. \A i \in (k + 1) .. b : i \in (a + 1) .. b /\ k \in (a + 1) .. b /\ k < i
      BY <1>4, <1>8, <2>1
    <3> QED BY <1>6, <2>2, <3>1 DEF Rising, Below, Slots
  <2>7. CopyingAt(p) = Slots(log[p], a, b) /\ CopyingAt(p)' = Slots(log[p], k, b)
    BY <1>1, <1>2, <1>3, <2>4 DEF CopyingAt
  <2>8. \A q \in Partitions \ {p} : CopyingAt(q)' = {}
    BY <2>4 DEF CopyingAt
  <2>9. \A q \in Partitions : After(q, 0)' = After(q, 0)
    BY <1>5
  <2>10. ASSUME NEW q \in Partitions PROVE Ahead(q)' \subseteq Ahead(q)
    BY <2>5, <2>7, <2>8, <2>9 DEF Ahead
  <2>11. Below({At(e.clk)}, Ahead(p)')
    BY <1>6, <2>5, <2>6, <2>7, <2>9 DEF Ahead, Below
  <2>12. At(e.clk) \in Passed(p) /\ At(e.clk) \in Ahead(p)
    <3>1. At(e.clk) \in Passed(p)
      BY <1>6, <2>1, <2>2 DEF LogOrder
    <3> QED BY <2>5, <2>7, <3>1 DEF Ahead
  <2>13. ToSendOrder' /\ ShippedInOrder' /\ \A q \in Partitions : CacheOrder(q)' /\ PastOrder(q)'
    BY <1>1, <1>5, <2>3, <2>10, <2>11, <2>12, WayCached
  <2>14. ASSUME NEW q \in Partitions PROVE RepliesOrder(q)'
    <3>1. ASSUME q = p PROVE SliceOrder(log'[q], copying', Passed(q)', After(q, 0)')
      <4>1. Below(Slots(log[p], k, b), After(p, 0))
        BY <1>6, <2>5 DEF Below
      <4> QED BY <1>1, <1>5, <1>6, <2>4, <2>6, <2>9, <3>1, <4>1 DEF SliceOrder
    <3> QED BY <1>7, <2>4, <3>1 DEF RepliesOrder
  <2> QED BY <1>5, <2>13, <2>14 DEF WayInv
<1>9. CASE a = b
  <2>1. PICK e : e = [txn |-> NoTxn, clk |-> copying.clk]
    OBVIOUS
  <2>2. e \in Entry /\ e.txn = NoTxn /\ e.clk = copying.clk
    BY <1>1, <2>1 DEF Entry, Reply
  <2>3. /\ txnCache' = [txnCache EXCEPT ![p] = Append(txnCache[p], e)] /\ copying' = NoReply
    BY <1>2, <1>3, <1>9, <2>1 DEF CopyEntry
  <2>4. copying'.part = 0 /\ copying'.from = 0 /\ copying'.to = 0 /\ copying'.clk = NewTimestamp
    BY <2>3 DEF NoReply
  <2>5. At(NewTimestamp) = 0 /\ (0 + 1) .. 0 = {}
    BY LogShipConstants DEF At, NewTimestamp
  <2>6. \A q \in Partitions : CopyingAt(q)' = {} /\ After(q, 0)' = After(q, 0)
    BY <1>5, <2>4, <2>5 DEF CopyingAt, Slots
  <2>7. \A q \in Partitions : Ahead(q)' \subseteq Ahead(q)
    BY <2>6 DEF Ahead
  <2>8. Below({At(e.clk)}, Ahead(p)')
    BY <1>6, <2>2, <2>6 DEF Ahead, Below
  <2>9. ToSendOrder' /\ ShippedInOrder' /\ \A q \in Partitions : CacheOrder(q)' /\ PastOrder(q)'
    BY <1>1, <1>5, <1>6, <2>2, <2>3, <2>7, <2>8, WayCached
  <2>10. ASSUME NEW q \in Partitions PROVE RepliesOrder(q)'
    <3>1. After(q, 0)' \subseteq Nat
      BY <2>6, AheadPassed DEF Ahead
    <3>2. SliceOrder(log'[q], copying', Passed(q)', After(q, 0)')
      <4>1. Slots(log'[q], 0, 0) = {} /\ Rising(log'[q], 0, 0)
        BY <2>5 DEF Slots, Rising
      <4>2. Below({0}, After(q, 0)')
        BY <3>1 DEF Below
      <4>3. 0 \in Passed(q)'
        BY <1>5, PassedNumbers
      <4>4. Below({}, After(q, 0)')
        BY DEF Below
      <4> QED BY <2>4, <2>5, <4>1, <4>2, <4>3, <4>4 DEF SliceOrder
    <3> QED BY <1>7, <3>2 DEF RepliesOrder
  <2> QED BY <1>5, <2>9, <2>10 DEF WayInv
<1> QED BY <1>4, <1>8, <1>9

\* The merge takes the lowest of the first entries.
LEMMA WayMerge ==
    ASSUME TimestampsOrdered, ShipInv, KnownClks, WayInv, PrepareDataToSend, ~Scan[NParts].stop
    PROVE  WayInv'
<1>1. /\ rpc = "prepare" /\ txnCache \in [Partitions -> Seq(Entry)] /\ toSend \in Seq(RemoteTxn)
      /\ UNCHANGED <<logVars, inbox, log, lastSharedPos, currentTxnPos, partsChan, copying, sent>>
  BY DEF PrepareDataToSend, ShipInv, TypeOK, loggerVars
<1>2. CachesRead
  BY <1>1 DEF ShipInv, CachesOK, CacheOK, CachesRead
<1>3. PICK s : s = Scan[NParts]
  OBVIOUS
<1>4. /\ s.min \in Clock /\ s.upds \in SUBSET Upd /\ s.upds # {}
      /\ \A u \in s.upds : /\ u.part \in Partitions /\ txnCache[u.part][1].txn \in Txns
                           /\ s.min = txnCache[u.part][1].clk
  BY <1>1, <1>3, MergeFacts
<1>5. PICK v \in Nat : v = At(s.min)
  BY <1>4, AtOrdered
<1>6. PICK x \in RemoteTxn : x = [clk |-> s.min, upds |-> s.upds] /\ x.clk = s.min
  <2>1. [clk |-> s.min, upds |-> s.upds] \in RemoteTxn
    BY <1>4 DEF RemoteTxn
  <2> QED BY <2>1
<1>7. /\ toSend' = Append(toSend, x)
      /\ \A q \in Partitions : txnCache'[q] = txnCache[q] \/ txnCache'[q] = Tail(txnCache[q])
  BY <1>3, <1>6 DEF PrepareDataToSend
<1>8. /\ UnloggedAbove'
      /\ \A q \in Partitions : /\ Passed(q)' = Passed(q) /\ InboxOrder(q)' /\ LogOrder(q)'
                               /\ RepliesOrder(q)' /\ Ahead(q)' = Ahead(q)
  BY <1>1, LoggersStay
<1>9. CacheAt(toSend') = CacheAt(toSend) \cup {v} /\ Past' = Past \cup {v}
  <2>1. CacheAt(toSend') = CacheAt(toSend) \cup {v}
    <3>1. CacheAt(Append(toSend, x)) = CacheAt(toSend) \cup {At(x.clk)}
      BY <1>1, CacheAppend
    <3>2. At(x.clk) = v /\ toSend' = Append(toSend, x)
      BY <1>5, <1>6, <1>7
    <3> QED BY <3>1, <3>2
  <2> QED BY <1>1, <2>1 DEF Past
<1>10. ASSUME NEW q \in Partitions
       PROVE  /\ v \in Passed(q) /\ Below({v}, Ahead(q)) /\ Below({v}, CacheTxns(txnCache[q]))
  <2>1. PICK c \in Seq(Entry) : c = txnCache[q] /\ c # <<>>
    BY <1>2 DEF CachesRead
  <2>2. PICK h : h = At(c[1].clk)
    OBVIOUS
  <2>3. CacheAt(c) \subseteq Passed(q) /\ Below(CacheAt(c), Ahead(q)) /\ CacheRising(c)
    BY <2>1 DEF WayInv, CacheOrder
  <2>4. 1 \in 1 .. Len(c)
    BY <2>1
  <2>5. h \in CacheAt(c) /\ h \in Passed(q) /\ h \in Nat
    BY <2>2, <2>3, <2>4, PassedNumbers DEF CacheAt
  <2>6. v <= h
    <3>1. IsLowerOrEqual(s.min, c[1].clk)
      BY <1>2, <1>3, <2>1, ScanLowest
    <3>2. c[1] \in Entry
      BY <2>1, <2>4
    <3>3. c[1].clk \in Clock
      BY <3>2 DEF Entry
    <3> QED BY <1>4, <1>5, <2>2, <3>1, <3>3, AtOrdered
  <2>7. v \in Passed(q)
    BY <2>5, <2>6, PassedNumbers
  <2>8. ASSUME NEW n \in Ahead(q) PROVE v <= n
    <3>1. h <= n /\ n \in Nat
      BY <2>3, <2>5, AheadPassed DEF Below
    <3> QED BY <2>5, <2>6, <3>1
  <2>9. ASSUME NEW n \in CacheTxns(c) PROVE v <= n
    <3>1. PICK j \in 1 .. Len(c) : c[j].txn # NoTxn /\ n = At(c[j].clk)
      BY <2>9 DEF CacheTxns
    <3>2. n \in CacheAt(c)
      BY <3>1 DEF CacheAt
    <3>3. n \in Nat
      BY <2>3, <3>2, PassedNumbers
    <3>4. CASE j = 1
      BY <2>2, <2>6, <3>1, <3>4
    <3>5. CASE j # 1
      <4>1. 1 < j
        BY <3>5
      <4>2. h <= n
        BY <2>2, <2>3, <2>4, <3>1, <4>1 DEF CacheRising
      <4> QED BY <2>5, <2>6, <3>3, <4>2
    <3> QED BY <3>4, <3>5
  <2> QED BY <2>1, <2>7, <2>8, <2>9 DEF Below
<1>11. Below(Past, {v})
  <2>1. PICK u \in s.upds : TRUE
    BY <1>4
  <2>2. PICK q \in Partitions : q = u.part
    BY <1>4
  <2>3. txnCache[q] \in Seq(Entry) /\ txnCache[q] # <<>> /\ txnCache[q][1].txn \in Txns
    BY <1>2, <1>4, <2>2 DEF CachesRead
  <2>4. 1 \in 1 .. Len(txnCache[q]) /\ txnCache[q][1].txn # NoTxn
    BY <2>3, PartitionLogConstants
  <2>5. v = At(txnCache[q][1].clk)
    BY <1>4, <1>5, <2>2
  <2>6. v \in CacheTxns(txnCache[q])
    BY <2>4, <2>5 DEF CacheTxns
  <2>7. Below(Past, CacheTxns(txnCache[q]))
    BY DEF WayInv, PastOrder
  <2> QED BY <2>6, <2>7 DEF Below
<1>12. ASSUME NEW q \in Partitions
       PROVE  CacheOrder(q)' /\ PastOrder(q)'
  <2>1. /\ CacheAt(txnCache[q]) \subseteq Passed(q) /\ Below(CacheAt(txnCache[q]), Ahead(q))
        /\ CacheRising(txnCache[q])
        /\ Past \subseteq Passed(q) /\ Below(Past, Ahead(q)) /\ Below(Past, CacheTxns(txnCache[q]))
    BY DEF WayInv, CacheOrder, PastOrder
  <2>2. /\ CacheAt(txnCache'[q]) \subseteq CacheAt(txnCache[q])
        /\ CacheTxns(txnCache'[q]) \subseteq CacheTxns(txnCache[q]) /\ CacheRising(txnCache'[q])
    <3>1. txnCache[q] \in Seq(Entry) /\ txnCache[q] # <<>>
      BY <1>2 DEF CachesRead
    <3>2. CASE txnCache'[q] = txnCache[q]
      BY <2>1, <3>2
    <3>3. CASE txnCache'[q] = Tail(txnCache[q])
      BY <2>1, <3>1, <3>3, CacheTail
    <3> QED BY <1>7, <3>2, <3>3
  <2>3. Passed(q)' = Passed(q) /\ Ahead(q)' = Ahead(q)
    BY <1>8
  <2>4. Below(CacheAt(txnCache'[q]), Ahead(q))
    BY <2>1, <2>2 DEF Below
  <2>5. CacheOrder(q)'
    BY <2>1, <2>2, <2>3, <2>4 DEF CacheOrder
  <2>6. Past' \subseteq Passed(q) /\ Below(Past', Ahead(q)) /\ Below(Past', CacheTxns(txnCache'[q]))
    BY <1>9, <1>10, <2>1, <2>2 DEF Below
  <2>7. PastOrder(q)'
    BY <2>3, <2>6 DEF PastOrder
  <2> QED BY <2>5, <2>7
<1>13. ToSendOrder'
  <2>1. Rising(toSend, 0, Len(toSend)) /\ Below(CacheAt(sent), CacheAt(toSend))
    BY DEF WayInv, ToSendOrder
  <2>2. /\ Len(toSend) \in Nat /\ Len(toSend') = Len(toSend) + 1 /\ toSend'[Len(toSend) + 1] = x
        /\ \A i \in 1 .. Len(toSend) : toSend'[i] = toSend[i]
        /\ \A i \in 1 .. Len(toSend') : i \in 1 .. Len(toSend) \/ i = Len(toSend) + 1
    BY <1>1, <1>7, AppendFacts
  <2>3. ASSUME NEW i \in 1 .. Len(toSend'), NEW j \in 1 .. Len(toSend'), i < j
        PROVE  At(toSend'[i].clk) <= At(toSend'[j].clk)
    <3>1. i \in 1 .. Len(toSend) /\ toSend'[i] = toSend[i]
      BY <2>2, <2>3
    <3>2. CASE j \in 1 .. Len(toSend)
      <4>1. i \in (0 + 1) .. Len(toSend) /\ j \in (0 + 1) .. Len(toSend)
        BY <3>1, <3>2
      <4> QED BY <2>1, <2>2, <2>3, <3>1, <3>2, <4>1 DEF Rising
    <3>3. CASE j = Len(toSend) + 1
      <4>1. toSend'[j] = x /\ At(x.clk) = v
        BY <1>5, <1>6, <2>2, <3>3
      <4>2. At(toSend[i].clk) \in Past
        BY <3>1 DEF Past, CacheAt
      <4> QED BY <1>11, <3>1, <4>1, <4>2 DEF Below
    <3> QED BY <2>2, <3>2, <3>3
  <2>4. 0 + 1 = 1
    OBVIOUS
  <2>5. Rising(toSend', 0, Len(toSend'))
    BY <2>3, <2>4 DEF Rising
  <2>6. Below(CacheAt(sent), CacheAt(toSend'))
    BY <1>9, <1>11, <2>1 DEF Below, Past
  <2> QED BY <1>1, <2>5, <2>6 DEF ToSendOrder
<1>14. ShippedInOrder'
  BY <1>1 DEF WayInv, ShippedInOrder
<1> QED BY <1>8, <1>12, <1>13, <1>14 DEF WayInv

\* Steps that leave everything on the way alone
LEMMA WayStays ==
    ASSUME WayInv, UNCHANGED <<logVars, inbox, log, lastSharedPos, currentTxnPos, partsChan, copying,
                               txnCache, toSend, sent>>
    PROVE  WayInv'
<1>1. /\ UnloggedAbove'
      /\ \A q \in Partitions : /\ Passed(q)' = Passed(q) /\ InboxOrder(q)' /\ LogOrder(q)'
                               /\ RepliesOrder(q)' /\ Ahead(q)' = Ahead(q)
  BY LoggersStay
<1>2. ToSendOrder' /\ ShippedInOrder' /\ \A q \in Partitions : CacheOrder(q)' /\ PastOrder(q)'
  BY <1>1, CachesKept
<1> QED BY <1>1, <1>2 DEF WayInv

\* The first n transactions to send are sent.
LEMMA WaySend ==
    ASSUME ShipInv, WayInv, NEW n \in 1 .. Len(toSend), NEW s \in Seq(SentItem), Len(s) = n,
           \A i \in 1 .. n : s[i].clk = toSend[i].clk,
           sent' = sent \o s, toSend' = SubSeq(toSend, n + 1, Len(toSend)),
           UNCHANGED <<logVars, inbox, log, lastSharedPos, currentTxnPos, partsChan, copying, txnCache>>
    PROVE  WayInv'
<1>1. toSend \in Seq(RemoteTxn) /\ sent \in Seq(SentItem) /\ Len(toSend) \in Nat
  BY DEF ShipInv, TypeOK
<1>2. /\ Len(sent) \in Nat /\ Len(sent') = Len(sent) + n
      /\ \A i \in 1 .. Len(sent) : sent'[i] = sent[i]
      /\ \A i \in 1 .. n : sent'[Len(sent) + i] = s[i]
      /\ \A i \in 1 .. Len(sent') : i \in 1 .. Len(sent) \/ \E k \in 1 .. n : i = Len(sent) + k
  BY <1>1, ConcatFacts
<1>3. /\ Len(toSend') = Len(toSend) - n
      /\ \A i \in 1 .. (Len(toSend) - n) : toSend'[i] = toSend[n + i]
  <2>1. PICK a : a = n + 1
    OBVIOUS
  <2>2. PICK b : b = Len(toSend)
    OBVIOUS
  <2>3. toSend' = SubSeq(toSend, a, b) /\ a \in Nat /\ b \in Nat /\ a >= 1 /\ a <= b + 1 /\ b <= Len(toSend)
    BY <1>1, <2>1, <2>2
  <2>4. Len(toSend') = b - n
    BY <1>1, <2>1, <2>3
  <2>5. ASSUME NEW i \in 1 .. (b - n) PROVE toSend'[i] = toSend[n + i]
    <3>1. toSend'[i] = toSend[a + i - 1]
      BY <1>1, <2>1, <2>3
    <3>2. a + i - 1 = n + i
      BY <2>1
    <3> QED BY <3>1, <3>2
  <2> QED BY <2>2, <2>4, <2>5
<1>4. \A i \in 1 .. Len(toSend') : n + i \in 1 .. Len(toSend) /\ toSend'[i] = toSend[n + i]
  BY <1>1, <1>3
<1>5. \A i \in 1 .. n : i \in 1 .. Len(toSend) /\ At(s[i].clk) = At(toSend[i].clk)
  BY <1>1
<1>6. ASSUME NEW i \in 1 .. Len(toSend), NEW j \in 1 .. Len(toSend), i < j
      PROVE  At(toSend[i].clk) <= At(toSend[j].clk)
  <2>1. i \in (0 + 1) .. Len(toSend) /\ j \in (0 + 1) .. Len(toSend)
    OBVIOUS
  <2> QED BY <1>6, <2>1 DEF WayInv, ToSendOrder, Rising
<1>7. ASSUME NEW i \in 1 .. Len(sent), NEW j \in 1 .. Len(toSend)
      PROVE  At(sent[i].clk) <= At(toSend[j].clk)
  <2>1. Below(CacheAt(sent), CacheAt(toSend))
    BY DEF WayInv, ToSendOrder
  <2>2. At(sent[i].clk) \in CacheAt(sent) /\ At(toSend[j].clk) \in CacheAt(toSend)
    BY DEF CacheAt
  <2> QED BY <2>1, <2>2 DEF Below
<1>8. ShippedInOrder'
  <2> SUFFICES ASSUME NEW i \in 1 .. Len(sent'), NEW j \in 1 .. Len(sent'), i < j
               PROVE  At(sent'[i].clk) <= At(sent'[j].clk)
    BY DEF ShippedInOrder, At
  <2>1. CASE i \in 1 .. Len(sent) /\ j \in 1 .. Len(sent)
    BY <1>2, <2>1 DEF WayInv, ShippedInOrder, At
  <2>2. ASSUME i \in 1 .. Len(sent), NEW k \in 1 .. n, j = Len(sent) + k
        PROVE  At(sent'[i].clk) <= At(sent'[j].clk)
    BY <1>2, <1>5, <1>7, <2>2
  <2>3. ASSUME NEW h \in 1 .. n, i = Len(sent) + h, NEW k \in 1 .. n, j = Len(sent) + k
        PROVE  At(sent'[i].clk) <= At(sent'[j].clk)
    <3>1. h < k /\ sent'[i] = s[h] /\ sent'[j] = s[k]
      BY <1>2, <2>3
    <3> QED BY <1>5, <1>6, <3>1
  <2>4. j \in 1 .. Len(sent) => i \in 1 .. Len(sent)
    BY <1>2
  <2> QED BY <1>2, <2>1, <2>2, <2>3, <2>4
<1>9. ToSendOrder'
  <2>1. ASSUME NEW i \in 1 .. Len(toSend'), NEW j \in 1 .. Len(toSend'), i < j
        PROVE  At(toSend'[i].clk) <= At(toSend'[j].clk)
    <3>1. n + i < n + j
      BY <2>1
    <3> QED BY <1>4, <1>6, <3>1
  <2>2. ASSUME NEW i \in 1 .. Len(sent'), NEW j \in 1 .. Len(toSend')
        PROVE  At(sent'[i].clk) <= At(toSend'[j].clk)
    <3>1. CASE i \in 1 .. Len(sent)
      BY <1>2, <1>4, <1>7, <3>1
    <3>2. ASSUME NEW k \in 1 .. n, i = Len(sent) + k PROVE At(sent'[i].clk) <= At(toSend'[j].clk)
      <4>1. k < n + j /\ sent'[i] = s[k]
        BY <1>2, <3>2
      <4> QED BY <1>4, <1>5, <1>6, <4>1
    <3> QED BY <1>2, <3>1, <3>2
  <2>3. 0 + 1 = 1
    OBVIOUS
  <2>4. Rising(toSend', 0, Len(toSend'))
    BY <2>1, <2>3, ZenonT(60) DEF Rising
  <2>5. Below(CacheAt(sent'), CacheAt(toSend'))
    <3> SUFFICES ASSUME NEW a \in CacheAt(sent'), NEW b \in CacheAt(toSend') PROVE a <= b
      BY DEF Below
    <3>1. PICK i \in 1 .. Len(sent') : a = At(sent'[i].clk)
      BY DEF CacheAt
    <3>2. PICK j \in 1 .. Len(toSend') : b = At(toSend'[j].clk)
      BY DEF CacheAt
    <3> QED BY <2>2, <3>1, <3>2
  <2> QED BY <2>4, <2>5 DEF ToSendOrder
<1>10. Past' \subseteq Past
  <2>1. ASSUME NEW i \in 1 .. Len(sent') PROVE At(sent'[i].clk) \in Past
    <3>1. CASE i \in 1 .. Len(sent)
      BY <1>2, <3>1 DEF Past, CacheAt
    <3>2. ASSUME NEW k \in 1 .. n, i = Len(sent) + k PROVE At(sent'[i].clk) \in Past
      BY <1>2, <1>5, <3>2 DEF Past, CacheAt
    <3> QED BY <1>2, <3>1, <3>2
  <2>2. ASSUME NEW i \in 1 .. Len(toSend') PROVE At(toSend'[i].clk) \in Past
    BY <1>4 DEF Past, CacheAt
  <2>3. CacheAt(sent') \subseteq Past
    BY <2>1 DEF CacheAt
  <2>4. CacheAt(toSend') \subseteq Past
    BY <2>2 DEF CacheAt
  <2>5. Past' = CacheAt(sent') \cup CacheAt(toSend')
    BY DEF Past
  <2> QED BY <2>3, <2>4, <2>5
<1>11. /\ UnloggedAbove'
       /\ \A q \in Partitions : /\ Passed(q)' = Passed(q) /\ InboxOrder(q)' /\ LogOrder(q)'
                                /\ RepliesOrder(q)' /\ Ahead(q)' = Ahead(q)
  BY LoggersStay
<1>12. ASSUME NEW q \in Partitions
       PROVE  CacheOrder(q)' /\ PastOrder(q)'
  <2>1. CacheOrder(q) /\ PastOrder(q) /\ txnCache'[q] = txnCache[q]
    BY DEF WayInv
  <2>2. CacheOrder(q)'
    BY <1>11, <2>1 DEF CacheOrder
  <2>3. PastOrder(q)'
    BY <1>10, <1>11, <2>1 DEF PastOrder, Below
  <2> QED BY <2>2, <2>3
<1> QED BY <1>8, <1>9, <1>11, <1>12 DEF WayInv

\* SendTxnsIndividually, sendGroupTxns and the stable clock
LEMMA WaySends ==
    ASSUME ShipInv, WayInv, SendTxnsIndividually \/ SendGroupTxns \/ SendStableClk
    PROVE  WayInv'
<1>1. /\ toSend \in Seq(RemoteTxn) /\ sent \in Seq(SentItem) /\ nMsgs \in Nat
      /\ Len(toSend) \in Nat /\ Len(sent) \in Nat
  BY DEF ShipInv, TypeOK
<1>2. UNCHANGED <<logVars, inbox, log, lastSharedPos, currentTxnPos, partsChan, copying, txnCache>>
  BY DEF SendTxnsIndividually, SendGroupTxns, SendStableClk, loggerVars
<1>3. ASSUME NEW n \in 1 .. Len(toSend), sent' = sent \o Individually(n) \/ sent' = sent \o InGroup(n),
             toSend' = SubSeq(toSend, n + 1, Len(toSend))
      PROVE  WayInv'
  <2>0. n \in 0 .. Len(toSend)
    BY <1>1
  <2>1. /\ Individually(n) \in Seq(SentItem) /\ Len(Individually(n)) = n
        /\ InGroup(n) \in Seq(SentItem) /\ Len(InGroup(n)) = n
    BY <1>1, <2>0, SentItems
  <2>2. \A i \in 1 .. n : Individually(n)[i].clk = toSend[i].clk /\ InGroup(n)[i].clk = toSend[i].clk
    BY DEF Individually, InGroup
  <2>3. CASE sent' = sent \o Individually(n)
    BY <1>2, <1>3, <2>1, <2>2, <2>3, WaySend
  <2>4. CASE sent' = sent \o InGroup(n)
    BY <1>2, <1>3, <2>1, <2>2, <2>4, WaySend
  <2> QED BY <1>3, <2>3, <2>4
<1>4. CASE SendTxnsIndividually
  <2>1. toSend # <<>> /\ sent' = sent \o Individually(Len(toSend)) /\ toSend' = <<>>
    BY <1>4 DEF SendTxnsIndividually, ShipInv, PhaseOK
  <2>2. PICK n \in 1 .. Len(toSend) : n = Len(toSend)
    BY <1>1, <2>1
  <2>3. SubSeq(toSend, n + 1, Len(toSend)) = <<>>
    <3>1. SubSeq(toSend, n + 1, n) = <<>>
      BY <1>1, <2>2
    <3> QED BY <2>2, <3>1
  <2>4. sent' = sent \o Individually(n) /\ toSend' = SubSeq(toSend, n + 1, Len(toSend))
    BY <2>1, <2>2, <2>3
  <2> QED BY <1>3, <2>4
<1>5. CASE SendGroupTxns
  <2>1. toSend # <<>>
    BY <1>5 DEF SendGroupTxns, ShipInv, PhaseOK
  <2>2. PICK n \in 1 .. Len(toSend) : n = GroupEnd
    BY <1>1, <2>1, GroupEndFacts
  <2>3. /\ sent' = sent \o Individually(n) \/ sent' = sent \o InGroup(n)
        /\ toSend' = SubSeq(toSend, n + 1, Len(toSend))
    BY <1>5, <2>2 DEF SendGroupTxns
  <2> QED BY <1>3, <2>3
<1>6. CASE SendStableClk
  <2>1. sent # <<>> /\ toSend' = toSend
    BY <1>6 DEF SendStableClk, ShipInv, PhaseOK
  <2>2. PICK n \in 1 .. Len(sent) : n = Len(sent)
    BY <1>1, <2>1
  <2>3. PICK ts : ts = UpdateForcedPos(NewTimestamp, Self, sent[n].clk[Self])
    OBVIOUS
  <2>4. PICK x : x = [kind |-> "clk", msg |-> nMsgs + 1, clk |-> ts, upds |-> {}]
    OBVIOUS
  <2>5. sent' = Append(sent, x)
    BY <1>6, <2>2, <2>3, <2>4 DEF SendStableClk
  <2>6. sent[n] \in SentItem
    BY <1>1
  <2>7. sent[n].clk \in Clock
    BY <2>6 DEF SentItem
  <2>8. ts \in Clock /\ At(ts) = At(sent[n].clk)
    BY <2>3, <2>7, LogShipConstants DEF UpdateForcedPos, NewTimestamp, At, Clock
  <2>9. x \in SentItem /\ At(x.clk) = At(sent[n].clk) /\ At(sent[n].clk) \in Nat
    <3>1. nMsgs + 1 \in Nat
      BY <1>1
    <3>2. x \in SentItem /\ x.clk = ts
      BY <2>4, <2>8, <3>1 DEF SentItem
    <3> QED BY <2>7, <2>8, <3>2, AtOrdered
  <2>10. CacheAt(sent') = CacheAt(sent)
    <3>1. CacheAt(sent') = CacheAt(sent) \cup {At(sent[n].clk)}
      BY <1>1, <2>5, <2>9, CacheAppend, ZenonT(60)
    <3>2. At(sent[n].clk) \in CacheAt(sent)
      BY DEF CacheAt
    <3> QED BY <3>1, <3>2
  <2>11. ShippedInOrder'
    <3>1. /\ Len(sent') = Len(sent) + 1 /\ sent'[Len(sent) + 1] = x
          /\ \A i \in 1 .. Len(sent) : sent'[i] = sent[i]
          /\ \A i \in 1 .. Len(sent') : i \in 1 .. Len(sent) \/ i = Len(sent) + 1
      BY <1>1, <2>5, <2>9, AppendFacts, SMTT(60)
    <3> SUFFICES ASSUME NEW i \in 1 .. Len(sent'), NEW j \in 1 .. Len(sent'), i < j
                 PROVE  At(sent'[i].clk) <= At(sent'[j].clk)
      BY DEF ShippedInOrder, At
    <3>2. i \in 1 .. Len(sent) /\ sent'[i] = sent[i]
      BY <1>1, <3>1
    <3>3. \A k \in 1 .. Len(sent) : i < k => At(sent[i].clk) <= At(sent[k].clk)
      BY <3>2 DEF WayInv, ShippedInOrder, At
    <3>4. CASE j \in 1 .. Len(sent)
      BY <3>1, <3>2, <3>3, <3>4
    <3>5. CASE j = Len(sent) + 1
      <4>1. At(sent'[j].clk) = At(sent[n].clk)
        BY <2>9, <3>1, <3>5
      <4>2. CASE i = n
        BY <2>9, <3>2, <4>1, <4>2
      <4>3. CASE i # n
        <5>1. i < n
          BY <1>1, <2>2, <3>2, <4>3
        <5> QED BY <3>2, <3>3, <4>1, <5>1
      <4> QED BY <4>2, <4>3
    <3> QED BY <3>1, <3>4, <3>5
  <2>12. ToSendOrder' /\ Past' = Past
    BY <2>1, <2>10 DEF WayInv, ToSendOrder, Past
  <2>13. /\ UnloggedAbove'
         /\ \A q \in Partitions : /\ Passed(q)' = Passed(q) /\ InboxOrder(q)' /\ LogOrder(q)'
                                  /\ RepliesOrder(q)' /\ Ahead(q)' = Ahead(q)
    BY <1>2, LoggersStay
  <2>14. ASSUME NEW q \in Partitions
         PROVE  CacheOrder(q)' /\ PastOrder(q)'
    <3>1. CacheOrder(q) /\ PastOrder(q) /\ txnCache'[q] = txnCache[q]
      BY <1>2 DEF WayInv
    <3>2. CacheOrder(q)'
      BY <2>13, <3>1 DEF CacheOrder
    <3>3. PastOrder(q)'
      BY <2>12, <2>13, <3>1 DEF PastOrder
    <3> QED BY <3>2, <3>3
  <2> QED BY <2>11, <2>12, <2>13, <2>14 DEF WayInv
<1> QED BY <1>4, <1>5, <1>6

LEMMA WayInit == Init => WayInv
<1> SUFFICES ASSUME Init PROVE WayInv
  OBVIOUS
<1>1. At(NewTimestamp) = 0 /\ 0 \in Partitions
  BY LogShipConstants, PartitionLogConstants DEF At, NewTimestamp, Partitions
<1>2. /\ (0 + 1) .. 0 = {} /\ 1 .. 0 = {} /\ Len(<<>>) = 0
  OBVIOUS
<1>3. UnloggedAbove
  BY DEF Init, LogInit, UnloggedAbove, Unlogged
<1>4. toSend = <<>> /\ sent = <<>> /\ partsChan = <<>> /\ copying = NoReply
  BY DEF Init
<1>5. ToSendOrder /\ ShippedInOrder /\ Past = {}
  <2>1. CacheAt(<<>>) = {}
    BY <1>2 DEF CacheAt
  <2> QED BY <1>2, <1>4, <2>1 DEF ToSendOrder, ShippedInOrder, Past, Rising, Below
<1>6. ASSUME NEW p \in Partitions
      PROVE  InboxOrder(p) /\ LogOrder(p) /\ RepliesOrder(p) /\ CacheOrder(p) /\ PastOrder(p)
  <2>1. /\ inbox[p] = <<>> /\ log[p] = <<>> /\ lastSharedPos[p] = 0 /\ currentTxnPos[p] = 0
        /\ txnCache[p] = <<[txn |-> NoTxn, clk |-> NewTimestamp]>>
    BY DEF Init
  <2>2. 0 \in Passed(p)
    BY DEF Passed
  <2>3. /\ NoReply.from = 0 /\ NoReply.to = 0 /\ NoReply.clk = NewTimestamp
    BY DEF NoReply
  <2>4. \A u : Slots(u, 0, 0) = {} /\ Rising(u, 0, 0)
    BY <1>2 DEF Slots, Rising
  <2>5. Commits(<<>>) = {}
    BY <1>2 DEF Commits
  <2>6. RepliesAfter(p, 0) = {}
    BY <1>2, <1>4 DEF RepliesAfter
  <2>7. After(p, 0) = {} /\ Unshared(p) = {} /\ CopyingAt(p) = {}
    BY <1>4, <2>1, <2>3, <2>4, <2>5, <2>6 DEF After, Unshared, CopyingAt
  <2>8. InboxOrder(p)
    BY <1>2, <2>1 DEF InboxOrder, QueueOrder
  <2>9. LogOrder(p)
    BY <1>2, <2>1, <2>4, <2>7 DEF LogOrder, Below
  <2>10. RepliesOrder(p)
    <3>1. SliceOrder(log[p], NoReply, Passed(p), After(p, 0))
      BY <1>1, <2>2, <2>3, <2>4, <2>7 DEF SliceOrder, Below
    <3> QED BY <1>2, <1>4, <3>1 DEF RepliesOrder
  <2>11. PICK e : e = [txn |-> NoTxn, clk |-> NewTimestamp]
    OBVIOUS
  <2>12. txnCache[p] = <<e>> /\ e.txn = NoTxn /\ e.clk = NewTimestamp
    BY <2>1, <2>11
  <2>13. Len(<<e>>) = 1 /\ <<e>>[1] = e
    OBVIOUS
  <2>14. CacheAt(<<e>>) = {0} /\ CacheTxns(<<e>>) = {} /\ CacheRising(<<e>>)
    BY <1>1, <2>12, <2>13 DEF CacheAt, CacheTxns, CacheRising
  <2>15. CacheOrder(p) /\ PastOrder(p)
    BY <1>5, <2>2, <2>7, <2>12, <2>14 DEF CacheOrder, PastOrder, Below, Ahead
  <2> QED BY <2>8, <2>9, <2>10, <2>15
<1> QED BY <1>3, <1>5, <1>6 DEF WayInv

LEMMA WayNext ==
    ASSUME TimestampsOrdered
    PROVE  ShipInv /\ KnownClks /\ WayInv /\ [Next /\ CopiedInTime]_vars => WayInv'
<1> SUFFICES ASSUME ShipInv, KnownClks, WayInv, [Next /\ CopiedInTime]_vars PROVE WayInv'
  OBVIOUS
<1>1. CASE UNCHANGED vars
  BY <1>1, WayStays DEF vars, loggerVars, replVars
<1>2. CASE Next /\ CopiedInTime
  <2>1. 0 \in Partitions
    BY PartitionLogConstants DEF Partitions
  <2>2. ASSUME NEW t \in Txns, DecideTxn(t) PROVE WayInv'
    BY <1>2, <2>1, <2>2, WayPartitionSteps
  <2>3. ASSUME NEW p \in Partitions, NEW t \in Txns, PartitionCommits(p, t) PROVE WayInv'
    BY <1>2, <2>3, WayPartitionSteps
  <2>4. ASSUME NEW p \in Partitions, PartitionAnswers(p) PROVE WayInv'
    BY <1>2, <2>4, WayPartitionSteps
  <2>5. ASSUME NEW p \in Partitions, Logger(p) PROVE WayInv'
    BY <1>2, <2>5, WayCommitLogged, WayMessages, WayAnswers DEF Logger
  <2>6. ASSUME NEW p \in Partitions, TimerFires(p) \/ SendTimeout(p) PROVE WayInv'
    BY <1>2, <2>6, WayMessages
  <2>7. CASE AskPartition
    <3>1. asked \in Partitions
      BY <2>7, PartitionLogConstants DEF AskPartition, ShipInv, TypeOK, PhaseOK, Partitions
    <3> QED BY <1>2, <2>7, <3>1, WayMessages
  <2>8. CASE PrepareDataToSend
    <3>1. CASE ~Scan[NParts].stop
      BY <2>8, <3>1, WayMerge
    <3>2. CASE Scan[NParts].stop
      <4>1. UNCHANGED <<logVars, inbox, log, lastSharedPos, currentTxnPos, partsChan, copying, txnCache,
                        toSend, sent>>
        BY <2>8, <3>2 DEF PrepareDataToSend, loggerVars
      <4> QED BY <4>1, WayStays
    <3> QED BY <3>1, <3>2
  <2>9. CASE NextCycle
    <3>1. UNCHANGED <<logVars, inbox, log, lastSharedPos, currentTxnPos, partsChan, copying, txnCache,
                      toSend, sent>>
      BY <2>9 DEF NextCycle, loggerVars
    <3> QED BY <3>1, WayStays
  <2>10. ASSUME Replicator PROVE WayInv'
    BY <2>7, <2>8, <2>9, <2>10, WayReceive, WayCopy, WaySends DEF Replicator
  <2> QED BY <1>2, <2>2, <2>3, <2>4, <2>5, <2>6, <2>10 DEF Next
<1> QED BY <1>1, <1>2

\* The other replicas get the transactions in the order of this replica's position in their
\* timestamps, and nothing below a stable clock after it, for every number of partitions,
\* transactions and cycles, with late safe clocks and timeouts, as long as the replicator copies
\* a slice before the logger writes its slots again (preparateDataToSend, replicator.go).
THEOREM InOrder ==
    ASSUME TimestampsOrdered
    PROVE  SpecInTime => []ShippedInOrder
<1>1. SpecInTime => []ShipInv
  BY ShipInvInit, ShipInvNext, PTL DEF SpecInTime
<1>2. SpecInTime => []KnownClks
  BY <1>1, KnownInit, KnownNext, PTL DEF SpecInTime
<1>3. ShipInv /\ KnownClks /\ WayInv /\ [Next /\ CopiedInTime]_vars => WayInv'
  BY WayNext
<1>4. WayInv => ShippedInOrder
  BY DEF WayInv
<1> QED BY <1>1, <1>2, <1>3, <1>4, WayInit, PTL DEF SpecInTime

-----------------------------------------------------------------------------
(* With the whole log kept *)

Slices == {copying} \cup {partsChan[i] : i \in 1 .. Len(partsChan)}

\* What the replicator has to copy lies in the part of the array that the logger has shared.
SlicesShared == \A r \in Slices : r.to <= lastSharedPos[r.part]

\* A slice has a partition and positions.
LEMMA SliceFacts ==
    ASSUME partsChan \in Seq(Reply), copying \in Reply, NEW r \in Slices
    PROVE  r.part \in Partitions /\ r.from \in Nat /\ r.to \in Nat
<1>1. ASSUME NEW i \in 1 .. Len(partsChan) PROVE partsChan[i] \in Reply
  OBVIOUS
<1>2. r \in Reply
  BY <1>1 DEF Slices
<1> QED BY <1>2 DEF Reply

LEMMA SlicesSharedNext ==
    ASSUME KeepWholeLog, ShipInv, SlicesShared, [Next]_vars
    PROVE  SlicesShared'
<1>1. /\ partsChan \in Seq(Reply) /\ copying \in Reply /\ NParts \in Nat /\ NParts >= 1
      /\ lastSharedPos \in [Partitions -> Nat] /\ currentTxnPos \in [Partitions -> Nat]
      /\ \A q \in Partitions : lastSharedPos[q] <= currentTxnPos[q]
  BY PartitionLogConstants DEF ShipInv, TypeOK, PositionsOK
<1>2. \A r \in Slices : r.part \in Partitions /\ r.to \in Nat
  BY <1>1, SliceFacts
<1>3. CASE UNCHANGED <<partsChan, copying, lastSharedPos>>
  BY <1>3 DEF SlicesShared, Slices
<1>4. ASSUME NEW p \in Partitions, NEW clk, ReplyToReplicator(p, clk), UNCHANGED copying
      PROVE  SlicesShared'
  <2> DEFINE r == [part |-> p, from |-> lastSharedPos[p], to |-> currentTxnPos[p], clk |-> clk]
  <2>1. /\ lastSharedPos' = [lastSharedPos EXCEPT ![p] = currentTxnPos[p]]
        /\ partsChan' = Append(partsChan, r)
    BY <1>4 DEF ReplyToReplicator, NextShared
  <2>2. \A q \in Partitions : lastSharedPos[q] <= lastSharedPos'[q]
    BY <1>1, <2>1
  <2>3. r.part = p /\ r.to = currentTxnPos[p] /\ lastSharedPos'[p] = currentTxnPos[p]
    BY <1>1, <2>1
  <2>4. ASSUME NEW s \in Slices' PROVE s \in Slices \/ s = r
    <3> HIDE DEF r
    <3> QED BY <1>1, <1>4, <2>1 DEF Slices
  <2>5. ASSUME NEW s \in Slices' PROVE s.to <= lastSharedPos'[s.part]
    <3>1. CASE s \in Slices
      <4>1. s.to <= lastSharedPos[s.part] /\ s.part \in Partitions /\ s.to \in Nat
        BY <1>2, <3>1 DEF SlicesShared
      <4>2. lastSharedPos'[s.part] \in Nat /\ lastSharedPos[s.part] \in Nat
        BY <1>1, <2>1, <4>1
      <4> QED BY <2>2, <4>1, <4>2
    <3>2. CASE s = r
      BY <1>1, <2>3, <3>2
    <3> QED BY <2>4, <3>1, <3>2
  <2> QED BY <2>5 DEF SlicesShared
<1>5. ASSUME NEW p \in Partitions, HandleMatClkRequest(p) \/ HandleClkTimeoutRequest(p)
      PROVE  SlicesShared'
  <2>1. UNCHANGED copying
    BY <1>5 DEF HandleMatClkRequest, HandleClkTimeoutRequest, replVars
  <2>2. \/ \E clk : ReplyToReplicator(p, clk)
        \/ UNCHANGED <<partsChan, lastSharedPos>>
    BY <1>5 DEF HandleMatClkRequest, HandleClkTimeoutRequest
  <2> QED BY <1>3, <1>4, <2>1, <2>2
<1>6. CASE ReceiveReply
  <2>1. /\ partsChan # <<>> /\ copying' = partsChan[1] /\ partsChan' = Tail(partsChan)
        /\ UNCHANGED lastSharedPos
    BY <1>1, <1>6 DEF ReceiveReply, loggerVars
  <2>2. Slices' \subseteq Slices
    BY <1>1, <2>1 DEF Slices
  <2> QED BY <2>1, <2>2 DEF SlicesShared
<1>7. CASE CopyEntry
  <2>1. UNCHANGED <<partsChan, lastSharedPos>>
    BY <1>7 DEF CopyEntry, loggerVars
  <2>2. copying'.to <= lastSharedPos[copying'.part]
    <3>1. CASE copying' = [copying EXCEPT !.from = @ + 1]
      <4>1. copying'.to = copying.to /\ copying'.part = copying.part
        BY <1>1, <3>1 DEF Reply
      <4> QED BY <4>1 DEF SlicesShared, Slices
    <3>2. CASE copying' = NoReply
      <4>1. copying'.to = 0 /\ copying'.part = 0 /\ lastSharedPos[0] \in Nat
        BY <1>1, <3>2 DEF NoReply, Partitions
      <4> QED BY <4>1
    <3> QED BY <1>7, <3>1, <3>2 DEF CopyEntry
  <2>3. ASSUME NEW s \in Slices' PROVE s = copying' \/ s \in Slices
    BY <2>1 DEF Slices
  <2> QED BY <2>1, <2>2, <2>3 DEF SlicesShared
<1>8. \/ UNCHANGED <<partsChan, copying, lastSharedPos>> \/ ReceiveReply \/ CopyEntry
      \/ \E p \in Partitions : HandleMatClkRequest(p) \/ HandleClkTimeoutRequest(p)
  BY ZenonT(60) DEF Next, DecideTxn, PartitionCommits, PartitionAnswers, Logger, TimerFires, SendTimeout,
         HandleCommitLogRequest, HandleTxnLogRequest, Replicator, AskPartition, PrepareDataToSend,
         SendTxnsIndividually, SendGroupTxns, SendStableClk, NextCycle, loggerVars, replVars, vars
<1> QED BY <1>3, <1>5, <1>6, <1>7, <1>8

\* No slot that the replicator has to copy is written.
LEMMA WholeLogInTime ==
    ASSUME ShipInv, SlicesShared, [Next]_vars
    PROVE  CopiedInTime
<1> SUFFICES ASSUME NEW r \in Slices, NEW i \in (r.from + 1) .. r.to
             PROVE  log'[r.part][i] = log[r.part][i]
  BY DEF CopiedInTime, Slices
<1>1. /\ partsChan \in Seq(Reply) /\ copying \in Reply /\ log \in [Partitions -> Seq(Entry)]
      /\ lastSharedPos \in [Partitions -> Nat] /\ currentTxnPos \in [Partitions -> Nat]
      /\ \A q \in Partitions : lastSharedPos[q] <= currentTxnPos[q] /\ currentTxnPos[q] <= Len(log[q])
  BY DEF ShipInv, TypeOK, PositionsOK
<1>2. r.part \in Partitions /\ r.to \in Nat /\ r.from \in Nat
  BY <1>1, SliceFacts
<1>3. i \in 1 .. currentTxnPos[r.part]
  BY <1>1, <1>2 DEF SlicesShared
<1>4. ASSUME NEW p \in Partitions, HandleCommitLogRequest(p)
      PROVE  log'[r.part][i] = log[r.part][i]
  <2>1. PICK e : log' = [log EXCEPT ![p] = IF currentTxnPos[p] = Len(log[p]) THEN Append(log[p], e)
                                           ELSE [log[p] EXCEPT ![currentTxnPos[p] + 1] = e]]
    BY <1>4 DEF HandleCommitLogRequest
  <2>2. CASE p = r.part
    <3>1. log[p] \in Seq(Entry) /\ i \in 1 .. Len(log[p]) /\ i # currentTxnPos[p] + 1
      BY <1>1, <1>2, <1>3, <2>2, SMTT(60)
    <3>2. Append(log[p], e)[i] = log[p][i]
      BY <3>1
    <3>3. [log[p] EXCEPT ![currentTxnPos[p] + 1] = e][i] = log[p][i]
      BY <3>1
    <3> QED BY <1>1, <2>1, <2>2, <3>2, <3>3
  <2>3. CASE p # r.part
    BY <1>1, <1>2, <2>1, <2>3
  <2> QED BY <2>2, <2>3
<1>5. UNCHANGED log \/ \E p \in Partitions : HandleCommitLogRequest(p)
  BY DEF Next, DecideTxn, PartitionCommits, PartitionAnswers, Logger, TimerFires, SendTimeout,
         HandleMatClkRequest, HandleClkTimeoutRequest, HandleTxnLogRequest, Replicator, AskPartition,
         ReceiveReply, CopyEntry, PrepareDataToSend, SendTxnsIndividually, SendGroupTxns,
         SendStableClk, NextCycle, loggerVars, replVars, vars
<1> QED BY <1>4, <1>5

\* A logger that keeps its whole log (keepWholeLog, logger.go) sends the transactions in order
\* under every scheduling.
THEOREM WholeLogInOrder ==
    ASSUME TimestampsOrdered, KeepWholeLog
    PROVE  Spec => []ShippedInOrder
<1>1. Init => SlicesShared
  BY PartitionLogConstants DEF Init, SlicesShared, Slices, NoReply, Partitions
<1>2. ShipInv /\ SlicesShared /\ [Next]_vars => SlicesShared'
  BY SlicesSharedNext
<1>3. ShipInv /\ SlicesShared /\ [Next]_vars => [Next /\ CopiedInTime]_vars
  BY WholeLogInTime
<1>4. Spec => SpecInTime
  BY <1>1, <1>2, <1>3, Shipping, PTL DEF Spec, SpecInTime
<1> QED BY <1>4, InOrder, PTL

=============================================================================
