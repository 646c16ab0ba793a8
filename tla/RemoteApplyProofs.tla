-------------------------- MODULE RemoteApplyProofs --------------------------
(***************************************************************************)
(* Theorems about handleRemoteMsgs and the partitions it hands remote      *)
(* transactions to: what is sent is applied once, the clocks cover nothing *)
(* that is not applied, and causal order is kept.                          *)
(***************************************************************************)
EXTENDS RemoteApply, TLAPS, FiniteSetTheorems

-----------------------------------------------------------------------------
(* The inductive invariant *)

Ids == Replicas \X Nat

Txn == [clk : Clock, parts : SUBSET Partitions,
        saw : UNION {[P -> SUBSET Ids] : P \in SUBSET Partitions}]

Message == [kind : {"txn", "group", "clk"}, from : Replicas, txns : Seq(Nat), ts : Nat,
            form : {"value", "pointer"}]

RemoteJob == [kind : {"txn", "group", "clk"}, from : Replicas, txns : Seq(Ids),
              todo : SUBSET Partitions, clk : Clock]

TypesOK ==
    /\ log \in [Replicas -> Seq(Txn)]
    /\ shipped \in [Replicas -> Nat]
    /\ link \in [Replicas -> [Replicas -> Seq(Message)]]
    /\ localClock \in [Replicas -> Clock]
    /\ stableClk \in [Replicas -> [Partitions -> Clock]]
    /\ db \in [Replicas -> [Partitions -> Seq(Ids)]]
    /\ downstreamQueue \in [Replicas -> [Replicas -> Seq(Message)]]
    /\ remote \in [Replicas -> {Idle} \cup RemoteJob]
    /\ downstreamOpsCh \in [Replicas -> Seq(SUBSET Partitions)]

\* t is a transaction that updates p.
Updates(t, p) == t \in Ids /\ t[2] \in 1 .. Len(log[t[1]]) /\ p \in log[t[1]][t[2]].parts

\* The position of its own replica numbers the transactions, no position is ahead of the
\* replica it is about, and a transaction saw earlier ones.
TxnOK(s, n) ==
    /\ log[s][n].clk[s] = n
    /\ \A q \in Replicas : log[s][n].clk[q] <= Len(log[q])
    /\ log[s][n].saw \in [log[s][n].parts -> SUBSET Ids]
    /\ \A p \in log[s][n].parts : \A t \in log[s][n].saw[p] :
           Updates(t, p) /\ (t[1] = s => t[2] < n)

LogOK == \A s \in Replicas : /\ shipped[s] <= Len(log[s])
                             /\ \A n \in 1 .. Len(log[s]) : TxnOK(s, n)

\* No clock is ahead of what was committed.
ClockOK(c) == \A q \in Replicas : c[q] <= Len(log[q])

ClocksOK ==
    \A r \in Replicas : /\ ClockOK(localClock[r])
                        /\ \A p \in Partitions : ClockOK(stableClk[r][p])
                        /\ remote[r] # Idle => ClockOK(remote[r].clk)

\* A message of s carries transactions that were sent, in order and with equal dependencies.
MessageOK(m, s) ==
    /\ m.from = s
    /\ \A i \in 1 .. Len(m.txns) : m.txns[i] \in 1 .. shipped[s]
    /\ \A i, j \in 1 .. Len(m.txns) : i < j => m.txns[i] < m.txns[j]
    /\ m.kind = "clk" <=> m.txns = <<>>
    /\ m.ts <= shipped[s]
    /\ \A i \in 1 .. Len(m.txns) : \A q \in Replicas \ {s} :
           log[s][m.txns[i]].clk[q] = log[s][m.txns[1]].clk[q]

\* The messages on a link are in order, a clock before what it does not cover.
LinkOK(s, r) ==
    /\ r = s => link[s][r] = <<>>
    /\ \A i \in 1 .. Len(link[s][r]) : MessageOK(link[s][r][i], s)
    /\ \A i, j \in 1 .. Len(link[s][r]) : i < j =>
           \A b \in 1 .. Len(link[s][r][j].txns) :
               /\ link[s][r][i].ts < link[s][r][j].txns[b]
               /\ \A a \in 1 .. Len(link[s][r][i].txns) :
                      link[s][r][i].txns[a] < link[s][r][j].txns[b]

\* What is on hold are pointers, and no transaction is there twice.
QueueOK(r, s) ==
    /\ \A i \in 1 .. Len(downstreamQueue[r][s]) :
           /\ MessageOK(downstreamQueue[r][s][i], s)
           /\ downstreamQueue[r][s][i].form = "pointer"
    /\ \A i, j \in 1 .. Len(downstreamQueue[r][s]) : i # j =>
           \A a \in 1 .. Len(downstreamQueue[r][s][i].txns), b \in 1 .. Len(downstreamQueue[r][s][j].txns) :
               downstreamQueue[r][s][i].txns[a] # downstreamQueue[r][s][j].txns[b]

\* What the partitions are applying comes from one message.
JobOK(r) == remote[r] # Idle =>
    /\ remote[r].from # r
    /\ \A i \in 1 .. Len(remote[r].txns) :
           /\ remote[r].txns[i][1] = remote[r].from
           /\ remote[r].txns[i][2] \in 1 .. shipped[remote[r].from]
           /\ \A q \in Replicas \ {remote[r].from} :
                  log[remote[r].from][remote[r].txns[i][2]].clk[q] = remote[r].clk[q]
    /\ \A i, j \in 1 .. Len(remote[r].txns) : i < j => remote[r].txns[i][2] < remote[r].txns[j][2]

\* A partition has applied transactions that update it, none of them twice.
DbOK(r, p) ==
    /\ \A i \in 1 .. Len(db[r][p]) :
           /\ Updates(db[r][p][i], p)
           /\ db[r][p][i][1] # r => db[r][p][i][2] <= shipped[db[r][p][i][1]]
    /\ \A i, j \in 1 .. Len(db[r][p]) : i # j => db[r][p][i] # db[r][p][j]

\* Where the n-th transaction of s may be
InMessages(msgs, n) == \E i \in 1 .. Len(msgs) : \E k \in 1 .. Len(msgs[i].txns) : msgs[i].txns[k] = n

InLink(s, r, n)  == InMessages(link[s][r], n)
InQueue(r, s, n) == InMessages(downstreamQueue[r][s], n)
InJob(r, s, n)   == remote[r] # Idle /\ \E k \in 1 .. Len(remote[r].txns) : remote[r].txns[k] = Id(s, n)
InDb(r, p, s, n) == \E i \in 1 .. Len(db[r][p]) : db[r][p][i] = Id(s, n)

\* It is in one place for each partition that it updates, and whatever is not on the link
\* any more comes before whatever is.
PlaceOK(r, s, n) ==
    /\ InLink(s, r, n) => \A k \in 1 .. shipped[s] :
           /\ InQueue(r, s, k) \/ InJob(r, s, k) => k < n
           /\ \A p \in Partitions : InDb(r, p, s, k) => k < n
    /\ InQueue(r, s, n) => ~InJob(r, s, n) /\ \A p \in Partitions : ~InDb(r, p, s, n)
    /\ InJob(r, s, n) => \A p \in remote[r].todo : ~InDb(r, p, s, n)
    /\ \A p \in log[s][n].parts :
           \/ InLink(s, r, n) \/ InQueue(r, s, n) \/ InDb(r, p, s, n)
           \/ InJob(r, s, n) /\ p \in remote[r].todo

\* A replica's own transactions are applied when they commit.
OwnOK(r) == \A n \in 1 .. Len(log[r]) : \A p \in log[r][n].parts : InDb(r, p, r, n)

\* The clock covers nothing of s that r has not received yet.
CoversReceived(c, s, r) ==
    /\ c[s] <= shipped[s]
    /\ \A n \in 1 .. shipped[s] : InLink(s, r, n) => c[s] < n

CoverOK(r) == ~OnHold(r) => \A s \in Replicas \ {r} :
    /\ CoversReceived(localClock[r], s, r)
    /\ \A p \in Partitions : CoversReceived(stableClk[r][p], s, r)
    /\ remote[r] # Idle => CoversReceived(remote[r].clk, s, r)

LinksOK  == \A r, s \in Replicas : LinkOK(s, r)
QueuesOK == \A r, s \in Replicas : QueueOK(r, s)
JobsOK   == \A r \in Replicas : JobOK(r)
DbsOK    == \A r \in Replicas : \A p \in Partitions : DbOK(r, p)
OwnsOK   == \A r \in Replicas : OwnOK(r)
PlacesOK == \A r, s \in Replicas : r # s => \A n \in 1 .. shipped[s] : PlaceOK(r, s, n)
CoversOK == \A r \in Replicas : CoverOK(r)

RemoteInv ==
    /\ TypesOK /\ LogOK /\ ClocksOK /\ LinksOK /\ QueuesOK /\ JobsOK
    /\ DbsOK /\ OwnsOK /\ PlacesOK /\ CoversOK

-----------------------------------------------------------------------------
(* Numbers and sequences *)

\* A set of numbers that is not empty has a lowest one.
LEMMA LowestNumber ==
    ASSUME NEW S \in SUBSET Nat, S # {}
    PROVE  \E m \in S : \A n \in S : m <= n
<1> DEFINE R == OpToRel(<, Nat)
<1>1. IsWellFoundedOn(R, Nat)
  BY NatLessThanWellFounded
<1>2. \A m, n \in Nat : m < n => <<m, n>> \in R
  BY DEF OpToRel
<1> HIDE DEF R
<1>3. PICK m \in S : \A n \in S : ~(<<n, m>> \in R)
  BY <1>1, WFMin
<1>4. \A n \in S : ~(n < m)
  BY <1>2, <1>3
<1> QED BY <1>4

\* What holds of the first number and of the next one after each holds of all.
LEMMA AllReached ==
    ASSUME NEW N \in Nat, NEW S, 0 \in S, \A n \in 0 .. (N - 1) : n \in S => n + 1 \in S
    PROVE  0 .. N \subseteq S
<1> SUFFICES ASSUME NEW k \in 0 .. N, k \notin S
             PROVE  FALSE
  OBVIOUS
<1>0. (0 .. N) \ S \in SUBSET Nat /\ (0 .. N) \ S # {}
  OBVIOUS
<1>1. PICK m \in (0 .. N) \ S : \A n \in (0 .. N) \ S : m <= n
  BY <1>0, LowestNumber
<1>2. m - 1 \in 0 .. (N - 1) /\ m - 1 \in S /\ (m - 1) + 1 = m
  BY <1>1
<1> QED BY <1>1, <1>2

\* Append, entry by entry.
LEMMA AppendFacts ==
    ASSUME NEW S, NEW s \in Seq(S), NEW x \in S
    PROVE  /\ Append(s, x) \in Seq(S) /\ Len(s) \in Nat /\ Len(Append(s, x)) = Len(s) + 1
           /\ \A i \in 1 .. Len(s) : Append(s, x)[i] = s[i] /\ i \in 1 .. Len(Append(s, x))
           /\ Append(s, x)[Len(s) + 1] = x
           /\ \A i \in 1 .. Len(Append(s, x)) : i \in 1 .. Len(s) \/ i = Len(s) + 1
OBVIOUS

\* Tail, entry by entry.
LEMMA TailFacts ==
    ASSUME NEW S, NEW s \in Seq(S), s # <<>>
    PROVE  /\ Tail(s) \in Seq(S) /\ Len(s) \in Nat /\ Len(s) >= 1 /\ Len(Tail(s)) = Len(s) - 1
           /\ \A i \in 1 .. (Len(s) - 1) : Tail(s)[i] = s[i + 1]
           /\ Head(s) = s[1] /\ Head(s) \in S
OBVIOUS

\* Two sequences one after the other, entry by entry.
LEMMA ConcatFacts ==
    ASSUME NEW S, NEW s \in Seq(S), NEW t \in Seq(S)
    PROVE  /\ s \o t \in Seq(S) /\ Len(s) \in Nat /\ Len(t) \in Nat /\ Len(s \o t) = Len(s) + Len(t)
           /\ \A i \in 1 .. Len(s) : (s \o t)[i] = s[i] /\ i \in 1 .. Len(s \o t)
           /\ \A j \in 1 .. Len(t) : (s \o t)[Len(s) + j] = t[j] /\ Len(s) + j \in 1 .. Len(s \o t)
           /\ \A i \in 1 .. Len(s \o t) : i \in 1 .. Len(s) \/ (i - Len(s) \in 1 .. Len(t) /\ i = Len(s) + (i - Len(s)))
OBVIOUS

\* What is in a sequence has a place there.
LEMMA InRange ==
    ASSUME NEW S, NEW s \in Seq(S), NEW x
    PROVE  x \in Range(s) <=> \E i \in 1 .. Len(s) : s[i] = x
BY DEF Range

\* f starts with start and goes on with step.
Follows(f, N, start, step) == f[0] = start /\ \A i \in 1 .. N : f[i] = step[<<f[i - 1], i>>]

\* A recursion over 0..N that stays in V has a solution.
LEMMA Recursion ==
    ASSUME NEW N \in Nat, NEW V, NEW start \in V, NEW step \in [V \X (1 .. N) -> V]
    PROVE  \E f \in [0 .. N -> V] : Follows(f, N, start, step)
<1> DEFINE Good(f, n) == /\ f[0] = start
                         /\ \A i \in 1 .. n : f[i] = step[<<f[i - 1], i>>]
           S == {n \in 0 .. N : \E f \in [0 .. n -> V] : Good(f, n)}
<1>1. 0 \in S
  <2>1. [i \in 0 .. 0 |-> start] \in [0 .. 0 -> V] /\ Good([i \in 0 .. 0 |-> start], 0)
    OBVIOUS
  <2> HIDE DEF Good
  <2> QED BY <2>1
<1>2. ASSUME NEW n \in 0 .. (N - 1), n \in S
      PROVE  n + 1 \in S
  <2>1. PICK f \in [0 .. n -> V] : Good(f, n)
    BY <1>2
  <2> DEFINE x == step[<<f[n], n + 1>>]
             g == [i \in 0 .. (n + 1) |-> IF i = n + 1 THEN x ELSE f[i]]
  <2>2. f[n] \in V /\ n + 1 \in 1 .. N
    OBVIOUS
  <2>3. <<f[n], n + 1>> \in V \X (1 .. N)
    BY <2>2
  <2>4. x \in V
    BY <2>3
  <2>5. g \in [0 .. (n + 1) -> V]
    BY <2>4
  <2>6. \A i \in 0 .. n : g[i] = f[i]
    OBVIOUS
  <2>7. g[n + 1] = x
    OBVIOUS
  <2> HIDE DEF g
  <2>8. ASSUME NEW i \in 1 .. (n + 1)
        PROVE  g[i] = step[<<g[i - 1], i>>]
    <3>1. CASE i = n + 1
      <4>1. i - 1 = n /\ n \in 0 .. n
        BY <3>1
      <4> QED BY <2>6, <2>7, <3>1, <4>1
    <3>2. CASE i \in 1 .. n
      <4>1. i - 1 \in 0 .. n /\ i \in 0 .. n
        BY <3>2
      <4> QED BY <2>1, <2>6, <3>2, <4>1
    <3> QED BY <3>1, <3>2
  <2>9. Good(g, n + 1)
    BY <2>1, <2>6, <2>8
  <2> HIDE DEF Good
  <2> QED BY <2>5, <2>9
<1>3. N \in S
  <2> HIDE DEF S
  <2> QED BY <1>1, <1>2, AllReached
<1> QED BY <1>3 DEF Follows

-----------------------------------------------------------------------------
(* What a partition takes of a message *)

\* UpdatesOf is what its recursion describes.
LEMMA UpdatesOfSteps ==
    ASSUME NEW p, NEW txns \in Seq(Ids)
    PROVE  \E f : /\ f[0] = <<>>
                  /\ \A i \in 1 .. Len(txns) :
                        f[i] = IF p \in TxnOf(txns[i]).parts THEN Append(f[i - 1], txns[i]) ELSE f[i - 1]
                  /\ UpdatesOf(p, txns) = f[Len(txns)]
<1> DEFINE N == Len(txns)
           V == Seq(Ids)
           Took(s, i) == IF p \in TxnOf(txns[i]).parts THEN Append(s, txns[i]) ELSE s
           step == [x \in V \X (1 .. N) |-> Took(x[1], x[2])]
           Body(w) == [i \in 0 .. N |-> IF i = 0 THEN <<>>
                          ELSE IF p \in TxnOf(txns[i]).parts THEN Append(w[i - 1], txns[i]) ELSE w[i - 1]]
<1>0. N \in Nat /\ <<>> \in V
  OBVIOUS
<1>1. \A s \in V, i \in 1 .. N : Took(s, i) \in V
  OBVIOUS
<1>2. step \in [V \X (1 .. N) -> V]
  <2> HIDE DEF Took, V, N
  <2> QED BY <1>1
<1>3. \A s \in V, i \in 1 .. N : step[<<s, i>>] = Took(s, i)
  <2> HIDE DEF Took, V, N
  <2> QED OBVIOUS
<1>4. PICK f \in [0 .. N -> V] : f[0] = <<>> /\ \A i \in 1 .. N : f[i] = step[<<f[i - 1], i>>]
  <2> DEFINE start == <<>>
  <2>1. start \in V
    BY <1>0
  <2> HIDE DEF step, V, N, start
  <2>2. \E f \in [0 .. N -> V] : Follows(f, N, start, step)
    BY <1>0, <1>2, <2>1, Recursion
  <2> QED BY <2>2 DEF start, Follows
<1>5. \A i \in 1 .. N : f[i - 1] \in V
  BY SMTT(60), <1>0, <1>4
<1>6. \A i \in 1 .. N : f[i] = Took(f[i - 1], i)
  <2>1. ASSUME NEW i \in 1 .. N
        PROVE  f[i] = Took(f[i - 1], i)
    <3> HIDE DEF step, V, N, Took
    <3>1. f[i - 1] \in V
      BY <1>5
    <3>2. step[<<f[i - 1], i>>] = Took(f[i - 1], i)
      BY <1>3, <3>1
    <3> QED BY <1>4, <3>2
  <2> HIDE DEF step, V, N, Took
  <2> QED BY <2>1
<1>7. f = Body(f)
  <2> HIDE DEF V, step
  <2>1. ASSUME NEW i \in 0 .. N
        PROVE  f[i] = Body(f)[i]
    <3>1. i = 0 \/ i \in 1 .. N
      BY <1>0
    <3> QED BY <1>4, <1>6, <3>1
  <2>2. DOMAIN f = 0 .. N /\ f = [i \in 0 .. N |-> f[i]]
    BY <1>4
  <2> QED BY <2>1, <2>2
<1> DEFINE P(w) == w = Body(w)
<1>8. P(CHOOSE w : P(w))
  <2>1. \E w : P(w)
    BY ZenonT(60), <1>7
  <2> HIDE DEF P
  <2> QED BY <2>1
<1> DEFINE F == CHOOSE w : P(w)
<1>9. UpdatesOf(p, txns) = F[N]
  BY DEF UpdatesOf
<1>10. F = Body(F)
  BY ZenonT(60), <1>8
<1> HIDE DEF F
<1>11. F[0] = <<>>
  BY <1>0, <1>10
<1>12. ASSUME NEW i \in 1 .. N
       PROVE  F[i] = IF p \in TxnOf(txns[i]).parts THEN Append(F[i - 1], txns[i]) ELSE F[i - 1]
  <2>1. i \in 0 .. N /\ i # 0
    BY <1>0
  <2>2. F[i] = Body(F)[i]
    BY <1>10
  <2> QED BY <2>1, <2>2
<1> QED BY <1>9, <1>11, <1>12

\* It holds those of the transactions that update p, in the order they came.
LEMMA UpdatesOfFacts ==
    ASSUME NEW p, NEW txns \in Seq(Ids),
           \A i, j \in 1 .. Len(txns) : i < j => txns[i][2] < txns[j][2]
    PROVE  /\ UpdatesOf(p, txns) \in Seq(Ids)
           /\ \A k \in 1 .. Len(UpdatesOf(p, txns)) : \E i \in 1 .. Len(txns) :
                  UpdatesOf(p, txns)[k] = txns[i] /\ p \in TxnOf(txns[i]).parts
           /\ \A i \in 1 .. Len(txns) : p \in TxnOf(txns[i]).parts =>
                  \E k \in 1 .. Len(UpdatesOf(p, txns)) : UpdatesOf(p, txns)[k] = txns[i]
           /\ \A k, l \in 1 .. Len(UpdatesOf(p, txns)) : k < l =>
                  UpdatesOf(p, txns)[k][2] < UpdatesOf(p, txns)[l][2]
<1> DEFINE N == Len(txns)
           Good(u, n) == /\ u \in Seq(Ids)
                         /\ \A k \in 1 .. Len(u) : \E i \in 1 .. n : u[k] = txns[i] /\ p \in TxnOf(txns[i]).parts
                         /\ \A i \in 1 .. n : p \in TxnOf(txns[i]).parts => \E k \in 1 .. Len(u) : u[k] = txns[i]
                         /\ \A k, l \in 1 .. Len(u) : k < l => u[k][2] < u[l][2]
<1>1. PICK f : /\ f[0] = <<>>
               /\ \A i \in 1 .. N :
                    f[i] = IF p \in TxnOf(txns[i]).parts THEN Append(f[i - 1], txns[i]) ELSE f[i - 1]
               /\ UpdatesOf(p, txns) = f[N]
  BY UpdatesOfSteps
<1> DEFINE S == {n \in 0 .. N : Good(f[n], n)}
<1>0. N \in Nat
  OBVIOUS
<1>2. 0 \in S
  <2>1. Good(<<>>, 0)
    OBVIOUS
  <2> HIDE DEF Good
  <2> QED BY <1>0, <1>1, <2>1
<1>3. ASSUME NEW n \in 0 .. (N - 1), n \in S
      PROVE  n + 1 \in S
  <2> DEFINE u == f[n]
             x == txns[n + 1]
  <2>1. Good(u, n)
    BY <1>3
  <2>2. n + 1 \in 1 .. N /\ (n + 1) - 1 = n /\ x \in Ids
    BY <1>0
  <2>3. f[n + 1] = IF p \in TxnOf(x).parts THEN Append(u, x) ELSE u
    BY <1>1, <2>2
  <2> HIDE DEF u
  <2>4. CASE p \notin TxnOf(x).parts
    <3>1. Good(u, n + 1)
      BY <1>0, <2>1, <2>2, <2>4
    <3> HIDE DEF Good
    <3> QED BY <2>2, <2>3, <2>4, <3>1
  <2>5. CASE p \in TxnOf(x).parts
    <3> DEFINE v == Append(u, x)
    <3>1. /\ v \in Seq(Ids) /\ Len(u) \in Nat /\ Len(v) = Len(u) + 1
          /\ \A i \in 1 .. Len(u) : v[i] = u[i] /\ i \in 1 .. Len(v)
          /\ v[Len(u) + 1] = x
          /\ \A i \in 1 .. Len(v) : i \in 1 .. Len(u) \/ i = Len(u) + 1
      BY SMTT(60), <2>1, <2>2, AppendFacts
    <3> HIDE DEF v
    <3>2. ASSUME NEW k \in 1 .. Len(v)
          PROVE  \E i \in 1 .. (n + 1) : v[k] = txns[i] /\ p \in TxnOf(txns[i]).parts
      <4>1. CASE k = Len(u) + 1
        BY <2>5, <3>1, <4>1
      <4>2. CASE k \in 1 .. Len(u)
        <5>1. PICK i \in 1 .. n : u[k] = txns[i] /\ p \in TxnOf(txns[i]).parts
          BY <2>1, <4>2
        <5> QED BY <3>1, <4>2, <5>1
      <4> QED BY <3>1, <4>1, <4>2
    <3>3. ASSUME NEW i \in 1 .. (n + 1), p \in TxnOf(txns[i]).parts
          PROVE  \E k \in 1 .. Len(v) : v[k] = txns[i]
      <4>1. CASE i = n + 1
        BY <3>1, <4>1
      <4>2. CASE i \in 1 .. n
        <5>1. PICK k \in 1 .. Len(u) : u[k] = txns[i]
          BY <2>1, <3>3, <4>2
        <5> QED BY <3>1, <5>1
      <4> QED BY <4>1, <4>2
    <3>4. ASSUME NEW k \in 1 .. Len(v), NEW l \in 1 .. Len(v), k < l
          PROVE  v[k][2] < v[l][2]
      <4>1. k \in 1 .. Len(u)
        BY <3>1, <3>4
      <4>2. CASE l \in 1 .. Len(u)
        BY <2>1, <3>1, <3>4, <4>1, <4>2
      <4>3. CASE l = Len(u) + 1
        <5>1. PICK i \in 1 .. n : u[k] = txns[i]
          BY <2>1, <4>1
        <5>2. i \in 1 .. N /\ i < n + 1
          BY <1>0
        <5>3. txns[i][2] < txns[n + 1][2]
          BY <2>2, <5>2
        <5> QED BY <3>1, <4>1, <4>3, <5>1, <5>3
      <4> QED BY <3>1, <4>2, <4>3
    <3>5. Good(v, n + 1)
      BY <3>1, <3>2, <3>3, <3>4
    <3>6. f[n + 1] = v
      BY <2>3, <2>5 DEF v
    <3> HIDE DEF Good
    <3> QED BY <2>2, <3>5, <3>6
  <2> QED BY <2>4, <2>5
<1>4. N \in S
  <2> HIDE DEF S
  <2>1. 0 .. N \subseteq S
    <3> HIDE DEF N
    <3> QED BY <1>0, <1>2, <1>3, AllReached
  <2> QED BY <1>0, <2>1
<1> QED BY <1>1, <1>4

-----------------------------------------------------------------------------
(* What sendTxns sends *)

\* A message of s with transactions out of a..b, in order and with equal dependencies
Part(m, s, a, b) ==
    /\ m \in Message /\ m.kind # "clk" /\ m.from = s /\ m.ts = 0 /\ m.form = "value" /\ m.txns # <<>>
    /\ \A k \in 1 .. Len(m.txns) : m.txns[k] \in a .. b
    /\ \A k, l \in 1 .. Len(m.txns) : k < l => m.txns[k] < m.txns[l]
    /\ \A k \in 1 .. Len(m.txns) : \A q \in Replicas \ {s} :
           log[s][m.txns[k]].clk[q] = log[s][m.txns[1]].clk[q]

\* The messages carry the transactions a..b of s, in order.
Carries(msgs, s, a, b) ==
    /\ msgs \in Seq(Message)
    /\ \A i \in 1 .. Len(msgs) : Part(msgs[i], s, a, b)
    /\ \A i, j \in 1 .. Len(msgs) : i < j =>
           \A k \in 1 .. Len(msgs[i].txns), l \in 1 .. Len(msgs[j].txns) : msgs[i].txns[k] < msgs[j].txns[l]
    /\ \A n \in a .. b : \E i \in 1 .. Len(msgs) : \E k \in 1 .. Len(msgs[i].txns) : msgs[i].txns[k] = n

LEMMA SinglesCarry ==
    ASSUME NEW s \in Replicas, NEW a \in Nat, NEW b \in Nat, a <= b + 1
    PROVE  Carries(Singles(s, a, b), s, a, b)
<1> DEFINE M == Singles(s, a, b)
<1>1. \A n \in 1 .. (b - a + 1) : M[n] = Msg("txn", s, <<a + n - 1>>, 0)
  BY DEF Singles
<1>2. Len(M) = b - a + 1 /\ Len(M) \in Nat
  BY DEF Singles
<1>3. ASSUME NEW n \in 1 .. (b - a + 1)
      PROVE  /\ Part(M[n], s, a, b)
             /\ M[n].txns = <<a + n - 1>> /\ Len(M[n].txns) = 1 /\ M[n].txns[1] = a + n - 1
  <2> DEFINE x == a + n - 1
             t == <<x>>
  <2>0. x \in a .. b /\ x \in Nat
    OBVIOUS
  <2>1. t \in Seq(Nat) /\ Len(t) = 1 /\ t[1] = x /\ t # <<>> /\ \A k \in 1 .. Len(t) : k = 1
    BY <2>0
  <2>2. M[n] = Msg("txn", s, t, 0)
    BY <1>1
  <2> HIDE DEF M, t, x
  <2>3. M[n].kind = "txn" /\ M[n].from = s /\ M[n].txns = t /\ M[n].ts = 0 /\ M[n].form = "value"
    BY <2>2 DEF Msg
  <2>4. M[n] \in Message
    BY <2>1, <2>2 DEF Msg, Message
  <2>5. Part(M[n], s, a, b)
    <3>1. \A k \in 1 .. Len(t) : t[k] \in a .. b /\ t[k] = t[1]
      BY <2>0, <2>1
    <3>2. \A k, l \in 1 .. Len(t) : ~(k < l)
      BY <2>1
    <3> QED BY <2>1, <2>3, <2>4, <3>1, <3>2 DEF Part
  <2> QED BY <2>1, <2>3, <2>5 DEF t, x
<1>4. M \in Seq(Message)
  <2>1. \A n \in 1 .. (b - a + 1) : M[n] \in Message
    <3> HIDE DEF M
    <3> QED BY <1>3 DEF Part
  <2>2. M = [n \in 1 .. Len(M) |-> M[n]]
    BY <1>2 DEF Singles
  <2> HIDE DEF M
  <2> QED BY <1>2, <2>1, <2>2
<1> HIDE DEF M
<1>5. ASSUME NEW i \in 1 .. Len(M), NEW j \in 1 .. Len(M), i < j,
             NEW k \in 1 .. Len(M[i].txns), NEW l \in 1 .. Len(M[j].txns)
      PROVE  M[i].txns[k] < M[j].txns[l]
  <2>0. i \in 1 .. (b - a + 1) /\ j \in 1 .. (b - a + 1)
    BY <1>2
  <2>1. Len(M[i].txns) = 1 /\ M[i].txns[1] = a + i - 1
    BY <1>3, <2>0
  <2>2. Len(M[j].txns) = 1 /\ M[j].txns[1] = a + j - 1
    BY <1>3, <2>0
  <2>3. k = 1 /\ l = 1
    BY <2>1, <2>2
  <2> QED BY <1>5, <2>0, <2>1, <2>2, <2>3
<1>6. ASSUME NEW n \in a .. b
      PROVE  \E i \in 1 .. Len(M) : \E k \in 1 .. Len(M[i].txns) : M[i].txns[k] = n
  <2>1. n - a + 1 \in 1 .. (b - a + 1) /\ a + (n - a + 1) - 1 = n /\ 1 \in 1 .. 1
    OBVIOUS
  <2> QED BY <1>2, <1>3, <2>1
<1>7. \A i \in 1 .. Len(M) : Part(M[i], s, a, b)
  BY <1>2, <1>3
<1> QED BY <1>4, <1>5, <1>6, <1>7 DEF Carries, M

LEMMA GroupCarries ==
    ASSUME NEW s \in Replicas, NEW a \in Nat, NEW b \in Nat, a <= b, SameDependencies(s, a, b)
    PROVE  Carries(<<Msg("group", s, [n \in 1 .. (b - a + 1) |-> a + n - 1], 0)>>, s, a, b)
<1> DEFINE t == [n \in 1 .. (b - a + 1) |-> a + n - 1]
           m == Msg("group", s, t, 0)
           M == <<m>>
<1>1. t \in Seq(Nat) /\ Len(t) = b - a + 1 /\ Len(t) \in Nat
  OBVIOUS
<1>2. \A k \in 1 .. (b - a + 1) : t[k] = a + k - 1 /\ t[k] \in a .. b
  OBVIOUS
<1> HIDE DEF t
<1>3. m \in Message /\ m.kind = "group" /\ m.from = s /\ m.ts = 0 /\ m.form = "value" /\ m.txns = t
  BY <1>1 DEF Msg, Message
<1>4. 1 \in 1 .. (b - a + 1) /\ t[1] = a
  BY <1>2
<1>5. \A k \in 1 .. Len(t) : \A q \in Replicas \ {s} : log[s][t[k]].clk[q] = log[s][t[1]].clk[q]
  BY <1>1, <1>2, <1>4 DEF SameDependencies
<1>6. t # <<>>
  BY <1>1
<1>7. \A k, l \in 1 .. Len(t) : k < l => t[k] < t[l]
  BY <1>1, <1>2
<1>8. \A k \in 1 .. Len(t) : t[k] \in a .. b
  BY <1>1, <1>2
<1> HIDE DEF m
<1>9. Part(m, s, a, b)
  BY <1>3, <1>5, <1>6, <1>7, <1>8 DEF Part
<1>10. M \in Seq(Message) /\ Len(M) = 1 /\ M[1] = m /\ \A i \in 1 .. Len(M) : i = 1
  BY <1>3
<1> HIDE DEF M
<1>11. ASSUME NEW n \in a .. b
       PROVE  \E i \in 1 .. Len(M) : \E k \in 1 .. Len(M[i].txns) : M[i].txns[k] = n
  <2>1. n - a + 1 \in 1 .. Len(t) /\ t[n - a + 1] = n
    BY <1>1, <1>2
  <2>2. 1 \in 1 .. Len(M) /\ M[1].txns = t
    BY <1>3, <1>10
  <2> QED BY <2>1, <2>2
<1>12. ASSUME NEW i \in 1 .. Len(M), NEW j \in 1 .. Len(M), i < j
       PROVE  FALSE
  BY <1>10, <1>12
<1> QED BY ZenonT(60), <1>9, <1>10, <1>11, <1>12 DEF Carries, M, m, t

LEMMA ConcatCarries ==
    ASSUME NEW s \in Replicas, NEW a \in Nat, NEW b \in Nat, NEW c \in Nat, a <= b, b <= c,
           NEW x, Carries(x, s, a, b), NEW y, Carries(y, s, b + 1, c)
    PROVE  Carries(x \o y, s, a, c)
<1> DEFINE M == x \o y
<1>1. /\ M \in Seq(Message) /\ Len(x) \in Nat /\ Len(y) \in Nat /\ Len(M) = Len(x) + Len(y)
      /\ \A i \in 1 .. Len(x) : M[i] = x[i] /\ i \in 1 .. Len(M)
      /\ \A j \in 1 .. Len(y) : M[Len(x) + j] = y[j] /\ Len(x) + j \in 1 .. Len(M)
      /\ \A i \in 1 .. Len(M) : i \in 1 .. Len(x) \/ (i - Len(x) \in 1 .. Len(y) /\ i = Len(x) + (i - Len(x)))
  BY ConcatFacts DEF Carries
<1> HIDE DEF M
<1>2. \A i \in 1 .. Len(x) : Part(x[i], s, a, b) /\ M[i] = x[i]
  BY <1>1 DEF Carries
<1>3. \A i \in 1 .. Len(M) : i \notin 1 .. Len(x) =>
         /\ i - Len(x) \in 1 .. Len(y) /\ M[i] = y[i - Len(x)] /\ Part(y[i - Len(x)], s, b + 1, c)
  BY <1>1 DEF Carries
<1>4. ASSUME NEW i \in 1 .. Len(M)
      PROVE  Part(M[i], s, a, c)
  <2>1. CASE i \in 1 .. Len(x)
    <3>1. Part(M[i], s, a, b)
      BY <1>2, <2>1
    <3>2. \A n \in a .. b : n \in a .. c
      OBVIOUS
    <3> QED BY SMTT(60), <3>1, <3>2 DEF Part
  <2>2. CASE i \notin 1 .. Len(x)
    <3>1. Part(M[i], s, b + 1, c)
      BY <1>3, <2>2
    <3>2. \A n \in (b + 1) .. c : n \in a .. c
      OBVIOUS
    <3> QED BY <3>1, <3>2 DEF Part
  <2> QED BY <2>1, <2>2
<1>5. ASSUME NEW i \in 1 .. Len(M), NEW j \in 1 .. Len(M), i < j,
             NEW k \in 1 .. Len(M[i].txns), NEW l \in 1 .. Len(M[j].txns)
      PROVE  M[i].txns[k] < M[j].txns[l]
  <2>1. CASE j \in 1 .. Len(x)
    <3>1. i \in 1 .. Len(x)
      BY <1>1, <1>5, <2>1
    <3>2. M[i] = x[i] /\ M[j] = x[j]
      BY <1>2, <2>1, <3>1
    <3> QED BY <1>5, <2>1, <3>1, <3>2 DEF Carries
  <2>2. CASE i \notin 1 .. Len(x)
    <3>1. j \notin 1 .. Len(x)
      BY <1>1, <1>5, <2>2
    <3>2. i - Len(x) \in 1 .. Len(y) /\ j - Len(x) \in 1 .. Len(y) /\ i - Len(x) < j - Len(x)
      <4>1. i - Len(x) \in 1 .. Len(y) /\ j - Len(x) \in 1 .. Len(y)
        BY Zenon, <1>3, <2>2, <3>1
      <4>2. Len(x) \in Nat /\ Len(M) \in Nat
        BY <1>1
      <4>3. i - Len(x) < j - Len(x)
        BY <1>5, <4>2
      <4> QED BY <4>1, <4>3
    <3>3. M[i] = y[i - Len(x)] /\ M[j] = y[j - Len(x)]
      BY <1>3, <2>2, <3>1
    <3> QED BY ZenonT(60), <1>5, <3>2, <3>3 DEF Carries
  <2>3. CASE i \in 1 .. Len(x) /\ j \notin 1 .. Len(x)
    <3>1. M[i].txns[k] \in a .. b
      BY <1>2, <2>3 DEF Part
    <3>2. M[j].txns[l] \in (b + 1) .. c
      BY <1>3, <2>3 DEF Part
    <3> QED BY SMTT(60), <3>1, <3>2
  <2> QED BY <2>1, <2>2, <2>3
<1>6. ASSUME NEW n \in a .. c
      PROVE  \E i \in 1 .. Len(M) : \E k \in 1 .. Len(M[i].txns) : M[i].txns[k] = n
  <2>1. CASE n \in a .. b
    <3>1. PICK i \in 1 .. Len(x) : \E k \in 1 .. Len(x[i].txns) : x[i].txns[k] = n
      BY <2>1 DEF Carries
    <3> QED BY SMTT(60), <1>1, <3>1
  <2>2. CASE n \in (b + 1) .. c
    <3>1. PICK j \in 1 .. Len(y) : \E k \in 1 .. Len(y[j].txns) : y[j].txns[k] = n
      BY <2>2 DEF Carries
    <3> QED BY SMTT(60), <1>1, <3>1
  <2> QED BY SMTT(60), <2>1, <2>2
<1> QED BY <1>1, <1>4, <1>5, <1>6 DEF Carries, M

LEMMA GroupEndFacts ==
    ASSUME NEW s \in Replicas, NEW to \in Nat, NEW a \in 1 .. to
    PROVE  GroupEnd(s, a, to) \in a .. to /\ SameDependencies(s, a, GroupEnd(s, a, to))
<1> DEFINE most == IF to < a + MaxTxnsPerGroup - 1 THEN to ELSE a + MaxTxnsPerGroup - 1
           Ends(b) == SameDependencies(s, a, b) /\ (b = most \/ ~SameDependencies(s, a, b + 1))
           T == {k \in 0 .. (most - a) : ~SameDependencies(s, a, a + k + 1) \/ a + k = most}
<1>1. most \in a .. to /\ most \in Nat
  BY RemoteApplyConstants
<1>2. GroupEnd(s, a, to) = CHOOSE b \in a .. most : Ends(b)
  BY DEF GroupEnd
<1> HIDE DEF most
<1>3. T \in SUBSET Nat /\ most - a \in T
  BY <1>1
<1>4. PICK k \in T : \A l \in T : k <= l
  <2> HIDE DEF T
  <2> QED BY <1>3, LowestNumber
<1>5. SameDependencies(s, a, a + k)
  <2>1. CASE k = 0
    <3>1. a .. (a + k) = {a}
      BY <2>1
    <3> QED BY <3>1 DEF SameDependencies
  <2>2. CASE k # 0
    <3>1. k - 1 \in 0 .. (most - a) /\ k - 1 \notin T /\ a + (k - 1) + 1 = a + k
      BY <1>1, <1>4, <2>2
    <3> QED BY <3>1
  <2> QED BY <2>1, <2>2
<1>6. a + k \in a .. most /\ Ends(a + k)
  BY <1>1, <1>4, <1>5
<1> HIDE DEF Ends, T
<1>7. GroupEnd(s, a, to) \in a .. most /\ Ends(GroupEnd(s, a, to))
  BY <1>2, <1>6
<1> QED BY <1>1, <1>7 DEF Ends

\* The recursion over the groups has a solution: the groups are made from the last one on.
LEMMA GroupsExist ==
    ASSUME NEW s \in Replicas, NEW from \in Nat, NEW to \in Nat, 1 <= from, from <= to
    PROVE  \E g : g = [a \in from .. (to + 1) |->
                          IF a > to THEN <<>>
                          ELSE GroupMessages(s, a, GroupEnd(s, a, to)) \o g[GroupEnd(s, a, to) + 1]]
<1> DEFINE End(a) == GroupEnd(s, a, to)
           Block(a) == GroupMessages(s, a, End(a))
           N == to + 1 - from
           Good(g, k) == \A a \in (to + 1 - k) .. (to + 1) :
                             g[a] = IF a > to THEN <<>> ELSE Block(a) \o g[End(a) + 1]
           S == {k \in 0 .. N : \E g : Good(g, k)}
<1>0. N \in Nat
  OBVIOUS
<1>1. \A a \in from .. to : End(a) + 1 \in (a + 1) .. (to + 1)
  <2>1. \A a \in from .. to : a \in 1 .. to
    OBVIOUS
  <2>2. \A a \in from .. to : End(a) \in a .. to
    BY <2>1, GroupEndFacts
  <2> HIDE DEF End
  <2> QED BY <2>2
<1> HIDE DEF End, Block
<1>2. 0 \in S
  <2> DEFINE g == [a \in from .. (to + 1) |-> <<>>]
  <2>1. Good(g, 0)
    <3>1. \A a \in (to + 1 - 0) .. (to + 1) : a \in from .. (to + 1) /\ a > to
      OBVIOUS
    <3> QED BY <3>1
  <2> HIDE DEF Good, g
  <2> QED BY <1>0, <2>1
<1>3. ASSUME NEW k \in 0 .. (N - 1), k \in S
      PROVE  k + 1 \in S
  <2>1. PICK g : Good(g, k)
    BY <1>3
  <2> DEFINE c == to - k
             v == Block(c) \o g[End(c) + 1]
             h == [a \in from .. (to + 1) |-> IF a = c THEN v ELSE g[a]]
  <2>2. c \in from .. to /\ c + 1 = to + 1 - k /\ c = to + 1 - (k + 1)
    BY <1>0
  <2>3. \A a \in (c + 1) .. (to + 1) : h[a] = g[a]
    <3> HIDE DEF v, c
    <3>1. \A a \in (c + 1) .. (to + 1) : a \in from .. (to + 1) /\ a # c
      BY <2>2
    <3> QED BY <3>1
  <2>4. h[c] = v
    <3> HIDE DEF v, c
    <3>1. c \in from .. (to + 1)
      BY <2>2
    <3> QED BY <3>1
  <2> HIDE DEF h, c
  <2>5. ASSUME NEW a \in c .. (to + 1)
        PROVE  h[a] = IF a > to THEN <<>> ELSE Block(a) \o h[End(a) + 1]
    <3>1. CASE a = c
      <4>1. End(c) + 1 \in (c + 1) .. (to + 1) /\ ~(c > to)
        BY <1>1, <2>2
      <4>2. h[End(c) + 1] = g[End(c) + 1]
        BY <2>3, <4>1
      <4> QED BY <2>4, <3>1, <4>1, <4>2
    <3>2. CASE a # c /\ a > to
      <4>1. a \in (c + 1) .. (to + 1)
        BY <2>2, <3>2
      <4>2. h[a] = g[a] /\ g[a] = <<>>
        BY <2>1, <2>2, <2>3, <3>2, <4>1
      <4> QED BY <3>2, <4>2
    <3>3. CASE a # c /\ ~(a > to)
      <4>1. a \in (c + 1) .. (to + 1) /\ a \in from .. to
        BY <2>2, <3>3
      <4>2. End(a) + 1 \in (c + 1) .. (to + 1)
        <5>1. End(a) + 1 \in (a + 1) .. (to + 1)
          BY <1>1, <4>1
        <5> QED BY <2>2, <4>1, <5>1
      <4>3. h[a] = g[a] /\ h[End(a) + 1] = g[End(a) + 1]
        BY <2>3, <4>1, <4>2
      <4>4. g[a] = Block(a) \o g[End(a) + 1]
        BY <2>1, <2>2, <3>3, <4>1
      <4> QED BY <3>3, <4>3, <4>4
    <3> QED BY <3>1, <3>2, <3>3
  <2>6. Good(h, k + 1)
    BY <2>2, <2>5
  <2>7. k + 1 \in 0 .. N
    BY <1>0
  <2> HIDE DEF Good, N
  <2> QED BY <2>6, <2>7
<1>4. N \in S
  <2> HIDE DEF S, N
  <2>1. 0 .. N \subseteq S
    BY <1>0, <1>2, <1>3, AllReached
  <2> QED BY <1>0, <2>1
<1>5. PICK g : Good(g, N)
  BY <1>4
<1> DEFINE h == [a \in from .. (to + 1) |-> g[a]]
<1>6. ASSUME NEW a \in from .. (to + 1)
      PROVE  h[a] = IF a > to THEN <<>> ELSE Block(a) \o h[End(a) + 1]
  <2>1. a \in (to + 1 - N) .. (to + 1)
    OBVIOUS
  <2>2. g[a] = IF a > to THEN <<>> ELSE Block(a) \o g[End(a) + 1]
    BY <1>5, <2>1
  <2>3. CASE a > to
    BY <2>2, <2>3
  <2>4. CASE ~(a > to)
    <3>1. End(a) + 1 \in from .. (to + 1)
      <4>1. End(a) + 1 \in (a + 1) .. (to + 1)
        BY <1>1, <2>4
      <4> QED BY <4>1
    <3> QED BY <2>2, <2>4, <3>1
  <2> QED BY <2>3, <2>4
<1>7. h = [a \in from .. (to + 1) |-> IF a > to THEN <<>> ELSE Block(a) \o h[End(a) + 1]]
  <2>1. h = [a \in from .. (to + 1) |-> h[a]]
    OBVIOUS
  <2> HIDE DEF h
  <2> QED BY <1>6, <2>1
<1> QED BY <1>7 DEF Block, End

\* A shipment carries what was committed since the last one, and then the clock.
LEMMA MessagesFacts ==
    ASSUME NEW s \in Replicas, NEW from \in Nat, NEW to \in Nat, 1 <= from, from <= to
    PROVE  \E x : /\ Carries(x, s, from, to)
                  /\ Messages(s, from, to) = x \o <<Msg("clk", s, <<>>, log[s][to].clk[s])>>
<1> DEFINE End(a) == GroupEnd(s, a, to)
           Block(a) == GroupMessages(s, a, End(a))
           Body(g) == [a \in from .. (to + 1) |-> IF a > to THEN <<>> ELSE Block(a) \o g[End(a) + 1]]
           P(g) == g = Body(g)
           G == CHOOSE g : P(g)
           last == <<Msg("clk", s, <<>>, log[s][to].clk[s])>>
<1>1. Messages(s, from, to) =
        (IF to - from + 1 < MinTxnsToGroup THEN Singles(s, from, to) ELSE G[from]) \o last
  BY DEF Messages
<1>2. \A a \in from .. to : End(a) \in a .. to /\ SameDependencies(s, a, End(a))
  <2>1. \A a \in from .. to : a \in 1 .. to
    OBVIOUS
  <2> QED BY <2>1, GroupEndFacts
<1>3. G = Body(G)
  <2>1. \E g : P(g)
    BY GroupsExist
  <2>2. P(G)
    <3> HIDE DEF P
    <3> QED BY <2>1
  <2> QED BY ZenonT(60), <2>2
<1> HIDE DEF G, last
<1>4. \A a \in from .. to : Carries(Block(a), s, a, End(a))
  <2>1. ASSUME NEW a \in from .. to
        PROVE  Carries(Block(a), s, a, End(a))
    <3>1. a \in Nat /\ End(a) \in Nat /\ a <= End(a) /\ a <= End(a) + 1 /\ SameDependencies(s, a, End(a))
      BY <1>2
    <3> HIDE DEF End
    <3> QED BY <3>1, SinglesCarry, GroupCarries DEF GroupMessages
  <2> QED BY <2>1
<1> DEFINE N == to + 1 - from
           T == {k \in 0 .. N : \A a \in (to + 1 - k) .. (to + 1) : Carries(G[a], s, a, to)}
<1>5. 0 \in T
  <2>1. G[to + 1] = <<>>
    <3>1. to + 1 \in from .. (to + 1) /\ to + 1 > to
      OBVIOUS
    <3> QED BY <1>3, <3>1
  <2>2. Carries(<<>>, s, to + 1, to)
    <3>1. /\ <<>> \in Seq(Message) /\ Len(<<>>) = 0 /\ 1 .. Len(<<>>) = {} /\ (to + 1) .. to = {}
      OBVIOUS
    <3> QED BY <3>1 DEF Carries
  <2>3. \A a \in (to + 1 - 0) .. (to + 1) : a = to + 1
    OBVIOUS
  <2> QED BY <2>1, <2>2, <2>3
<1>6. ASSUME NEW k \in 0 .. (N - 1), k \in T
      PROVE  k + 1 \in T
  <2> DEFINE c == to - k
  <2>1. c \in from .. to /\ ~(c > to) /\ c \in Nat /\ c + 1 = to + 1 - k /\ c = to + 1 - (k + 1)
    OBVIOUS
  <2> HIDE DEF c
  <2>2. G[c] = Block(c) \o G[End(c) + 1]
    <3>1. c \in from .. (to + 1)
      BY <2>1
    <3> HIDE DEF Block, End
    <3> QED BY <1>3, <2>1, <3>1
  <2>3. End(c) \in c .. to
    BY <1>2, <2>1
  <2>4. Carries(G[End(c) + 1], s, End(c) + 1, to)
    <3> HIDE DEF End
    <3>1. End(c) + 1 \in (to + 1 - k) .. (to + 1)
      BY <2>1, <2>3
    <3> QED BY <1>6, <3>1
  <2>5. Carries(G[c], s, c, to)
    <3>1. Carries(Block(c), s, c, End(c))
      BY <1>4, <2>1
    <3>2. End(c) \in Nat /\ c <= End(c) /\ End(c) <= to
      BY <2>1, <2>3
    <3> HIDE DEF Block, End
    <3> QED BY <2>1, <2>2, <2>4, <3>1, <3>2, ConcatCarries
  <2>6. ASSUME NEW a \in (to + 1 - (k + 1)) .. (to + 1)
        PROVE  Carries(G[a], s, a, to)
    <3>1. a = c \/ a \in (to + 1 - k) .. (to + 1)
      BY <2>1
    <3> QED BY <1>6, <2>5, <3>1
  <2>7. k + 1 \in 0 .. N
    OBVIOUS
  <2> QED BY <2>6, <2>7
<1>7. Carries(G[from], s, from, to)
  <2>0. N \in Nat /\ from \in (to + 1 - N) .. (to + 1)
    OBVIOUS
  <2>1. N \in T
    <3> HIDE DEF T, N
    <3>1. 0 .. N \subseteq T
      BY <1>5, <1>6, <2>0, AllReached
    <3> QED BY <2>0, <3>1
  <2> QED BY <2>0, <2>1
<1>8. Carries(Singles(s, from, to), s, from, to)
  BY SinglesCarry
<1> HIDE DEF Body
<1> QED BY ZenonT(60), <1>1, <1>7, <1>8 DEF last

-----------------------------------------------------------------------------
(* checkPendingRemoteTxns finds nothing: the switch matches no pointer *)

\* The queue of a replica, with pointers only
Pointers(Q) == /\ Q \in [Replicas -> Seq(Message)]
               /\ \A s \in Replicas : \A i \in 1 .. Len(Q[s]) : Q[s][i].form = "pointer"

Found(c, Q) == [clk |-> c, txns |-> <<>>, found |-> 0, queue |-> Q]

LEMMA ScanFindsNothing ==
    ASSUME NEW r, NEW c, NEW Q, Pointers(Q), NEW s \in Replicas
    PROVE  ScanPending(Found(c, Q), r, s) = Found(c, Q)
<1> DEFINE d == Found(c, Q)
           msgs == Q[s]
           N == Len(msgs)
           start == [clk |-> c, txns |-> <<>>, taken |-> 0]
           Body(w) == [i \in 0 .. N |-> IF i = 0 THEN start ELSE TakePending(w[i - 1], msgs[i], r)]
           P(w) == w = Body(w)
           F == CHOOSE w : P(w)
<1>0. msgs \in Seq(Message) /\ N \in Nat /\ \A i \in 1 .. N : msgs[i].form = "pointer"
  BY DEF Pointers
<1>1. d.clk = c /\ d.txns = <<>> /\ d.found = 0 /\ d.queue = Q
  BY DEF Found
<1>2. \A i \in 1 .. N : \A x : TakePending(x, msgs[i], r) = x
  BY <1>0 DEF TakePending, SwitchMatches
<1>3. ScanPending(d, r, s) =
        [clk |-> F[N].clk, txns |-> F[N].txns, found |-> d.found + F[N].taken,
         queue |-> [d.queue EXCEPT ![s] = SubSeq(@, F[N].taken + 1, Len(@))]]
  <2> HIDE DEF d
  <2> QED BY <1>1 DEF ScanPending
<1> HIDE DEF msgs, N, start
<1>4. F = Body(F)
  <2> DEFINE K == [i \in 0 .. N |-> start]
  <2>1. ASSUME NEW i \in 0 .. N
        PROVE  K[i] = Body(K)[i]
    <3>1. CASE i = 0
      BY <3>1
    <3>2. CASE i # 0
      <4>1. i \in 1 .. N /\ i - 1 \in 0 .. N
        BY <1>0, <3>2
      <4> QED BY <1>2, <3>2, <4>1
    <3> QED BY <3>1, <3>2
  <2>2. K = Body(K)
    BY <2>1
  <2>3. P(F)
    <3>1. \E w : P(w)
      BY <2>2
    <3> HIDE DEF P
    <3> QED BY <3>1
  <2> QED BY <2>3
<1> HIDE DEF F
<1> DEFINE S == {n \in 0 .. N : F[n] = start}
<1>5. 0 \in S
  BY <1>0, <1>4
<1>6. ASSUME NEW n \in 0 .. (N - 1), n \in S
      PROVE  n + 1 \in S
  <2>1. n + 1 \in 0 .. N /\ n + 1 \in 1 .. N /\ n + 1 # 0 /\ (n + 1) - 1 = n
    BY <1>0
  <2>2. F[n + 1] = Body(F)[n + 1]
    BY <1>4
  <2>3. F[n + 1] = TakePending(F[n], msgs[n + 1], r)
    BY <2>1, <2>2
  <2> QED BY <1>2, <1>6, <2>1, <2>3
<1>7. F[N] = start
  <2>1. N \in S
    <3> HIDE DEF S
    <3>1. 0 .. N \subseteq S
      BY <1>0, <1>5, <1>6, AllReached
    <3> QED BY <1>0, <3>1
  <2> QED BY <2>1
<1>8. F[N].clk = c /\ F[N].txns = <<>> /\ F[N].taken = 0
  BY <1>7 DEF start
<1>9. SubSeq(Q[s], 0 + 1, Len(Q[s])) = Q[s]
  BY <1>0 DEF msgs
<1>10. [Q EXCEPT ![s] = SubSeq(@, 0 + 1, Len(@))] = Q
  <2>1. Q \in [Replicas -> Seq(Message)]
    BY DEF Pointers
  <2> QED BY <1>9, <2>1
<1> QED BY <1>1, <1>3, <1>8, <1>10 DEF Found

LEMMA RoundFindsNothing ==
    ASSUME NEW r, NEW c, NEW Q, Pointers(Q)
    PROVE  PendingRound(Found(c, Q), r) = Found(c, Q)
<1> DEFINE d == Found(c, Q)
           Next1(S) == CHOOSE x \in S : TRUE
           Body(w) == [S \in SUBSET Replicas |->
                         IF S = {} THEN d ELSE ScanPending(w[S \ {Next1(S)}], r, Next1(S))]
           P(w) == w = Body(w)
           G == CHOOSE w : P(w)
<1>1. PendingRound(d, r) = G[Replicas]
  <2> HIDE DEF d
  <2> QED BY DEF PendingRound
<1>2. \A s \in Replicas : ScanPending(d, r, s) = d
  BY ScanFindsNothing
<1>3. \A S \in SUBSET Replicas : S # {} => Next1(S) \in S /\ Next1(S) \in Replicas /\ S \ {Next1(S)} \in SUBSET Replicas
  OBVIOUS
<1> HIDE DEF d, Next1
<1>4. G = Body(G)
  <2> DEFINE K == [S \in SUBSET Replicas |-> d]
  <2>1. ASSUME NEW S \in SUBSET Replicas
        PROVE  K[S] = Body(K)[S]
    <3>1. CASE S = {}
      BY <3>1
    <3>2. CASE S # {}
      <4>1. K[S \ {Next1(S)}] = d
        BY <1>3, <3>2
      <4>2. ScanPending(d, r, Next1(S)) = d
        BY <1>2, <1>3, <3>2
      <4> QED BY <3>2, <4>1, <4>2
    <3> QED BY <3>1, <3>2
  <2>2. K = Body(K)
    BY <2>1
  <2>3. P(G)
    <3>1. \E w : P(w)
      BY <2>2
    <3> HIDE DEF P
    <3> QED BY <3>1
  <2> QED BY <2>3
<1> HIDE DEF G
<1>5. ASSUME NEW S \in SUBSET Replicas
      PROVE  G[S] = IF S = {} THEN d ELSE ScanPending(G[S \ {Next1(S)}], r, Next1(S))
  <2>1. G[S] = Body(G)[S]
    BY <1>4
  <2> QED BY <2>1
<1>6. ASSUME NEW S \in SUBSET Replicas, G[S] # d
      PROVE  FALSE
  <2> DEFINE T == {k \in Nat : \E U \in SUBSET Replicas : Cardinality(U) = k /\ G[U] # d}
  <2>1. \A U \in SUBSET Replicas : IsFiniteSet(U) /\ Cardinality(U) \in Nat
    BY RemoteApplyConstants, FS_Subset, FS_CardinalityType
  <2>2. T \in SUBSET Nat /\ T # {}
    BY <1>6, <2>1
  <2>3. PICK k \in T : \A l \in T : k <= l
    <3> HIDE DEF T
    <3> QED BY <2>2, LowestNumber
  <2>4. PICK U \in SUBSET Replicas : Cardinality(U) = k /\ G[U] # d
    BY <2>3
  <2>5. U # {}
    BY <1>5, <2>4
  <2> DEFINE x == Next1(U)
             V == U \ {x}
  <2>6. x \in U /\ x \in Replicas /\ V \in SUBSET Replicas
    BY <1>3, <2>5
  <2>7. Cardinality(V) = Cardinality(U) - 1
    BY <2>1, <2>6, FS_RemoveElement
  <2>8. Cardinality(V) \in Nat /\ Cardinality(U) \in Nat
    BY <2>1, <2>6
  <2> HIDE DEF x, V
  <2>9. G[V] = d
    BY <2>3, <2>4, <2>6, <2>7, <2>8
  <2>10. G[U] = ScanPending(G[V], r, x)
    BY <1>5, <2>5 DEF x, V
  <2> QED BY <1>2, <2>4, <2>6, <2>9, <2>10
<1> QED BY <1>1, <1>6 DEF d

\* Nothing on hold is ever found: the clock stays, and so does the queue.
LEMMA NothingPending ==
    ASSUME NEW r \in Replicas, NEW c, Pointers(downstreamQueue[r])
    PROVE  CheckPending(r, c) = Found(c, downstreamQueue[r])
<1> DEFINE Q == downstreamQueue[r]
           pairs == {{s} \X DOMAIN Q[s] : s \in Replicas}
           held == UNION pairs
           N == Cardinality(held)
           d == Found(c, Q)
           Body(w) == [n \in 0 .. N |-> IF n = 0 THEN d ELSE PendingRound(w[n - 1], r)]
           P(w) == w = Body(w)
           R == CHOOSE w : P(w)
<1>1. CheckPending(r, c) = R[N]
  BY DEF CheckPending, Found
<1>2. N \in Nat
  <2> DEFINE f == [s \in Replicas |-> {s} \X DOMAIN Q[s]]
  <2>1. f \in Surjection(Replicas, pairs)
    BY DEF Surjection
  <2>2. IsFiniteSet(pairs)
    <3> HIDE DEF f, pairs
    <3> QED BY <2>1, RemoteApplyConstants, FS_Surjection
  <2>3. ASSUME NEW s \in Replicas
        PROVE  IsFiniteSet({s} \X DOMAIN Q[s])
    <3>1. DOMAIN Q[s] = 1 .. Len(Q[s]) /\ Len(Q[s]) \in Nat
      BY DEF Pointers
    <3>2. IsFiniteSet(DOMAIN Q[s])
      BY <3>1, FS_Interval
    <3>3. IsFiniteSet({s})
      BY FS_Singleton
    <3> QED BY <3>2, <3>3, FS_Product
  <2>4. \A T \in pairs : IsFiniteSet(T)
    BY <2>3
  <2>5. IsFiniteSet(held)
    <3> HIDE DEF pairs
    <3> QED BY <2>2, <2>4, FS_UNION
  <2> QED BY <2>5, FS_CardinalityType
<1>3. PendingRound(d, r) = d
  BY RoundFindsNothing
<1> HIDE DEF d, N
<1>4. R = Body(R)
  <2> DEFINE K == [n \in 0 .. N |-> d]
  <2>1. ASSUME NEW n \in 0 .. N
        PROVE  K[n] = Body(K)[n]
    <3>1. CASE n = 0
      BY <3>1
    <3>2. CASE n # 0
      <4>1. n - 1 \in 0 .. N
        BY <1>2, <3>2
      <4> QED BY <1>3, <3>2, <4>1
    <3> QED BY <3>1, <3>2
  <2>2. K = Body(K)
    BY <2>1
  <2>3. P(R)
    <3>1. \E w : P(w)
      BY <2>2
    <3> HIDE DEF P
    <3> QED BY <3>1
  <2> QED BY <2>3
<1> HIDE DEF R
<1> DEFINE S == {n \in 0 .. N : R[n] = d}
<1>5. 0 \in S
  BY <1>2, <1>4
<1>6. ASSUME NEW n \in 0 .. (N - 1), n \in S
      PROVE  n + 1 \in S
  <2>1. n + 1 \in 0 .. N /\ n + 1 # 0 /\ (n + 1) - 1 = n
    BY <1>2
  <2>2. R[n + 1] = Body(R)[n + 1]
    BY <1>4
  <2>3. R[n + 1] = PendingRound(R[n], r)
    BY <2>1, <2>2
  <2> QED BY <1>3, <1>6, <2>1, <2>3
<1>7. N \in S
  <2> HIDE DEF S
  <2>1. 0 .. N \subseteq S
    BY <1>2, <1>5, <1>6, AllReached
  <2> QED BY <1>2, <2>1
<1> QED BY <1>1, <1>7 DEF d

-----------------------------------------------------------------------------
(* What the steps do *)

CommitWith(r, P, ts) ==
    /\ log' = [log EXCEPT ![r] = Append(@, [clk |-> ts, parts |-> P,
                                            saw |-> [p \in P |-> Range(db[r][p])]])]
    /\ stableClk' = [stableClk EXCEPT ![r] =
          [p \in Partitions |-> IF p \in P THEN Merge(@[p], ts) ELSE @[p]]]
    /\ db' = [db EXCEPT ![r] =
          [p \in Partitions |-> IF p \in P THEN Append(@[p], Id(r, Len(log[r]) + 1)) ELSE @[p]]]
    /\ localClock' = [localClock EXCEPT ![r] = Merge(@, ts)]

\* The timestamp of a transaction numbers it, and its other positions come from one of its
\* partitions.
LEMMA CommitTimestamp ==
    ASSUME TypesOK, ClocksOK, NEW r \in Replicas, NEW P \in SUBSET Partitions, CommitAt(r, P)
    PROVE  \E ts \in Clock, p0 \in P :
              /\ ts[r] = Len(log[r]) + 1
              /\ \A q \in Replicas \ {r} : ts[q] = stableClk[r][p0][q]
              /\ CommitWith(r, P, ts)
<1>1. PICK ts \in Decided(r, P) : CommitWith(r, P, ts)
  BY DEF CommitAt, CommitWith
<1>2. PICK p0 \in P : ts = Proposal(r, p0)
  BY <1>1 DEF Decided
<1>3. stableClk[r][p0] \in [Replicas -> Nat] /\ stableClk[r][p0][r] <= Len(log[r]) /\ Len(log[r]) \in Nat
  BY DEF TypesOK, ClocksOK, ClockOK, Clock
<1>4. ts = [stableClk[r][p0] EXCEPT ![r] = Len(log[r]) + 1]
  BY <1>2, <1>3 DEF Proposal, NextTimestamp
<1>5. ts \in Clock /\ ts[r] = Len(log[r]) + 1 /\ \A q \in Replicas \ {r} : ts[q] = stableClk[r][p0][q]
  BY <1>3, <1>4 DEF Clock
<1> QED BY <1>1, <1>5

LEMMA MergeFacts ==
    ASSUME NEW c \in Clock, NEW d \in Clock
    PROVE  /\ Merge(c, d) \in Clock
           /\ \A q \in Replicas : /\ Merge(c, d)[q] = c[q] \/ Merge(c, d)[q] = d[q]
                                  /\ c[q] <= Merge(c, d)[q] /\ d[q] <= Merge(c, d)[q]
BY DEF Clock, Merge

\* The transaction is written at the end of the log and of its partitions.
LEMMA CommitFacts ==
    ASSUME TypesOK, NEW r \in Replicas, NEW P \in SUBSET Partitions, NEW ts \in Clock,
           CommitWith(r, P, ts)
    PROVE  /\ log' \in [Replicas -> Seq(Txn)]
           /\ \A s \in Replicas \ {r} : log'[s] = log[s]
           /\ Len(log[r]) \in Nat /\ Len(log'[r]) = Len(log[r]) + 1
           /\ \A n \in 1 .. Len(log[r]) : log'[r][n] = log[r][n]
           /\ log'[r][Len(log[r]) + 1] = [clk |-> ts, parts |-> P, saw |-> [p \in P |-> Range(db[r][p])]]
           /\ \A p \in P : Range(db[r][p]) \in SUBSET Ids
<1> DEFINE saw == [p \in P |-> Range(db[r][p])]
           x == [clk |-> ts, parts |-> P, saw |-> saw]
<1>1. \A p \in P : Range(db[r][p]) \in SUBSET Ids
  <2>1. \A p \in P : db[r][p] \in Seq(Ids)
    BY DEF TypesOK
  <2> QED BY <2>1 DEF Range
<1>2. saw \in [P -> SUBSET Ids]
  BY <1>1
<1> HIDE DEF saw
<1>3. x \in Txn
  BY <1>2 DEF Txn
<1>4. log[r] \in Seq(Txn)
  BY DEF TypesOK
<1>5. log' = [log EXCEPT ![r] = Append(@, x)]
  BY DEF CommitWith, saw
<1> HIDE DEF x
<1>6. /\ Append(log[r], x) \in Seq(Txn) /\ Len(log[r]) \in Nat /\ Len(Append(log[r], x)) = Len(log[r]) + 1
      /\ \A n \in 1 .. Len(log[r]) : Append(log[r], x)[n] = log[r][n]
      /\ Append(log[r], x)[Len(log[r]) + 1] = x
  BY <1>3, <1>4, AppendFacts
<1>7. log'[r] = Append(log[r], x) /\ \A s \in Replicas \ {r} : log'[s] = log[s]
  BY <1>5 DEF TypesOK
<1>8. log' \in [Replicas -> Seq(Txn)]
  BY <1>5, <1>6 DEF TypesOK
<1> QED BY <1>1, <1>6, <1>7, <1>8 DEF x, saw

LEMMA CommitDbFacts ==
    ASSUME TypesOK, NEW r \in Replicas, NEW P \in SUBSET Partitions, NEW ts \in Clock,
           CommitWith(r, P, ts)
    PROVE  /\ db' \in [Replicas -> [Partitions -> Seq(Ids)]]
           /\ \A a \in Replicas \ {r} : db'[a] = db[a]
           /\ \A p \in Partitions \ P : db'[r][p] = db[r][p]
           /\ \A p \in P : db'[r][p] = Append(db[r][p], Id(r, Len(log[r]) + 1))
           /\ stableClk' \in [Replicas -> [Partitions -> Clock]]
           /\ \A a \in Replicas \ {r} : stableClk'[a] = stableClk[a]
           /\ \A p \in Partitions : stableClk'[r][p] = stableClk[r][p] \/ stableClk'[r][p] = Merge(stableClk[r][p], ts)
           /\ localClock' \in [Replicas -> Clock]
           /\ \A a \in Replicas \ {r} : localClock'[a] = localClock[a]
           /\ localClock'[r] = Merge(localClock[r], ts)
<1> DEFINE x == Id(r, Len(log[r]) + 1)
           d == [p \in Partitions |-> IF p \in P THEN Append(db[r][p], x) ELSE db[r][p]]
           c == [p \in Partitions |-> IF p \in P THEN Merge(stableClk[r][p], ts) ELSE stableClk[r][p]]
<1>1. x \in Ids
  BY DEF TypesOK, Id, Ids
<1>2. db' = [db EXCEPT ![r] = d]
  BY DEF CommitWith
<1>3. stableClk' = [stableClk EXCEPT ![r] = c]
  BY DEF CommitWith
<1>4. d \in [Partitions -> Seq(Ids)]
  <2> HIDE DEF x
  <2>1. \A p \in Partitions : db[r][p] \in Seq(Ids) /\ Append(db[r][p], x) \in Seq(Ids)
    BY <1>1 DEF TypesOK
  <2> QED BY <2>1
<1>5. c \in [Partitions -> Clock]
  <2>1. \A p \in Partitions : stableClk[r][p] \in Clock /\ Merge(stableClk[r][p], ts) \in Clock
    BY MergeFacts DEF TypesOK
  <2> QED BY <2>1
<1>6. \A p \in P : d[p] = Append(db[r][p], x)
  OBVIOUS
<1>7. \A p \in Partitions \ P : d[p] = db[r][p]
  OBVIOUS
<1>8. \A p \in Partitions : c[p] = stableClk[r][p] \/ c[p] = Merge(stableClk[r][p], ts)
  OBVIOUS
<1>9. localClock[r] \in Clock /\ Merge(localClock[r], ts) \in Clock
  BY MergeFacts DEF TypesOK
<1> HIDE DEF d, c, x
<1>10. db' \in [Replicas -> [Partitions -> Seq(Ids)]] /\ db'[r] = d /\ \A a \in Replicas \ {r} : db'[a] = db[a]
  BY <1>2, <1>4 DEF TypesOK
<1>11. /\ stableClk' \in [Replicas -> [Partitions -> Clock]] /\ stableClk'[r] = c
       /\ \A a \in Replicas \ {r} : stableClk'[a] = stableClk[a]
  BY <1>3, <1>5 DEF TypesOK
<1>12. /\ localClock' \in [Replicas -> Clock] /\ localClock'[r] = Merge(localClock[r], ts)
       /\ \A a \in Replicas \ {r} : localClock'[a] = localClock[a]
  BY <1>9 DEF TypesOK, CommitWith
<1> QED BY <1>6, <1>7, <1>8, <1>10, <1>11, <1>12 DEF x

\* The log only grows, and with it what may be shipped.
LogGrows ==
    \A s \in Replicas : /\ Len(log[s]) \in Nat /\ Len(log'[s]) \in Nat /\ Len(log[s]) <= Len(log'[s])
                        /\ \A n \in 1 .. Len(log[s]) : log'[s][n] = log[s][n]
                        /\ shipped[s] \in Nat /\ shipped'[s] \in Nat /\ shipped[s] <= shipped'[s]

LEMMA UpdatesStay ==
    ASSUME LogGrows, NEW t, NEW p, Updates(t, p)
    PROVE  Updates(t, p)'
<1>1. t[1] \in Replicas /\ t[2] \in Nat
  BY DEF Updates, Ids
<1>2. t[2] \in 1 .. Len(log'[t[1]]) /\ log'[t[1]][t[2]] = log[t[1]][t[2]]
  BY <1>1 DEF Updates, LogGrows
<1> QED BY <1>2 DEF Updates

LEMMA MessageStays ==
    ASSUME LogGrows, LogOK, NEW s \in Replicas, NEW m \in Message, MessageOK(m, s)
    PROVE  MessageOK(m, s)'
<1>1. \A n \in 1 .. shipped[s] : n \in 1 .. shipped'[s] /\ log'[s][n] = log[s][n]
  BY DEF LogGrows, LogOK
<1>2. \A i \in 1 .. Len(m.txns) : m.txns[i] \in 1 .. shipped'[s] /\ log'[s][m.txns[i]] = log[s][m.txns[i]]
  BY <1>1 DEF MessageOK
<1>3. m.ts <= shipped'[s]
  BY DEF LogGrows, MessageOK, Message
<1>4. \A i \in 1 .. Len(m.txns) : \A q \in Replicas \ {s} :
          log'[s][m.txns[i]].clk[q] = log'[s][m.txns[1]].clk[q]
  <2>1. ASSUME NEW i \in 1 .. Len(m.txns), NEW q \in Replicas \ {s}
        PROVE  log'[s][m.txns[i]].clk[q] = log'[s][m.txns[1]].clk[q]
    <3>1. 1 \in 1 .. Len(m.txns)
      BY DEF Message
    <3>2. log[s][m.txns[i]].clk[q] = log[s][m.txns[1]].clk[q]
      BY DEF MessageOK
    <3>3. log'[s][m.txns[i]] = log[s][m.txns[i]] /\ log'[s][m.txns[1]] = log[s][m.txns[1]]
      BY <1>2, <3>1
    <3> QED BY <3>2, <3>3
  <2> QED BY <2>1
<1>5. /\ m.from = s /\ (m.kind = "clk" <=> m.txns = <<>>)
      /\ \A i, j \in 1 .. Len(m.txns) : i < j => m.txns[i] < m.txns[j]
  BY DEF MessageOK
<1>6. \A i \in 1 .. Len(m.txns) : m.txns[i] \in 1 .. shipped'[s]
  BY <1>2
<1> QED BY <1>3, <1>4, <1>5, <1>6, Zenon DEF MessageOK

-----------------------------------------------------------------------------
(* A commit *)

\* What a commit leaves where it was
CommitStep(r, P, ts) ==
    /\ CommitWith(r, P, ts) /\ ts \in Clock /\ ts[r] = Len(log[r]) + 1
    /\ \E p \in P : \A q \in Replicas \ {r} : ts[q] = stableClk[r][p][q]
    /\ UNCHANGED <<shipped, link, downstreamQueue, remote>>
    /\ downstreamOpsCh' \in [Replicas -> Seq(SUBSET Partitions)]

LEMMA CommitGrows ==
    ASSUME TypesOK, NEW r \in Replicas, NEW P \in SUBSET Partitions, NEW ts, CommitStep(r, P, ts)
    PROVE  LogGrows /\ TypesOK'
<1>1. CommitWith(r, P, ts) /\ ts \in Clock
  BY DEF CommitStep
<1>2. /\ log' \in [Replicas -> Seq(Txn)]
      /\ \A s \in Replicas \ {r} : log'[s] = log[s]
      /\ Len(log[r]) \in Nat /\ Len(log'[r]) = Len(log[r]) + 1
      /\ \A n \in 1 .. Len(log[r]) : log'[r][n] = log[r][n]
  BY <1>1, CommitFacts
<1>3. /\ db' \in [Replicas -> [Partitions -> Seq(Ids)]]
      /\ stableClk' \in [Replicas -> [Partitions -> Clock]] /\ localClock' \in [Replicas -> Clock]
  BY <1>1, CommitDbFacts
<1>4. LogGrows
  <2>1. \A s \in Replicas : log[s] \in Seq(Txn) /\ log'[s] \in Seq(Txn) /\ shipped'[s] = shipped[s] /\ shipped[s] \in Nat
    BY <1>2 DEF TypesOK, CommitStep
  <2> QED BY SMTT(60), <1>2, <2>1 DEF LogGrows
<1>5. TypesOK'
  BY <1>2, <1>3 DEF TypesOK, CommitStep, Ids, Txn, Message, RemoteJob, Clock, Idle
<1> QED BY <1>4, <1>5

LEMMA CommitLog ==
    ASSUME RemoteInv, NEW r \in Replicas, NEW P \in SUBSET Partitions, NEW ts, CommitStep(r, P, ts)
    PROVE  LogOK' /\ ClocksOK'
<1>0. TypesOK /\ LogOK /\ ClocksOK /\ DbsOK
  BY DEF RemoteInv
<1>1. CommitWith(r, P, ts) /\ ts \in Clock /\ ts[r] = Len(log[r]) + 1
  BY DEF CommitStep
<1>2. /\ log' \in [Replicas -> Seq(Txn)]
      /\ \A s \in Replicas \ {r} : log'[s] = log[s]
      /\ Len(log[r]) \in Nat /\ Len(log'[r]) = Len(log[r]) + 1
      /\ \A n \in 1 .. Len(log[r]) : log'[r][n] = log[r][n]
      /\ log'[r][Len(log[r]) + 1] = [clk |-> ts, parts |-> P, saw |-> [p \in P |-> Range(db[r][p])]]
      /\ \A p \in P : Range(db[r][p]) \in SUBSET Ids
  BY <1>0, <1>1, CommitFacts
<1>3. LogGrows
  BY <1>0, CommitGrows
<1>4. \A q \in Replicas : Len(log[q]) \in Nat /\ Len(log'[q]) \in Nat /\ Len(log[q]) <= Len(log'[q])
  BY <1>3 DEF LogGrows
<1>5. ASSUME NEW c \in Clock, ClockOK(c)
      PROVE  \A q \in Replicas : c[q] \in Nat /\ c[q] <= Len(log'[q])
  <2>1. \A q \in Replicas : c[q] \in Nat /\ c[q] <= Len(log[q])
    BY <1>5 DEF Clock, ClockOK
  <2> QED BY <1>4, <2>1
<1>6. \A q \in Replicas : ts[q] \in Nat /\ ts[q] <= Len(log'[q])
  <2>1. PICK p \in P : \A q \in Replicas \ {r} : ts[q] = stableClk[r][p][q]
    BY DEF CommitStep
  <2>2. ClockOK(stableClk[r][p])
    BY <1>0 DEF ClocksOK
  <2>3. stableClk[r][p] \in Clock
    BY <1>0 DEF TypesOK
  <2>4. \A q \in Replicas : stableClk[r][p][q] \in Nat /\ stableClk[r][p][q] <= Len(log[q])
    BY <2>2, <2>3 DEF Clock, ClockOK
  <2>5. \A q \in Replicas \ {r} : ts[q] \in Nat /\ ts[q] <= Len(log'[q])
    BY <1>4, <2>1, <2>4
  <2>6. ts[r] \in Nat /\ ts[r] <= Len(log'[r])
    BY <1>1, <1>2
  <2> QED BY <2>5, <2>6
<1>7. ASSUME NEW s \in Replicas, NEW n \in 1 .. Len(log[s])
      PROVE  TxnOK(s, n)'
  <2>1. TxnOK(s, n) /\ log'[s][n] = log[s][n]
    BY <1>0, <1>3 DEF LogOK, LogGrows
  <2>2. log[s][n] \in Txn
    BY SMTT(60), <1>0 DEF TypesOK
  <2>3. \A q \in Replicas : log[s][n].clk[q] \in Nat /\ log[s][n].clk[q] <= Len(log[q])
    BY <2>1, <2>2 DEF TxnOK, Txn, Clock
  <2>4. \A q \in Replicas : log'[s][n].clk[q] <= Len(log'[q])
    BY SMTT(60), <1>4, <2>1, <2>3
  <2>5. \A p \in log[s][n].parts : \A t \in log[s][n].saw[p] : Updates(t, p)' /\ (t[1] = s => t[2] < n)
    BY <1>3, <2>1, UpdatesStay DEF TxnOK
  <2>6. log'[s][n].clk[s] = n /\ log'[s][n].saw \in [log'[s][n].parts -> SUBSET Ids]
    BY <2>1 DEF TxnOK
  <2> QED BY <2>1, <2>4, <2>5, <2>6 DEF TxnOK, Ids
<1>8. ASSUME NEW n, n = Len(log[r]) + 1
      PROVE  TxnOK(r, n)'
  <2> DEFINE x == log'[r][n]
             saw == [p \in P |-> Range(db[r][p])]
  <2>0. saw \in [P -> SUBSET Ids]
    BY <1>2
  <2>1. x.clk = ts /\ x.parts = P /\ x.saw = saw
    BY <1>2, <1>8
  <2>2. ASSUME NEW p \in P, NEW t \in saw[p]
        PROVE  Updates(t, p)' /\ (t[1] = r => t[2] < n)
    <3>1. t \in Range(db[r][p])
      BY <2>2
    <3>2. db[r][p] \in Seq(Ids)
      BY <1>0 DEF TypesOK
    <3>3. PICK i \in 1 .. Len(db[r][p]) : db[r][p][i] = t
      BY <3>1, <3>2, InRange
    <3>4. Updates(t, p)
      BY <1>0, <3>3 DEF DbsOK, DbOK
    <3>5. t[1] = r => t[2] <= Len(log[r]) /\ t[2] \in Nat
      BY <1>2, <3>4 DEF Updates
    <3> QED BY <1>2, <1>3, <1>8, <3>4, <3>5, UpdatesStay
  <2> HIDE DEF saw
  <2>3. n = ts[r]
    BY <1>1, <1>8
  <2>4. \A q \in Replicas : x.clk[q] <= Len(log'[q])
    BY <1>6, <2>1
  <2> QED BY <2>0, <2>1, <2>2, <2>3, <2>4 DEF TxnOK, Ids
<1>9. LogOK'
  <2>1. \A s \in Replicas : shipped'[s] <= Len(log'[s])
    <3>1. \A s \in Replicas : shipped'[s] = shipped[s] /\ shipped[s] \in Nat /\ shipped[s] <= Len(log[s])
      BY <1>0 DEF LogOK, CommitStep, TypesOK
    <3> QED BY <1>4, <3>1
  <2>2. ASSUME NEW s \in Replicas, NEW n \in 1 .. Len(log'[s])
        PROVE  TxnOK(s, n)'
    <3>1. n \in 1 .. Len(log[s]) \/ (s = r /\ n = Len(log[r]) + 1)
      BY <1>2
    <3> QED BY <1>2, <1>7, <1>8, <3>1
  <2> QED BY <2>1, <2>2 DEF LogOK
<1>10. ClocksOK'
  <2>1. /\ \A a \in Replicas \ {r} : stableClk'[a] = stableClk[a] /\ localClock'[a] = localClock[a]
        /\ \A p \in Partitions : stableClk'[r][p] = stableClk[r][p] \/ stableClk'[r][p] = Merge(stableClk[r][p], ts)
        /\ localClock'[r] = Merge(localClock[r], ts)
    BY ZenonT(60), <1>0, <1>1, CommitDbFacts
  <2>2. ASSUME NEW c \in Clock, ClockOK(c)
        PROVE  \A q \in Replicas : Merge(c, ts)[q] <= Len(log'[q])
    <3>1. \A q \in Replicas : Merge(c, ts)[q] = c[q] \/ Merge(c, ts)[q] = ts[q]
      BY <1>1, MergeFacts
    <3>2. \A q \in Replicas : c[q] <= Len(log'[q])
      BY <1>5, <2>2
    <3> QED BY <1>6, <3>1, <3>2
  <2>3. ASSUME NEW a \in Replicas
        PROVE  ClockOK(localClock[a])' /\ \A p \in Partitions : ClockOK(stableClk[a][p])'
    <3>1. localClock[a] \in Clock /\ ClockOK(localClock[a])
      BY <1>0 DEF TypesOK, ClocksOK
    <3>2. \A p \in Partitions : stableClk[a][p] \in Clock /\ ClockOK(stableClk[a][p])
      BY <1>0 DEF TypesOK, ClocksOK
    <3>3. \A q \in Replicas : localClock'[a][q] <= Len(log'[q])
      BY <1>5, <2>1, <2>2, <3>1
    <3>4. \A p \in Partitions : \A q \in Replicas : stableClk'[a][p][q] <= Len(log'[q])
      BY <1>5, <2>1, <2>2, <3>2
    <3> QED BY <3>3, <3>4 DEF ClockOK
  <2>4. ASSUME NEW a \in Replicas, remote'[a] # Idle
        PROVE  ClockOK(remote[a].clk)'
    <3>1. remote'[a] = remote[a] /\ remote[a] # Idle
      BY <2>4 DEF CommitStep
    <3>2. remote[a].clk \in Clock /\ ClockOK(remote[a].clk)
      BY <1>0, <3>1 DEF TypesOK, ClocksOK, RemoteJob
    <3>3. \A q \in Replicas : remote[a].clk[q] <= Len(log'[q])
      BY <1>5, <3>2
    <3> QED BY <3>1, <3>3 DEF ClockOK
  <2> QED BY <2>3, <2>4 DEF ClocksOK, Idle
<1> QED BY <1>9, <1>10

\* Messages and jobs are about what was sent, which does not change.
LEMMA LinkStays ==
    ASSUME TypesOK, LogOK, LogGrows, NEW r \in Replicas, NEW s \in Replicas, link'[s][r] = link[s][r], LinkOK(s, r)
    PROVE  LinkOK(s, r)'
<1>1. link[s][r] \in Seq(Message)
  BY DEF TypesOK
<1>2. \A i \in 1 .. Len(link[s][r]) : link[s][r][i] \in Message /\ MessageOK(link[s][r][i], s)
  BY <1>1 DEF LinkOK
<1>3. ASSUME NEW i \in 1 .. Len(link'[s][r])
      PROVE  MessageOK(link[s][r][i], s)'
  <2>1. PICK m : m = link[s][r][i]
    OBVIOUS
  <2>2. m \in Message /\ MessageOK(m, s) /\ link'[s][r][i] = m
    BY <1>2, <2>1
  <2>3. MessageOK(m, s)'
    BY <2>2, MessageStays
  <2> QED BY <2>2, <2>3
<1> QED BY <1>1, <1>3 DEF LinkOK

LEMMA QueueStays ==
    ASSUME TypesOK, LogOK, LogGrows, NEW r \in Replicas, NEW s \in Replicas,
           downstreamQueue'[r][s] = downstreamQueue[r][s], QueueOK(r, s)
    PROVE  QueueOK(r, s)'
<1>1. downstreamQueue[r][s] \in Seq(Message)
  BY DEF TypesOK
<1>2. \A i \in 1 .. Len(downstreamQueue[r][s]) :
         downstreamQueue[r][s][i] \in Message /\ MessageOK(downstreamQueue[r][s][i], s)
  BY <1>1 DEF QueueOK
<1>3. ASSUME NEW i \in 1 .. Len(downstreamQueue'[r][s])
      PROVE  MessageOK(downstreamQueue[r][s][i], s)'
  <2>1. PICK m : m = downstreamQueue[r][s][i]
    OBVIOUS
  <2>2. m \in Message /\ MessageOK(m, s) /\ downstreamQueue'[r][s][i] = m
    BY <1>2, <2>1
  <2>3. MessageOK(m, s)'
    BY SMTT(60), <2>2, MessageStays
  <2> QED BY <2>2, <2>3
<1> QED BY <1>1, <1>3 DEF QueueOK

\* A job with the transactions of another one is as good, whatever it still has to do.
LEMMA JobStays ==
    ASSUME TypesOK, LogOK, LogGrows, NEW r \in Replicas, JobOK(r), remote[r] # Idle,
           remote'[r].from = remote[r].from, remote'[r].txns = remote[r].txns, remote'[r].clk = remote[r].clk
    PROVE  JobOK(r)'
<1>1. PICK j : j = remote[r]
  OBVIOUS
<1>2. j \in RemoteJob
  BY <1>1 DEF TypesOK
<1>3. j.from \in Replicas
  BY SMTT(60), <1>2 DEF RemoteJob
<1>4. /\ j.from # r
      /\ \A i \in 1 .. Len(j.txns) :
            /\ j.txns[i][1] = j.from /\ j.txns[i][2] \in 1 .. shipped[j.from]
            /\ \A q \in Replicas \ {j.from} : log[j.from][j.txns[i][2]].clk[q] = j.clk[q]
      /\ \A i, k \in 1 .. Len(j.txns) : i < k => j.txns[i][2] < j.txns[k][2]
  BY <1>1 DEF JobOK
<1>5. ASSUME NEW i \in 1 .. Len(j.txns)
      PROVE  /\ log'[j.from][j.txns[i][2]] = log[j.from][j.txns[i][2]]
             /\ j.txns[i][2] \in 1 .. shipped'[j.from]
  <2>1. /\ shipped[j.from] <= Len(log[j.from]) /\ shipped[j.from] \in Nat /\ Len(log[j.from]) \in Nat
        /\ shipped[j.from] <= shipped'[j.from] /\ shipped'[j.from] \in Nat
    BY <1>3 DEF LogOK, LogGrows
  <2>2. j.txns[i][2] \in 1 .. Len(log[j.from]) /\ j.txns[i][2] \in 1 .. shipped'[j.from]
    BY SMTT(60), <1>4, <2>1
  <2> QED BY <1>3, <2>2 DEF LogGrows
<1>6. \A i \in 1 .. Len(j.txns) : \A q \in Replicas \ {j.from} : log'[j.from][j.txns[i][2]].clk[q] = j.clk[q]
  BY ZenonT(60), <1>4, <1>5
<1>7. remote'[r].from = j.from /\ remote'[r].txns = j.txns /\ remote'[r].clk = j.clk
  BY <1>1
<1> QED BY <1>4, <1>5, <1>6, <1>7 DEF JobOK

LEMMA JobUnchanged ==
    ASSUME TypesOK, LogOK, LogGrows, NEW r \in Replicas, JobOK(r), remote'[r] = remote[r]
    PROVE  JobOK(r)'
<1>1. CASE remote[r] = Idle
  BY <1>1 DEF JobOK, Idle
<1>2. CASE remote[r] # Idle
  BY <1>2, JobStays
<1> QED BY <1>1, <1>2

LEMMA MessagesStay ==
    ASSUME TypesOK, LogOK, LogGrows, UNCHANGED <<link, downstreamQueue, remote>>, LinksOK, QueuesOK, JobsOK
    PROVE  LinksOK' /\ QueuesOK' /\ JobsOK'
<1>1. ASSUME NEW r \in Replicas, NEW s \in Replicas
      PROVE  LinkOK(s, r)' /\ QueueOK(r, s)'
  BY LinkStays, QueueStays DEF LinksOK, QueuesOK
<1>2. ASSUME NEW r \in Replicas
      PROVE  JobOK(r)'
  BY JobUnchanged DEF JobsOK
<1> QED BY <1>1, <1>2 DEF LinksOK, QueuesOK, JobsOK

LEMMA CommitDbs ==
    ASSUME RemoteInv, NEW r \in Replicas, NEW P \in SUBSET Partitions, NEW ts, CommitStep(r, P, ts)
    PROVE  /\ DbsOK' /\ OwnsOK'
           /\ \A a, s \in Replicas : a # s => \A p \in Partitions, n \in Nat : InDb(a, p, s, n)' <=> InDb(a, p, s, n)
<1>0. TypesOK /\ LogOK /\ DbsOK /\ OwnsOK /\ LogGrows
  BY CommitGrows DEF RemoteInv
<1> DEFINE x == Id(r, Len(log[r]) + 1)
<1>1. /\ \A a \in Replicas \ {r} : db'[a] = db[a]
      /\ \A p \in Partitions \ P : db'[r][p] = db[r][p]
      /\ \A p \in P : db'[r][p] = Append(db[r][p], x)
  BY ZenonT(60), <1>0, CommitDbFacts DEF CommitStep
<1>2. /\ \A s \in Replicas \ {r} : log'[s] = log[s]
      /\ Len(log[r]) \in Nat /\ Len(log'[r]) = Len(log[r]) + 1
      /\ \A n \in 1 .. Len(log[r]) : log'[r][n] = log[r][n]
      /\ log'[r][Len(log[r]) + 1] = [clk |-> ts, parts |-> P, saw |-> [p \in P |-> Range(db[r][p])]]
  BY ZenonT(60), <1>0, CommitFacts DEF CommitStep
<1>3. x \in Ids /\ x[1] = r /\ x[2] = Len(log[r]) + 1
  BY <1>2 DEF Id, Ids
<1>4. \A a \in Replicas, p \in Partitions : db[a][p] \in Seq(Ids)
  BY <1>0 DEF TypesOK
<1>5. ASSUME NEW p \in P
      PROVE  /\ db'[r][p] \in Seq(Ids) /\ Len(db[r][p]) \in Nat /\ Len(db'[r][p]) = Len(db[r][p]) + 1
             /\ \A i \in 1 .. Len(db[r][p]) : db'[r][p][i] = db[r][p][i] /\ i \in 1 .. Len(db'[r][p])
             /\ db'[r][p][Len(db[r][p]) + 1] = x
             /\ \A i \in 1 .. Len(db'[r][p]) : i \in 1 .. Len(db[r][p]) \/ i = Len(db[r][p]) + 1
  <2>1. db[r][p] \in Seq(Ids) /\ db'[r][p] = Append(db[r][p], x)
    BY <1>1, <1>4
  <2> HIDE DEF x
  <2> QED BY <1>3, <2>1, AppendFacts
<1> HIDE DEF x
<1>6. ASSUME NEW a \in Replicas, NEW p \in Partitions, NEW i \in 1 .. Len(db[a][p])
      PROVE  /\ Updates(db[a][p][i], p) /\ db[a][p][i] # x
             /\ db[a][p][i][1] \in Replicas
             /\ db[a][p][i][1] # a => db[a][p][i][2] <= shipped[db[a][p][i][1]]
  <2>1. Updates(db[a][p][i], p) /\ (db[a][p][i][1] # a => db[a][p][i][2] <= shipped[db[a][p][i][1]])
    BY <1>0 DEF DbsOK, DbOK
  <2>2. db[a][p][i] # x
    BY SMTT(60), <1>2, <1>3, <2>1 DEF Updates
  <2>3. db[a][p][i][1] \in Replicas
    BY <2>1 DEF Updates, Ids
  <2> QED BY <2>1, <2>2, <2>3
<1>7. ASSUME NEW a \in Replicas, NEW p \in Partitions, db'[a][p] = db[a][p]
      PROVE  DbOK(a, p)'
  <2>1. ASSUME NEW i \in 1 .. Len(db'[a][p])
        PROVE  /\ Updates(db[a][p][i], p)'
               /\ db'[a][p][i][1] # a => db'[a][p][i][2] <= shipped'[db'[a][p][i][1]]
    <3>1. PICK t : t = db[a][p][i] /\ db'[a][p][i] = t
      BY <1>7
    <3>2. Updates(t, p) /\ (t[1] # a => t[2] <= shipped[t[1]])
      BY <1>6, <1>7, <3>1
    <3>3. Updates(t, p)'
      BY <1>0, <3>2, UpdatesStay
    <3> QED BY <3>1, <3>2, <3>3 DEF CommitStep
  <2>2. \A i, j \in 1 .. Len(db'[a][p]) : i # j => db'[a][p][i] # db'[a][p][j]
    BY <1>0, <1>7 DEF DbsOK, DbOK
  <2> QED BY <2>1, <2>2 DEF DbOK
<1>8. ASSUME NEW p \in P
      PROVE  DbOK(r, p)'
  <2>1. ASSUME NEW i \in 1 .. Len(db'[r][p])
        PROVE  /\ Updates(db[r][p][i], p)'
               /\ db'[r][p][i][1] # r => db'[r][p][i][2] <= shipped'[db'[r][p][i][1]]
    <3>1. PICK t : t = db'[r][p][i]
      OBVIOUS
    <3>2. CASE i \in 1 .. Len(db[r][p])
      <4>1. Updates(t, p) /\ (t[1] # r => t[2] <= shipped[t[1]])
        BY ZenonT(60), <1>5, <1>6, <3>1, <3>2
      <4>2. Updates(t, p)'
        BY <1>0, <4>1, UpdatesStay
      <4> QED BY <3>1, <4>1, <4>2 DEF CommitStep
    <3>3. CASE i = Len(db[r][p]) + 1
      <4>1. t = x
        BY <1>5, <3>1, <3>3
      <4>2. t[1] = r /\ t[2] \in 1 .. Len(log'[r]) /\ p \in log'[t[1]][t[2]].parts /\ t \in Ids
        BY <1>2, <1>3, <4>1
      <4>3. Updates(t, p)'
        BY <4>2 DEF Updates, Ids
      <4> QED BY <3>1, <4>2, <4>3
    <3> QED BY <1>5, <3>2, <3>3
  <2>2. ASSUME NEW i \in 1 .. Len(db'[r][p]), NEW j \in 1 .. Len(db'[r][p]), i # j
        PROVE  db'[r][p][i] # db'[r][p][j]
    <3>1. CASE i \in 1 .. Len(db[r][p]) /\ j \in 1 .. Len(db[r][p])
      <4>1. db[r][p][i] # db[r][p][j]
        BY <1>0, <2>2, <3>1 DEF DbsOK, DbOK
      <4> QED BY <1>5, <3>1, <4>1
    <3>2. CASE i = Len(db[r][p]) + 1
      <4>1. j \in 1 .. Len(db[r][p])
        BY <1>5, <2>2, <3>2
      <4> QED BY SMTT(60), <1>5, <1>6, <3>2, <4>1
    <3>3. CASE j = Len(db[r][p]) + 1
      <4>1. i \in 1 .. Len(db[r][p])
        BY <1>5, <2>2, <3>3
      <4> QED BY <1>5, <1>6, <3>3, <4>1
    <3> QED BY <1>5, <3>1, <3>2, <3>3
  <2> QED BY <2>1, <2>2 DEF DbOK
<1>9. DbsOK'
  <2>1. ASSUME NEW a \in Replicas, NEW p \in Partitions
        PROVE  DbOK(a, p)'
    <3>1. db'[a][p] = db[a][p] \/ (a = r /\ p \in P)
      BY <1>1
    <3> QED BY <1>7, <1>8, <3>1
  <2> QED BY <2>1 DEF DbsOK
<1>10. ASSUME NEW a \in Replicas, NEW s \in Replicas, NEW p \in Partitions, NEW n \in Nat
       PROVE  /\ InDb(a, p, s, n) => InDb(a, p, s, n)'
              /\ a # s => (InDb(a, p, s, n)' => InDb(a, p, s, n))
  <2>1. CASE db'[a][p] = db[a][p]
    BY <2>1 DEF InDb
  <2>2. CASE a = r /\ p \in P
    <3>1. InDb(a, p, s, n) => InDb(a, p, s, n)'
      BY <1>5, <2>2 DEF InDb
    <3>2. ASSUME a # s, InDb(a, p, s, n)'
          PROVE  InDb(a, p, s, n)
      <4>1. PICK i \in 1 .. Len(db'[r][p]) : db'[r][p][i] = Id(s, n)
        BY <2>2, <3>2 DEF InDb
      <4>2. Id(s, n) # x
        BY <1>3, <2>2, <3>2 DEF Id
      <4>3. i \in 1 .. Len(db[r][p])
        BY <1>5, <2>2, <4>1, <4>2
      <4> QED BY <1>5, <2>2, <4>1, <4>3 DEF InDb
    <3> QED BY <3>1, <3>2
  <2> QED BY <1>1, <2>1, <2>2
<1>11. OwnsOK'
  <2>1. ASSUME NEW a \in Replicas, NEW n \in 1 .. Len(log'[a]), NEW p \in log'[a][n].parts
        PROVE  InDb(a, p, a, n)'
    <3>1. CASE n \in 1 .. Len(log[a])
      <4>1. log'[a][n] = log[a][n]
        BY <1>0, <3>1 DEF LogGrows
      <4>2. InDb(a, p, a, n)
        BY <1>0, <3>1, <4>1 DEF OwnsOK, OwnOK
      <4>3. p \in Partitions /\ n \in Nat
        <5>1. log[a][n] \in Txn
          BY SMTT(60), <1>0, <3>1 DEF TypesOK
        <5> QED BY <4>1, <5>1 DEF Txn
      <4> QED BY <1>10, <4>2, <4>3
    <3>2. CASE a = r /\ n = Len(log[r]) + 1
      <4>1. p \in P
        BY <1>2, <3>2
      <4>2. db'[r][p][Len(db[r][p]) + 1] = Id(r, n) /\ Len(db[r][p]) + 1 \in 1 .. Len(db'[r][p])
        BY <1>5, <3>2, <4>1 DEF x
      <4> QED BY <3>2, <4>2 DEF InDb, Id
    <3> QED BY <1>2, <3>1, <3>2
  <2> QED BY <2>1 DEF OwnsOK, OwnOK
<1> QED BY <1>9, <1>10, <1>11

\* What PlaceOK says depends on where the transaction is and nothing else.
LEMMA PlaceStays ==
    ASSUME NEW r \in Replicas, NEW s \in Replicas, NEW n,
           shipped'[s] = shipped[s], log'[s][n] = log[s][n], remote'[r] = remote[r],
           link'[s][r] = link[s][r], downstreamQueue'[r][s] = downstreamQueue[r][s],
           n \in 1 .. shipped[s], shipped[s] \in Nat,
           \A p \in Partitions, k \in Nat : InDb(r, p, s, k)' <=> InDb(r, p, s, k),
           log[s][n].parts \subseteq Partitions, remote[r] # Idle => remote[r].todo \subseteq Partitions,
           PlaceOK(r, s, n)
    PROVE  PlaceOK(r, s, n)'
<1>1. \A k \in Nat : /\ InLink(s, r, k)' <=> InLink(s, r, k)
                     /\ InQueue(r, s, k)' <=> InQueue(r, s, k)
                     /\ InJob(r, s, k)' <=> InJob(r, s, k)
  BY DEF InLink, InQueue, InJob, InMessages, Id, Idle
<1>2. \A k \in 1 .. shipped[s] : k \in Nat
  OBVIOUS
<1>3. n \in Nat
  BY <1>2
<1>4. InJob(r, s, n) => remote[r].todo \subseteq Partitions
  BY DEF InJob
<1> HIDE DEF InLink, InQueue, InJob, InDb
<1>5. (InLink(s, r, n))' => \A k \in 1 .. shipped'[s] :
           /\ (InQueue(r, s, k))' \/ (InJob(r, s, k))' => k < n
           /\ \A p \in Partitions : (InDb(r, p, s, k))' => k < n
  BY <1>1, <1>2, <1>3 DEF PlaceOK
<1>6. (InQueue(r, s, n))' => ~(InJob(r, s, n))' /\ \A p \in Partitions : ~(InDb(r, p, s, n))'
  BY <1>1, <1>3 DEF PlaceOK
<1>7. (InJob(r, s, n))' => \A p \in remote'[r].todo : ~(InDb(r, p, s, n))'
  BY <1>1, <1>3, <1>4 DEF PlaceOK
<1>8. \A p \in log'[s][n].parts :
           \/ (InLink(s, r, n))' \/ (InQueue(r, s, n))' \/ (InDb(r, p, s, n))'
           \/ (InJob(r, s, n))' /\ p \in remote'[r].todo
  BY <1>1, <1>3 DEF PlaceOK
<1> QED BY <1>5, <1>6, <1>7, <1>8 DEF PlaceOK

LEMMA CommitPlaces ==
    ASSUME RemoteInv, NEW r \in Replicas, NEW P \in SUBSET Partitions, NEW ts, CommitStep(r, P, ts)
    PROVE  PlacesOK' /\ CoversOK'
<1>0. TypesOK /\ LogOK /\ PlacesOK /\ CoversOK /\ LogGrows
  BY CommitGrows DEF RemoteInv
<1>1. \A a, s \in Replicas : a # s => \A p \in Partitions, n \in Nat : InDb(a, p, s, n)' <=> InDb(a, p, s, n)
  BY CommitDbs
<1>2. ASSUME NEW a \in Replicas, NEW s \in Replicas, a # s, NEW n \in 1 .. shipped[s]
      PROVE  PlaceOK(a, s, n)'
  <2>1. n \in 1 .. Len(log[s]) /\ shipped[s] \in Nat
    BY <1>0 DEF LogOK, LogGrows
  <2>2. log'[s][n] = log[s][n]
    BY <1>0, <2>1 DEF LogGrows
  <2>3. log[s][n] \in Txn
    <3>1. log[s] \in Seq(Txn)
      BY <1>0 DEF TypesOK
    <3> QED BY <2>1, <3>1
  <2>4. log[s][n].parts \subseteq Partitions
    BY <2>3 DEF Txn
  <2>5. remote[a] # Idle => remote[a].todo \subseteq Partitions
    <3>1. remote[a] # Idle => remote[a] \in RemoteJob
      BY <1>0 DEF TypesOK
    <3> QED BY <3>1 DEF RemoteJob
  <2>6. /\ shipped'[s] = shipped[s] /\ remote'[a] = remote[a] /\ link'[s][a] = link[s][a]
        /\ downstreamQueue'[a][s] = downstreamQueue[a][s]
    BY DEF CommitStep
  <2>7. PlaceOK(a, s, n)
    BY <1>0, <1>2 DEF PlacesOK
  <2>8. \A p \in Partitions, k \in Nat : InDb(a, p, s, k)' <=> InDb(a, p, s, k)
    BY <1>1, <1>2
  <2> QED BY <2>1, <2>2, <2>4, <2>5, <2>6, <2>7, <2>8, PlaceStays
<1>3. PlacesOK'
  <2>1. shipped' = shipped
    BY DEF CommitStep
  <2> QED BY <1>2, <2>1 DEF PlacesOK
<1>4. ASSUME NEW s \in Replicas, NEW a \in Replicas
      PROVE  shipped'[s] = shipped[s] /\ \A n \in Nat : InLink(s, a, n)' <=> InLink(s, a, n)
  BY DEF CommitStep, InLink, InMessages
<1>5. /\ \A a \in Replicas \ {r} : stableClk'[a] = stableClk[a] /\ localClock'[a] = localClock[a]
      /\ \A p \in Partitions : stableClk'[r][p] = stableClk[r][p] \/ stableClk'[r][p] = Merge(stableClk[r][p], ts)
      /\ localClock'[r] = Merge(localClock[r], ts)
  BY ZenonT(60), <1>0, CommitDbFacts DEF CommitStep
<1>6. ASSUME NEW a \in Replicas, ~(OnHold(a))', NEW s \in Replicas \ {a}
      PROVE  /\ CoversReceived(localClock[a], s, a)'
             /\ \A p \in Partitions : CoversReceived(stableClk[a][p], s, a)'
             /\ remote'[a] # Idle => CoversReceived(remote[a].clk, s, a)'
  <2>1. ~OnHold(a)
    BY <1>6 DEF OnHold, CommitStep
  <2>2. /\ CoversReceived(localClock[a], s, a)
        /\ \A p \in Partitions : CoversReceived(stableClk[a][p], s, a)
        /\ remote[a] # Idle => CoversReceived(remote[a].clk, s, a)
    BY <1>0, <2>1 DEF CoversOK, CoverOK
  <2>3. \A n \in 1 .. shipped[s] : n \in Nat
    BY <1>0 DEF TypesOK
  <2>4. \A c : CoversReceived(c, s, a) =>
           c[s] <= shipped'[s] /\ \A n \in 1 .. shipped'[s] : InLink(s, a, n)' => c[s] < n
    BY <1>4, <2>3 DEF CoversReceived
  <2>5. ASSUME NEW c \in Clock, CoversReceived(c, s, r), a = r
        PROVE  /\ Merge(c, ts)[s] <= shipped'[s]
               /\ \A n \in 1 .. shipped'[s] : InLink(s, r, n)' => Merge(c, ts)[s] < n
    <3>1. PICK p \in P : ts[s] = stableClk[r][p][s]
      BY <1>6, <2>5 DEF CommitStep
    <3>2. Merge(c, ts)[s] = c[s] \/ Merge(c, ts)[s] = stableClk[r][p][s]
      BY <3>1, MergeFacts DEF CommitStep
    <3>3. CoversReceived(stableClk[r][p], s, r)
      BY <2>2, <2>5
    <3> QED BY <2>4, <2>5, <3>2, <3>3
  <2>6. CoversReceived(localClock[a], s, a)'
    <3>1. localClock[a] \in Clock
      BY <1>0 DEF TypesOK
    <3>2. /\ localClock'[a][s] <= shipped'[s]
          /\ \A n \in 1 .. shipped'[s] : InLink(s, a, n)' => localClock'[a][s] < n
      BY <1>5, <2>2, <2>4, <2>5, <3>1
    <3> QED BY <3>2 DEF CoversReceived
  <2>7. ASSUME NEW p \in Partitions
        PROVE  CoversReceived(stableClk[a][p], s, a)'
    <3>1. stableClk[a][p] \in Clock
      BY <1>0 DEF TypesOK
    <3>2. /\ stableClk'[a][p][s] <= shipped'[s]
          /\ \A n \in 1 .. shipped'[s] : InLink(s, a, n)' => stableClk'[a][p][s] < n
      BY <1>5, <2>2, <2>4, <2>5, <3>1
    <3> QED BY <3>2 DEF CoversReceived
  <2>8. ASSUME remote'[a] # Idle
        PROVE  CoversReceived(remote[a].clk, s, a)'
    <3>1. remote'[a] = remote[a] /\ remote[a] # Idle
      BY <2>8 DEF CommitStep
    <3>2. /\ remote'[a].clk[s] <= shipped'[s]
          /\ \A n \in 1 .. shipped'[s] : InLink(s, a, n)' => remote'[a].clk[s] < n
      BY <2>2, <2>4, <3>1
    <3> QED BY <3>2 DEF CoversReceived
  <2> QED BY <2>6, <2>7, <2>8
<1>7. CoversOK'
  BY <1>6 DEF CoversOK, CoverOK, Idle
<1> QED BY <1>3, <1>7

LEMMA CommitKeeps ==
    ASSUME RemoteInv, NEW r \in Replicas, NEW P \in SUBSET Partitions, CommitAt(r, P),
           UNCHANGED <<shipped, link, downstreamQueue, remote>>,
           downstreamOpsCh' \in [Replicas -> Seq(SUBSET Partitions)]
    PROVE  RemoteInv' /\ \E ts : CommitStep(r, P, ts)
<1>1. PICK ts : CommitStep(r, P, ts)
  BY CommitTimestamp DEF RemoteInv, CommitStep
<1>2. LogGrows /\ TypesOK'
  BY <1>1, CommitGrows DEF RemoteInv
<1>3. LogOK' /\ ClocksOK'
  BY <1>1, CommitLog
<1>4. LinksOK' /\ QueuesOK' /\ JobsOK'
  BY <1>2, MessagesStay DEF RemoteInv
<1>5. DbsOK' /\ OwnsOK'
  BY <1>1, CommitDbs
<1>6. PlacesOK' /\ CoversOK'
  BY <1>1, CommitPlaces
<1> QED BY <1>1, <1>2, <1>3, <1>4, <1>5, <1>6 DEF RemoteInv

-----------------------------------------------------------------------------
(* A shipment *)

\* M is what a shipment puts on the links of r.
Shipment(r, M) ==
    /\ M \in Seq(Message)
    /\ \A i \in 1 .. Len(M) :
          /\ M[i].from = r /\ M[i].ts <= Len(log[r]) /\ (M[i].kind = "clk" <=> M[i].txns = <<>>)
          /\ \A k \in 1 .. Len(M[i].txns) : M[i].txns[k] \in (shipped[r] + 1) .. Len(log[r])
          /\ \A k, l \in 1 .. Len(M[i].txns) : k < l => M[i].txns[k] < M[i].txns[l]
          /\ \A k \in 1 .. Len(M[i].txns) : \A q \in Replicas \ {r} :
                 log[r][M[i].txns[k]].clk[q] = log[r][M[i].txns[1]].clk[q]
    /\ \A i, j \in 1 .. Len(M) : i < j =>
          \A l \in 1 .. Len(M[j].txns) :
              /\ M[i].ts < M[j].txns[l]
              /\ \A k \in 1 .. Len(M[i].txns) : M[i].txns[k] < M[j].txns[l]
    /\ \A n \in (shipped[r] + 1) .. Len(log[r]) : InMessages(M, n)

LEMMA ShipFacts ==
    ASSUME RemoteInv, NEW r \in Replicas, Ship(r)
    PROVE  \E M : /\ Shipment(r, M)
                  /\ \A a \in Replicas \ {r} : link'[r][a] = link[r][a] \o M
                  /\ \A s, a \in Replicas : s # r \/ a = r => link'[s][a] = link[s][a]
<1> DEFINE from == shipped[r] + 1
           to == Len(log[r])
           c == Msg("clk", r, <<>>, log[r][to].clk[r])
<1>0. TypesOK /\ LogOK
  BY DEF RemoteInv
<1>1. from \in Nat /\ to \in Nat /\ 1 <= from /\ from <= to /\ to \in 1 .. Len(log[r]) /\ shipped[r] \in Nat
  BY <1>0 DEF TypesOK, Ship
<1>2. PICK x : Carries(x, r, from, to) /\ Messages(r, from, to) = x \o <<c>>
  <2> HIDE DEF from, to
  <2> QED BY <1>1, MessagesFacts
<1>3. log[r][to].clk[r] = to
  BY <1>0, <1>1 DEF LogOK, TxnOK
<1>4. c \in Message /\ c.kind = "clk" /\ c.from = r /\ c.txns = <<>> /\ c.ts = to /\ Len(c.txns) = 0
  <2>1. <<>> \in Seq(Nat) /\ Len(<<>>) = 0
    OBVIOUS
  <2> QED BY <1>1, <1>3, <2>1 DEF Msg, Message
<1> DEFINE M == Append(x, c)
<1>5. x \in Seq(Message) /\ x \o <<c>> = M
  BY <1>2, <1>4 DEF Carries
<1> HIDE DEF c
<1>6. /\ M \in Seq(Message) /\ Len(x) \in Nat /\ Len(M) = Len(x) + 1
      /\ \A i \in 1 .. Len(x) : M[i] = x[i] /\ i \in 1 .. Len(M)
      /\ M[Len(x) + 1] = c
      /\ \A i \in 1 .. Len(M) : i \in 1 .. Len(x) \/ i = Len(x) + 1
  BY <1>4, <1>5, AppendFacts
<1>7. Messages(r, from, to) = M
  BY SMTT(60), <1>2, <1>5
<1>8. ASSUME NEW i \in 1 .. Len(x)
      PROVE  /\ M[i] = x[i] /\ M[i].kind # "clk" /\ M[i].from = r /\ M[i].ts = 0 /\ M[i].txns # <<>>
             /\ \A k \in 1 .. Len(M[i].txns) : M[i].txns[k] \in from .. to
             /\ \A k, l \in 1 .. Len(M[i].txns) : k < l => M[i].txns[k] < M[i].txns[l]
             /\ \A k \in 1 .. Len(M[i].txns) : \A q \in Replicas \ {r} :
                    log[r][M[i].txns[k]].clk[q] = log[r][M[i].txns[1]].clk[q]
  BY <1>2, <1>6 DEF Carries, Part
<1>9. /\ \A a \in Replicas \ {r} : link'[r][a] = link[r][a] \o M
      /\ \A s, a \in Replicas : s # r \/ a = r => link'[s][a] = link[s][a]
  BY <1>0, <1>7 DEF Ship, TypesOK
<1> HIDE DEF M
<1>10. ASSUME NEW i \in 1 .. Len(M)
       PROVE  /\ M[i].from = r /\ M[i].ts <= Len(log[r]) /\ (M[i].kind = "clk" <=> M[i].txns = <<>>)
              /\ \A k \in 1 .. Len(M[i].txns) : M[i].txns[k] \in from .. to
              /\ \A k, l \in 1 .. Len(M[i].txns) : k < l => M[i].txns[k] < M[i].txns[l]
              /\ \A k \in 1 .. Len(M[i].txns) : \A q \in Replicas \ {r} :
                     log[r][M[i].txns[k]].clk[q] = log[r][M[i].txns[1]].clk[q]
  <2>1. CASE i \in 1 .. Len(x)
    <3>1. 0 <= Len(log[r])
      BY <1>1
    <3> QED BY <1>8, <2>1, <3>1
  <2>2. CASE i = Len(x) + 1
    <3>1. M[i] = c /\ 1 .. Len(c.txns) = {} /\ c.ts <= Len(log[r])
      BY <1>1, <1>4, <1>6, <2>2
    <3> QED BY <1>4, <3>1
  <2> QED BY <1>6, <2>1, <2>2
<1>11. ASSUME NEW i \in 1 .. Len(M), NEW j \in 1 .. Len(M), i < j, NEW l \in 1 .. Len(M[j].txns)
       PROVE  /\ M[i].ts < M[j].txns[l]
              /\ \A k \in 1 .. Len(M[i].txns) : M[i].txns[k] < M[j].txns[l]
  <2>1. j # Len(x) + 1
    BY <1>4, <1>6
  <2>2. i \in 1 .. Len(x) /\ j \in 1 .. Len(x)
    BY <1>6, <1>11, <2>1
  <2>3. M[i] = x[i] /\ M[j] = x[j] /\ M[i].ts = 0 /\ M[j].txns[l] \in from .. to
    BY <1>8, <2>2
  <2>4. M[i].ts < M[j].txns[l]
    BY SMTT(60), <1>1, <2>3
  <2>5. \A k \in 1 .. Len(M[i].txns) : M[i].txns[k] < M[j].txns[l]
    BY <1>2, <1>11, <2>2, <2>3 DEF Carries
  <2> QED BY <2>4, <2>5
<1>12. ASSUME NEW n \in from .. to
       PROVE  InMessages(M, n)
  <2>1. PICK i \in 1 .. Len(x) : \E k \in 1 .. Len(x[i].txns) : x[i].txns[k] = n
    BY <1>2 DEF Carries
  <2> QED BY <1>6, <2>1 DEF InMessages
<1>13. Shipment(r, M)
  BY <1>6, <1>10, <1>11, <1>12 DEF Shipment
<1> QED BY <1>9, <1>13

\* What is in a message, a job or another replica's database was sent.
LEMMA PlacesSent ==
    ASSUME RemoteInv, NEW r \in Replicas, NEW s \in Replicas, r # s, NEW n
    PROVE  /\ InLink(s, r, n) => n \in 1 .. shipped[s]
           /\ InQueue(r, s, n) => n \in 1 .. shipped[s]
           /\ InJob(r, s, n) => n \in 1 .. shipped[s] /\ remote[r].from = s
           /\ \A p \in Partitions : InDb(r, p, s, n) => n \in 1 .. shipped[s]
<1>1. InLink(s, r, n) => n \in 1 .. shipped[s]
  <2>1. \A i \in 1 .. Len(link[s][r]) : MessageOK(link[s][r][i], s)
    BY DEF RemoteInv, LinksOK, LinkOK
  <2>2. \A i \in 1 .. Len(link[s][r]) : \A k \in 1 .. Len(link[s][r][i].txns) : link[s][r][i].txns[k] \in 1 .. shipped[s]
    BY <2>1 DEF MessageOK
  <2> QED BY SMTT(60), <2>2 DEF InLink, InMessages
<1>2. InQueue(r, s, n) => n \in 1 .. shipped[s]
  <2> DEFINE Q == downstreamQueue[r][s]
  <2>1. \A i \in 1 .. Len(Q) : MessageOK(Q[i], s)
    BY SMTT(60) DEF RemoteInv, QueuesOK, QueueOK
  <2>2. \A i \in 1 .. Len(Q) : \A k \in 1 .. Len(Q[i].txns) : Q[i].txns[k] \in 1 .. shipped[s]
    BY SMTT(60), <2>1 DEF MessageOK
  <2> QED BY <2>2 DEF InQueue, InMessages
<1>3. ASSUME InJob(r, s, n)
      PROVE  n \in 1 .. shipped[s] /\ remote[r].from = s
  <2>1. JobOK(r) /\ remote[r] # Idle
    BY <1>3 DEF RemoteInv, JobsOK, InJob
  <2>2. PICK k \in 1 .. Len(remote[r].txns) : remote[r].txns[k] = Id(s, n)
    BY <1>3 DEF InJob
  <2>3. remote[r].txns[k][1] = s /\ remote[r].txns[k][2] = n
    BY <2>2 DEF Id
  <2> QED BY <2>1, <2>2, <2>3 DEF JobOK
<1>4. ASSUME NEW p \in Partitions, InDb(r, p, s, n)
      PROVE  n \in 1 .. shipped[s]
  <2>1. PICK i \in 1 .. Len(db[r][p]) : db[r][p][i] = Id(s, n)
    BY <1>4 DEF InDb
  <2>2. DbOK(r, p)
    BY DEF RemoteInv, DbsOK
  <2>3. db[r][p][i][1] = s /\ db[r][p][i][2] = n
    BY <2>1 DEF Id
  <2>4. n <= shipped[s] /\ n \in 1 .. Len(log[s])
    BY <2>2, <2>3 DEF DbOK, Updates
  <2>5. shipped[s] \in Nat /\ Len(log[s]) \in Nat
    BY DEF RemoteInv, TypesOK
  <2> QED BY <2>4, <2>5
<1> QED BY <1>1, <1>2, <1>3, <1>4

LEMMA InConcat ==
    ASSUME NEW x \in Seq(Message), NEW y \in Seq(Message), NEW n
    PROVE  InMessages(x \o y, n) <=> InMessages(x, n) \/ InMessages(y, n)
<1> DEFINE M == x \o y
<1>1. /\ Len(x) \in Nat /\ Len(y) \in Nat
      /\ \A i \in 1 .. Len(x) : M[i] = x[i] /\ i \in 1 .. Len(M)
      /\ \A j \in 1 .. Len(y) : M[Len(x) + j] = y[j] /\ Len(x) + j \in 1 .. Len(M)
      /\ \A i \in 1 .. Len(M) : i \in 1 .. Len(x) \/ (i - Len(x) \in 1 .. Len(y) /\ i = Len(x) + (i - Len(x)))
  BY ConcatFacts
<1> HIDE DEF M
<1>2. ASSUME InMessages(M, n)
      PROVE  InMessages(x, n) \/ InMessages(y, n)
  <2>1. PICK i \in 1 .. Len(M) : \E k \in 1 .. Len(M[i].txns) : M[i].txns[k] = n
    BY <1>2 DEF InMessages
  <2>2. CASE i \in 1 .. Len(x)
    BY SMTT(60), <1>1, <2>1, <2>2 DEF InMessages
  <2>3. CASE i - Len(x) \in 1 .. Len(y) /\ i = Len(x) + (i - Len(x))
    <3>1. M[i] = y[i - Len(x)]
      BY <1>1, <2>3
    <3> QED BY <2>1, <2>3, <3>1 DEF InMessages
  <2> QED BY <1>1, <2>2, <2>3
<1>3. ASSUME InMessages(x, n)
      PROVE  InMessages(M, n)
  BY <1>1, <1>3 DEF InMessages
<1>4. ASSUME InMessages(y, n)
      PROVE  InMessages(M, n)
  BY SMTT(60), <1>1, <1>4 DEF InMessages
<1> QED BY <1>2, <1>3, <1>4 DEF M

LEMMA ShipTypes ==
    ASSUME RemoteInv, NEW r \in Replicas, Ship(r)
    PROVE  /\ TypesOK' /\ LogGrows /\ LogOK' /\ ClocksOK'
           /\ shipped'[r] = Len(log[r]) /\ shipped[r] \in Nat /\ Len(log[r]) \in Nat /\ shipped[r] < Len(log[r])
           /\ \A s \in Replicas \ {r} : shipped'[s] = shipped[s]
<1>0. TypesOK /\ LogOK /\ ClocksOK
  BY DEF RemoteInv
<1>1. PICK M : /\ Shipment(r, M)
               /\ \A a \in Replicas \ {r} : link'[r][a] = link[r][a] \o M
               /\ \A s, a \in Replicas : s # r \/ a = r => link'[s][a] = link[s][a]
  BY ShipFacts
<1>2. UNCHANGED <<log, localClock, stableClk, db, downstreamQueue, remote, downstreamOpsCh>>
  BY DEF Ship, tmVars
<1>3. link' \in [Replicas -> [Replicas -> Seq(Message)]]
  <2> DEFINE f == [q \in Replicas |-> IF q = r THEN link[r][q]
                                      ELSE link[r][q] \o Messages(r, shipped[r] + 1, Len(log[r]))]
  <2>1. link' = [link EXCEPT ![r] = f]
    BY DEF Ship
  <2>2. \A q \in Replicas : f[q] = link'[r][q]
    <3>1. link'[r] = f
      BY <1>0, <2>1 DEF TypesOK
    <3> QED BY <3>1
  <2>3. f = [q \in Replicas |-> f[q]]
    OBVIOUS
  <2> HIDE DEF f
  <2>4. \A q \in Replicas : f[q] \in Seq(Message)
    <3>1. \A q \in Replicas : link[r][q] \in Seq(Message)
      BY <1>0 DEF TypesOK
    <3>2. M \in Seq(Message)
      BY <1>1 DEF Shipment
    <3>3. \A q \in Replicas \ {r} : link[r][q] \o M \in Seq(Message)
      BY <3>1, <3>2, ConcatFacts
    <3>4. \A q \in Replicas : link'[r][q] \in Seq(Message)
      BY <1>1, <3>1, <3>3
    <3> QED BY <2>2, <3>4
  <2>5. f \in [Replicas -> Seq(Message)]
    BY <2>3, <2>4
  <2> QED BY <1>0, <2>1, <2>5 DEF TypesOK
<1>4. /\ shipped'[r] = Len(log[r]) /\ shipped[r] \in Nat /\ Len(log[r]) \in Nat /\ shipped[r] < Len(log[r])
      /\ \A s \in Replicas \ {r} : shipped'[s] = shipped[s]
      /\ shipped' \in [Replicas -> Nat]
  BY <1>0 DEF Ship, TypesOK
<1>5. TypesOK'
  BY <1>0, <1>2, <1>3, <1>4 DEF TypesOK, Ids, Txn, Message, RemoteJob, Clock, Idle
<1>6. \A s \in Replicas : /\ Len(log[s]) \in Nat /\ shipped[s] \in Nat /\ shipped'[s] \in Nat
                          /\ shipped[s] <= shipped'[s] /\ shipped'[s] <= Len(log[s])
  <2>1. \A s \in Replicas : /\ Len(log[s]) \in Nat /\ shipped[s] \in Nat /\ shipped'[s] \in Nat
                            /\ shipped[s] <= Len(log[s])
    BY <1>0, <1>4 DEF LogOK, TypesOK
  <2> QED BY <1>4, <2>1
<1>7. LogGrows
  BY <1>2, <1>6 DEF LogGrows
<1>8. LogOK'
  <2>1. ASSUME NEW s \in Replicas, NEW n \in 1 .. Len(log'[s])
        PROVE  TxnOK(s, n)'
    <3>1. TxnOK(s, n)
      BY <1>0, <1>2 DEF LogOK
    <3> QED BY <1>2, <3>1 DEF TxnOK, Updates, Ids
  <2> QED BY <1>2, <1>6, <2>1 DEF LogOK
<1>9. ClocksOK'
  BY <1>0, <1>2 DEF ClocksOK, ClockOK, Idle
<1> QED BY <1>4, <1>5, <1>7, <1>8, <1>9

LEMMA ShipLink ==
    ASSUME RemoteInv, NEW r \in Replicas, Ship(r), NEW a \in Replicas \ {r}
    PROVE  LinkOK(r, a)'
<1>0. TypesOK /\ LogOK /\ LinkOK(r, a)
  BY DEF RemoteInv, LinksOK
<1>1. PICK M : Shipment(r, M) /\ link'[r][a] = link[r][a] \o M
  BY ShipFacts
<1>2. /\ shipped'[r] = Len(log[r]) /\ shipped[r] \in Nat /\ Len(log[r]) \in Nat /\ shipped[r] < Len(log[r])
      /\ LogGrows
  BY ShipTypes
<1> DEFINE x == link[r][a]
           y == link'[r][a]
<1>3. x \in Seq(Message) /\ M \in Seq(Message)
  BY <1>0, <1>1 DEF TypesOK, Shipment
<1>4. /\ y \in Seq(Message) /\ Len(x) \in Nat /\ Len(M) \in Nat /\ Len(y) = Len(x) + Len(M)
      /\ \A i \in 1 .. Len(x) : y[i] = x[i] /\ i \in 1 .. Len(y)
      /\ \A i \in 1 .. Len(y) : i \in 1 .. Len(x) \/ (i - Len(x) \in 1 .. Len(M) /\ i = Len(x) + (i - Len(x)))
      /\ \A i \in 1 .. Len(M) : y[Len(x) + i] = M[i]
  BY SMTT(60), <1>1, <1>3, ConcatFacts
<1>5. \A i \in 1 .. Len(x) : x[i] \in Message /\ MessageOK(x[i], r)
  BY <1>0, <1>3 DEF LinkOK
<1>6. log' = log
  BY DEF Ship
<1> HIDE DEF x
<1>7. ASSUME NEW i \in 1 .. Len(y), i \notin 1 .. Len(x)
      PROVE  i - Len(x) \in 1 .. Len(M) /\ y[i] = M[i - Len(x)]
  <2>1. i - Len(x) \in 1 .. Len(M) /\ i = Len(x) + (i - Len(x))
    BY <1>4, <1>7
  <2> QED BY <1>4, <2>1
<1>8. ASSUME NEW i \in 1 .. Len(y)
      PROVE  MessageOK(link[r][a][i], r)'
  <2>1. CASE i \in 1 .. Len(x)
    <3>1. PICK m : m = x[i]
      OBVIOUS
    <3>2. m \in Message /\ MessageOK(m, r) /\ link'[r][a][i] = m
      BY <1>4, <1>5, <2>1, <3>1
    <3>3. MessageOK(m, r)'
      BY <1>0, <1>2, <3>2, MessageStays
    <3> QED BY <3>2, <3>3
  <2>2. CASE i \notin 1 .. Len(x)
    <3>1. PICK j \in 1 .. Len(M) : y[i] = M[j]
      BY <1>7, <2>2
    <3>2. PICK m : m = M[j] /\ link'[r][a][i] = m
      BY <3>1
    <3>3. m.ts <= shipped'[r] /\ m.from = r /\ (m.kind = "clk" <=> m.txns = <<>>)
      BY <1>1, <1>2, <3>1, <3>2 DEF Shipment
    <3>4. \A k, l \in 1 .. Len(m.txns) : k < l => m.txns[k] < m.txns[l]
      BY <1>1, <3>1, <3>2 DEF Shipment
    <3>5. \A k \in 1 .. Len(m.txns) : m.txns[k] \in 1 .. shipped'[r]
      <4>1. \A n \in (shipped[r] + 1) .. Len(log[r]) : n \in 1 .. shipped'[r]
        BY <1>2
      <4> QED BY <1>1, <3>1, <3>2, <4>1 DEF Shipment
    <3>6. \A k \in 1 .. Len(m.txns) : \A q \in Replicas \ {r} : log[r][m.txns[k]].clk[q] = log[r][m.txns[1]].clk[q]
      BY <1>1, <3>1, <3>2 DEF Shipment
    <3>7. MessageOK(m, r)'
      BY ZenonT(60), <1>6, <3>3, <3>4, <3>5, <3>6 DEF MessageOK
    <3> QED BY <3>2, <3>7
  <2> QED BY <2>1, <2>2
<1>9. ASSUME NEW i \in 1 .. Len(y), NEW j \in 1 .. Len(y), i < j, NEW b \in 1 .. Len(y[j].txns)
      PROVE  y[i].ts < y[j].txns[b] /\ \A k \in 1 .. Len(y[i].txns) : y[i].txns[k] < y[j].txns[b]
  <2>1. CASE j \in 1 .. Len(x)
    <3>1. i \in 1 .. Len(x)
      BY <1>4, <1>9, <2>1
    <3>2. y[i] = x[i] /\ y[j] = x[j]
      BY <1>4, <2>1, <3>1
    <3> QED BY <1>0, <1>9, <2>1, <3>1, <3>2 DEF LinkOK, x
  <2>2. CASE i \notin 1 .. Len(x)
    <3>1. j \notin 1 .. Len(x)
      BY <1>4, <1>9, <2>2
    <3>2. i - Len(x) \in 1 .. Len(M) /\ j - Len(x) \in 1 .. Len(M) /\ i - Len(x) < j - Len(x)
      BY <1>4, <1>7, <1>9, <2>2, <3>1
    <3>3. y[i] = M[i - Len(x)] /\ y[j] = M[j - Len(x)]
      BY <1>7, <2>2, <3>1
    <3> QED BY ZenonT(60), <1>1, <1>9, <3>2, <3>3 DEF Shipment
  <2>3. CASE i \in 1 .. Len(x) /\ j \notin 1 .. Len(x)
    <3>1. PICK l \in 1 .. Len(M) : y[j] = M[l]
      BY <1>7, <2>3
    <3>2. y[j].txns[b] \in (shipped[r] + 1) .. Len(log[r])
      BY <1>1, <3>1 DEF Shipment
    <3>3. y[i] = x[i]
      BY <1>4, <2>3
    <3>4. x[i].ts <= shipped[r] /\ x[i].ts \in Nat /\ \A k \in 1 .. Len(x[i].txns) : x[i].txns[k] \in 1 .. shipped[r]
      BY <1>5, <2>3 DEF MessageOK, Message
    <3> HIDE DEF y
    <3>5. PICK v : v = y[j].txns[b]
      OBVIOUS
    <3>6. \A n \in Nat : n <= shipped[r] => n < v
      <4>1. v \in (shipped[r] + 1) .. Len(log[r])
        BY <3>2, <3>5
      <4> QED BY <1>2, <4>1
    <3>7. \A n \in 1 .. shipped[r] : n \in Nat /\ n <= shipped[r]
      BY <1>2
    <3>8. \A k \in 1 .. Len(x[i].txns) : x[i].txns[k] < v
      BY <3>4, <3>6, <3>7
    <3>9. x[i].ts < v
      BY <3>4, <3>6
    <3> QED BY <3>3, <3>5, <3>8, <3>9
  <2> QED BY <2>1, <2>2, <2>3
<1>10. a # r
  OBVIOUS
<1> QED BY SMTT(60), <1>8, <1>9, <1>10 DEF LinkOK, y

LEMMA ClocksTyped ==
    ASSUME TypesOK, NEW r \in Replicas
    PROVE  /\ localClock[r] \in Clock /\ \A s \in Replicas : localClock[r][s] \in Nat
           /\ \A p \in Partitions : stableClk[r][p] \in Clock /\ \A s \in Replicas : stableClk[r][p][s] \in Nat
           /\ remote[r] # Idle => remote[r] \in RemoteJob /\ remote[r].clk \in Clock
                                   /\ \A s \in Replicas : remote[r].clk[s] \in Nat
<1>1. \A c \in Clock : \A s \in Replicas : c[s] \in Nat
  BY DEF Clock
<1>2. localClock[r] \in Clock /\ \A p \in Partitions : stableClk[r][p] \in Clock
  BY DEF TypesOK
<1>3. remote[r] # Idle => remote[r] \in RemoteJob
  BY DEF TypesOK
<1>4. remote[r] # Idle => remote[r].clk \in Clock
  BY <1>3 DEF RemoteJob
<1> QED BY <1>1, <1>2, <1>3, <1>4

LEMMA ShipPlaces ==
    ASSUME RemoteInv, NEW r \in Replicas, Ship(r)
    PROVE  PlacesOK' /\ CoversOK'
<1>0. TypesOK /\ LogOK /\ PlacesOK /\ CoversOK
  BY DEF RemoteInv
<1>1. PICK M : /\ Shipment(r, M)
               /\ \A a \in Replicas \ {r} : link'[r][a] = link[r][a] \o M
               /\ \A s, a \in Replicas : s # r \/ a = r => link'[s][a] = link[s][a]
  BY ShipFacts
<1>2. /\ shipped'[r] = Len(log[r]) /\ shipped[r] \in Nat /\ Len(log[r]) \in Nat /\ shipped[r] < Len(log[r])
      /\ \A s \in Replicas \ {r} : shipped'[s] = shipped[s]
  BY ShipTypes
<1>3. UNCHANGED <<log, localClock, stableClk, db, downstreamQueue, remote>>
  BY DEF Ship, tmVars
<1>4. M \in Seq(Message) /\ \A n : InMessages(M, n) => n \in (shipped[r] + 1) .. Len(log[r])
  BY <1>1 DEF Shipment, InMessages
<1>5. \A n \in (shipped[r] + 1) .. Len(log[r]) : InMessages(M, n)
  BY <1>1 DEF Shipment
<1>6. ASSUME NEW a \in Replicas \ {r}, NEW n
      PROVE  InLink(r, a, n)' <=> InLink(r, a, n) \/ InMessages(M, n)
  <2>1. link[r][a] \in Seq(Message)
    BY <1>0 DEF TypesOK
  <2>2. InMessages(link[r][a] \o M, n) <=> InMessages(link[r][a], n) \/ InMessages(M, n)
    BY <1>4, <2>1, InConcat
  <2>3. InMessages(link'[r][a], n) <=> InMessages(link[r][a], n) \/ InMessages(M, n)
    BY <1>1, <2>2
  <2> QED BY <2>3 DEF InLink
<1>7. ASSUME NEW a \in Replicas, NEW s \in Replicas, NEW n
      PROVE  /\ InQueue(a, s, n)' <=> InQueue(a, s, n)
             /\ InJob(a, s, n)' <=> InJob(a, s, n)
             /\ \A p \in Partitions : InDb(a, p, s, n)' <=> InDb(a, p, s, n)
  BY <1>3 DEF InQueue, InJob, InDb, InMessages, Id, Idle
<1>8. ASSUME NEW a \in Replicas, NEW s \in Replicas, a # s, NEW n \in 1 .. shipped'[s]
      PROVE  PlaceOK(a, s, n)'
  <2>1. /\ remote[a] # Idle => remote[a].todo \subseteq Partitions
        /\ n \in 1 .. Len(log[s]) /\ log[s][n].parts \subseteq Partitions
    <3>1. remote[a] # Idle => remote[a] \in RemoteJob
      BY <1>0 DEF TypesOK
    <3>2. log[s] \in Seq(Txn) /\ shipped[s] \in Nat
      BY <1>0 DEF TypesOK
    <3>3. shipped'[s] <= Len(log[s]) /\ shipped'[s] \in Nat
      BY <1>0, <1>2, <3>2 DEF LogOK
    <3>4. n \in 1 .. Len(log[s])
      BY <3>2, <3>3
    <3>5. log[s][n] \in Txn
      BY <3>2, <3>4
    <3> QED BY <3>1, <3>4, <3>5 DEF RemoteJob, Txn
  <2>2. CASE s # r
    <3>1. /\ shipped'[s] = shipped[s] /\ log'[s][n] = log[s][n] /\ remote'[a] = remote[a]
          /\ link'[s][a] = link[s][a] /\ downstreamQueue'[a][s] = downstreamQueue[a][s]
          /\ n \in 1 .. shipped[s] /\ shipped[s] \in Nat
      BY <1>0, <1>1, <1>2, <1>3, <2>2 DEF TypesOK
    <3>2. PlaceOK(a, s, n)
      BY <1>0, <1>8, <3>1 DEF PlacesOK
    <3> QED BY <1>7, <2>1, <3>1, <3>2, PlaceStays
  <2>3. CASE s = r
    <3>1. \A k : /\ InQueue(a, r, k) => k \in 1 .. shipped[r]
                 /\ InJob(a, r, k) => k \in 1 .. shipped[r]
                 /\ \A p \in Partitions : InDb(a, p, r, k) => k \in 1 .. shipped[r]
                 /\ InLink(r, a, k) => k \in 1 .. shipped[r]
      BY <1>8, <2>3, PlacesSent
    <3>2. n \in 1 .. shipped[r] \/ n \in (shipped[r] + 1) .. Len(log[r])
      BY <1>2, <1>8, <2>3
    <3>3. n \in 1 .. shipped[r] => PlaceOK(a, r, n)
      BY <1>0, <1>8, <2>3 DEF PlacesOK
    <3>4. n \in (shipped[r] + 1) .. Len(log[r]) => \A k \in 1 .. shipped[r] : k < n
      BY <1>2
    <3>5. a \in Replicas \ {r}
      BY <1>8, <2>3
    <3>6. (InLink(r, a, n))' => \A k \in 1 .. shipped'[r] :
             /\ (InQueue(a, r, k))' \/ (InJob(a, r, k))' => k < n
             /\ \A p \in Partitions : (InDb(a, p, r, k))' => k < n
      <4>1. ASSUME (InLink(r, a, n))', NEW k, k \in 1 .. shipped[r],
                   InQueue(a, r, k) \/ InJob(a, r, k) \/ \E p \in Partitions : InDb(a, p, r, k)
            PROVE  k < n
        <5>1. CASE InLink(r, a, n)
          BY <3>1, <3>3, <4>1, <5>1 DEF PlaceOK
        <5>2. CASE InMessages(M, n)
          BY <1>4, <3>4, <4>1, <5>2
        <5> QED BY <1>6, <3>5, <4>1, <5>1, <5>2
      <4> QED BY <1>7, <3>1, <4>1
    <3>7. (InQueue(a, r, n))' => ~(InJob(a, r, n))' /\ \A p \in Partitions : ~(InDb(a, p, r, n))'
      BY <1>7, <3>1, <3>3 DEF PlaceOK
    <3>8. (InJob(a, r, n))' => \A p \in remote'[a].todo : ~(InDb(a, p, r, n))'
      <4>1. InJob(a, r, n) => remote[a].todo \subseteq Partitions /\ \A p \in remote[a].todo : ~InDb(a, p, r, n)
        BY <2>1, <3>1, <3>3 DEF PlaceOK, InJob
      <4> QED BY <1>3, <1>7, <4>1
    <3>9. \A p \in log'[r][n].parts :
             \/ (InLink(r, a, n))' \/ (InQueue(a, r, n))' \/ (InDb(a, p, r, n))'
             \/ (InJob(a, r, n))' /\ p \in remote'[a].todo
      <4>1. CASE n \in (shipped[r] + 1) .. Len(log[r])
        BY <1>5, <1>6, <3>5, <4>1
      <4>2. CASE n \in 1 .. shipped[r]
        <5>1. \A p \in log[r][n].parts :
                 \/ InLink(r, a, n) \/ InQueue(a, r, n) \/ InDb(a, p, r, n)
                 \/ InJob(a, r, n) /\ p \in remote[a].todo
          BY <3>3, <4>2 DEF PlaceOK
        <5> QED BY <1>3, <1>6, <1>7, <2>1, <2>3, <3>5, <5>1
      <4> QED BY <3>2, <4>1, <4>2
    <3> QED BY <2>3, <3>6, <3>7, <3>8, <3>9 DEF PlaceOK
  <2> QED BY <2>2, <2>3
<1>9. PlacesOK'
  BY <1>8 DEF PlacesOK
<1>10. ASSUME NEW a \in Replicas, NEW s \in Replicas \ {a}, NEW c, c \in Nat, c <= shipped[s],
              \A n \in 1 .. shipped[s] : InLink(s, a, n) => c < n
       PROVE  c <= shipped'[s] /\ \A n \in 1 .. shipped'[s] : InLink(s, a, n)' => c < n
  <2>1. CASE s # r
    <3>1. shipped'[s] = shipped[s] /\ \A n : InLink(s, a, n)' <=> InLink(s, a, n)
      <4>1. shipped'[s] = shipped[s] /\ link'[s][a] = link[s][a]
        BY <1>1, <1>2, <2>1
      <4> QED BY <4>1 DEF InLink, InMessages
    <3> QED BY <1>10, <3>1
  <2>2. CASE s = r
    <3>1. c <= shipped'[s]
      BY <1>2, <1>10, <2>2
    <3>2. \A n \in (shipped[r] + 1) .. Len(log[r]) : c < n
      BY <1>2, <1>10, <2>2
    <3>3. \A n : InLink(r, a, n) => n \in 1 .. shipped[r]
      BY <1>10, <2>2, PlacesSent
    <3>4. \A n : InLink(r, a, n)' => c < n
      BY <1>4, <1>6, <1>10, <2>2, <3>2, <3>3
    <3> QED BY <2>2, <3>1, <3>4
  <2> QED BY <2>1, <2>2
<1>11. ASSUME NEW a \in Replicas, ~OnHold(a), NEW s \in Replicas \ {a}
       PROVE  /\ CoversReceived(localClock[a], s, a)'
              /\ \A p \in Partitions : CoversReceived(stableClk[a][p], s, a)'
              /\ remote[a] # Idle => CoversReceived(remote[a].clk, s, a)'
  <2>1. /\ CoversReceived(localClock[a], s, a)
        /\ \A p \in Partitions : CoversReceived(stableClk[a][p], s, a)
        /\ remote[a] # Idle => CoversReceived(remote[a].clk, s, a)
    BY <1>0, <1>11 DEF CoversOK, CoverOK
  <2>2. /\ localClock[a][s] \in Nat
        /\ \A p \in Partitions : stableClk[a][p][s] \in Nat
        /\ remote[a] # Idle => remote[a].clk[s] \in Nat
    BY <1>0, ClocksTyped
  <2>3. /\ localClock'[a][s] <= shipped'[s] /\ \A n \in 1 .. shipped'[s] : InLink(s, a, n)' => localClock'[a][s] < n
    BY <1>3, <1>10, <2>1, <2>2 DEF CoversReceived
  <2>4. ASSUME NEW p \in Partitions
        PROVE  stableClk'[a][p][s] <= shipped'[s] /\ \A n \in 1 .. shipped'[s] : InLink(s, a, n)' => stableClk'[a][p][s] < n
    BY <1>3, <1>10, <2>1, <2>2 DEF CoversReceived
  <2>5. ASSUME remote[a] # Idle
        PROVE  remote'[a].clk[s] <= shipped'[s] /\ \A n \in 1 .. shipped'[s] : InLink(s, a, n)' => remote'[a].clk[s] < n
    BY <1>3, <1>10, <2>1, <2>2, <2>5 DEF CoversReceived
  <2> QED BY <2>3, <2>4, <2>5 DEF CoversReceived
<1>12. CoversOK'
  <2>1. \A a \in Replicas : OnHold(a)' <=> OnHold(a)
    BY <1>3 DEF OnHold
  <2>2. \A a \in Replicas : remote'[a] # Idle => remote[a] # Idle
    BY <1>3
  <2> QED BY <1>11, <2>1, <2>2 DEF CoversOK, CoverOK, Idle
<1> QED BY <1>9, <1>12

LEMMA ShipKeeps ==
    ASSUME RemoteInv, NEW r \in Replicas, Ship(r)
    PROVE  RemoteInv'
<1>0. TypesOK /\ LogOK /\ LinksOK /\ QueuesOK /\ JobsOK /\ DbsOK /\ OwnsOK
  BY DEF RemoteInv
<1>1. TypesOK' /\ LogGrows /\ LogOK' /\ ClocksOK'
  BY ShipTypes
<1>2. UNCHANGED <<log, db, downstreamQueue, remote>>
  BY DEF Ship, tmVars
<1>3. LinksOK'
  <2>1. ASSUME NEW a \in Replicas, NEW s \in Replicas, s # r \/ a = r
        PROVE  LinkOK(s, a)'
    <3>1. link'[s][a] = link[s][a]
      BY <2>1, ShipFacts
    <3> QED BY <1>0, <1>1, <3>1, LinkStays DEF LinksOK
  <2>2. ASSUME NEW a \in Replicas \ {r}
        PROVE  LinkOK(r, a)'
    BY ShipLink
  <2> QED BY <2>1, <2>2 DEF LinksOK
<1>4. QueuesOK' /\ JobsOK'
  <2>1. ASSUME NEW a \in Replicas, NEW s \in Replicas
        PROVE  QueueOK(a, s)'
    BY <1>0, <1>1, <1>2, QueueStays DEF QueuesOK
  <2>2. ASSUME NEW a \in Replicas
        PROVE  JobOK(a)'
    BY <1>0, <1>1, <1>2, JobUnchanged DEF JobsOK
  <2> QED BY <2>1, <2>2 DEF QueuesOK, JobsOK
<1>5. DbsOK'
  <2>1. ASSUME NEW a \in Replicas, NEW p \in Partitions, NEW i \in 1 .. Len(db[a][p])
        PROVE  /\ Updates(db[a][p][i], p)'
               /\ db'[a][p][i][1] # a => db'[a][p][i][2] <= shipped'[db'[a][p][i][1]]
    <3>1. PICK t : t = db[a][p][i] /\ t = db'[a][p][i]
      BY <1>2
    <3>2. Updates(t, p) /\ (t[1] # a => t[2] <= shipped[t[1]])
      BY <1>0, <3>1 DEF DbsOK, DbOK
    <3>3. Updates(t, p)'
      BY <1>1, <3>2, UpdatesStay
    <3>4. t[1] \in Replicas /\ t[2] \in Nat
      BY <3>2 DEF Updates, Ids
    <3>5. t[1] # a => t[2] <= shipped'[t[1]]
      BY <1>1, <3>2, <3>4 DEF LogGrows
    <3> QED BY <3>1, <3>3, <3>5
  <2> QED BY <1>0, <1>2, <2>1 DEF DbsOK, DbOK
<1>6. OwnsOK'
  BY <1>0, <1>2 DEF OwnsOK, OwnOK, InDb, Id
<1>7. PlacesOK' /\ CoversOK'
  BY ShipPlaces
<1> QED BY <1>1, <1>3, <1>4, <1>5, <1>6, <1>7 DEF RemoteInv

-----------------------------------------------------------------------------
(* Steps of handleRemoteMsgs *)

\* The step leaves replica a alone.
StaysAt(a) ==
    /\ log' = log /\ shipped' = shipped
    /\ \A s \in Replicas : link'[s][a] = link[s][a]
    /\ downstreamQueue'[a] = downstreamQueue[a] /\ remote'[a] = remote[a] /\ db'[a] = db[a]
    /\ localClock'[a] = localClock[a] /\ stableClk'[a] = stableClk[a]

\* A step of r with remote transactions leaves the logs and the other replicas alone.
RemoteStep(r) == log' = log /\ shipped' = shipped /\ \A a \in Replicas \ {r} : StaysAt(a)

\* What the invariant says of the clocks of one replica
ClocksAt(r) == /\ ClockOK(localClock[r])
               /\ \A p \in Partitions : ClockOK(stableClk[r][p])
               /\ remote[r] # Idle => ClockOK(remote[r].clk)

LEMMA RemoteStepGrows ==
    ASSUME RemoteInv, NEW r \in Replicas, RemoteStep(r)
    PROVE  LogGrows /\ LogOK' /\ \A t, p : Updates(t, p)' <=> Updates(t, p)
<1>1. log' = log /\ shipped' = shipped
  BY DEF RemoteStep
<1>2. \A s \in Replicas : log[s] \in Seq(Txn) /\ shipped[s] \in Nat
  BY DEF RemoteInv, TypesOK
<1>3. LogGrows
  BY <1>1, <1>2 DEF LogGrows
<1>4. \A t, p : Updates(t, p)' <=> Updates(t, p)
  BY <1>1 DEF Updates, Ids
<1>5. LogOK'
  BY <1>1 DEF RemoteInv, LogOK, TxnOK, Updates, Ids
<1> QED BY <1>3, <1>4, <1>5

LEMMA OtherPlaces ==
    ASSUME RemoteInv, NEW a \in Replicas, StaysAt(a), NEW s \in Replicas, a # s, NEW n \in 1 .. shipped[s]
    PROVE  PlaceOK(a, s, n)'
<1>1. TypesOK /\ LogOK /\ PlaceOK(a, s, n)
  BY DEF RemoteInv, PlacesOK
<1>2. /\ shipped'[s] = shipped[s] /\ log'[s][n] = log[s][n] /\ remote'[a] = remote[a]
      /\ link'[s][a] = link[s][a] /\ downstreamQueue'[a][s] = downstreamQueue[a][s] /\ db'[a] = db[a]
  BY DEF StaysAt
<1>3. log[s] \in Seq(Txn) /\ shipped[s] \in Nat /\ shipped[s] <= Len(log[s]) /\ Len(log[s]) \in Nat
  BY <1>1 DEF TypesOK, LogOK
<1>4. n \in 1 .. Len(log[s])
  BY <1>3
<1>5. log[s][n] \in Txn
  BY <1>3, <1>4
<1>6. log[s][n].parts \subseteq Partitions
  BY <1>5 DEF Txn
<1>7. remote[a] # Idle => remote[a].todo \subseteq Partitions
  <2>1. remote[a] # Idle => remote[a] \in RemoteJob
    BY <1>1, ClocksTyped
  <2> QED BY <2>1 DEF RemoteJob
<1>8. \A p \in Partitions, k \in Nat : InDb(a, p, s, k)' <=> InDb(a, p, s, k)
  BY <1>2 DEF InDb, Id
<1> QED BY <1>1, <1>2, <1>3, <1>6, <1>7, <1>8, PlaceStays

LEMMA OtherCovers ==
    ASSUME RemoteInv, NEW a \in Replicas, StaysAt(a)
    PROVE  CoverOK(a)' /\ ClocksAt(a)' /\ OwnOK(a)' /\ \A p \in Partitions : DbOK(a, p)'
<1>1. /\ log' = log /\ shipped' = shipped
      /\ \A s \in Replicas : link'[s][a] = link[s][a]
      /\ downstreamQueue'[a] = downstreamQueue[a] /\ remote'[a] = remote[a] /\ db'[a] = db[a]
      /\ localClock'[a] = localClock[a] /\ stableClk'[a] = stableClk[a]
  BY DEF StaysAt
<1>2. \A s \in Replicas : \A n : InLink(s, a, n)' <=> InLink(s, a, n)
  BY <1>1 DEF InLink, InMessages
<1>3. OnHold(a)' <=> OnHold(a)
  BY <1>1 DEF OnHold
<1>4. CoverOK(a)'
  <2>1. CoverOK(a)
    BY DEF RemoteInv, CoversOK
  <2> QED BY <1>1, <1>2, <1>3, <2>1 DEF CoverOK, CoversReceived, Idle
<1>5. ClocksAt(a)'
  <2>1. ClocksAt(a)
    BY DEF RemoteInv, ClocksOK, ClocksAt
  <2> QED BY <1>1, <2>1 DEF ClocksAt, ClockOK, Idle
<1>6. OwnOK(a)'
  <2>1. OwnOK(a)
    BY DEF RemoteInv, OwnsOK
  <2> QED BY ZenonT(60), <1>1, <2>1 DEF OwnOK, InDb, Id
<1>7. ASSUME NEW p \in Partitions
      PROVE  DbOK(a, p)'
  <2>1. DbOK(a, p)
    BY DEF RemoteInv, DbsOK
  <2> QED BY <1>1, <2>1 DEF DbOK, Updates, Ids
<1> QED BY <1>4, <1>5, <1>6, <1>7

\* It is enough to look at r itself.
LEMMA RemoteStepKeeps ==
    ASSUME RemoteInv, NEW r \in Replicas, RemoteStep(r), TypesOK', ClocksAt(r)', CoverOK(r)', JobOK(r)', OwnOK(r)',
           \A s \in Replicas : LinkOK(s, r)' /\ QueueOK(r, s)',
           \A p \in Partitions : DbOK(r, p)',
           \A s \in Replicas \ {r} : \A n \in 1 .. shipped[s] : PlaceOK(r, s, n)'
    PROVE  RemoteInv'
<1>1. LogGrows /\ LogOK'
  BY RemoteStepGrows
<1>2. TypesOK /\ LogOK /\ LinksOK /\ QueuesOK /\ JobsOK
  BY DEF RemoteInv
<1>3. ASSUME NEW a \in Replicas, NEW s \in Replicas
      PROVE  LinkOK(s, a)' /\ QueueOK(a, s)'
  <2>1. CASE a = r
    BY <2>1
  <2>2. CASE a # r
    <3>1. link'[s][a] = link[s][a] /\ downstreamQueue'[a][s] = downstreamQueue[a][s]
      BY <2>2 DEF RemoteStep, StaysAt
    <3> QED BY <1>1, <1>2, <3>1, LinkStays, QueueStays DEF LinksOK, QueuesOK
  <2> QED BY <2>1, <2>2
<1>4. ASSUME NEW a \in Replicas
      PROVE  JobOK(a)' /\ CoverOK(a)' /\ ClocksAt(a)' /\ OwnOK(a)' /\ \A p \in Partitions : DbOK(a, p)'
  <2>1. CASE a = r
    BY <2>1
  <2>2. CASE a # r
    <3>1. remote'[a] = remote[a]
      BY <2>2 DEF RemoteStep, StaysAt
    <3>2. JobOK(a)'
      BY <1>1, <1>2, <3>1, JobUnchanged DEF JobsOK
    <3> QED BY <2>2, <3>2, OtherCovers DEF RemoteStep
  <2> QED BY <2>1, <2>2
<1>5. ASSUME NEW a \in Replicas, NEW s \in Replicas, a # s, NEW n \in 1 .. shipped'[s]
      PROVE  PlaceOK(a, s, n)'
  <2>1. shipped'[s] = shipped[s]
    BY DEF RemoteStep
  <2>2. CASE a = r
    BY <1>5, <2>1, <2>2
  <2>3. CASE a # r
    BY <1>5, <2>1, <2>3, OtherPlaces DEF RemoteStep
  <2> QED BY <2>2, <2>3
<1>6. LinksOK' /\ QueuesOK' /\ JobsOK'
  BY <1>3, <1>4 DEF LinksOK, QueuesOK, JobsOK
<1>7. ClocksOK' /\ DbsOK' /\ OwnsOK' /\ CoversOK'
  BY <1>4 DEF ClocksOK, ClocksAt, DbsOK, OwnsOK, CoversOK, Idle
<1>8. PlacesOK'
  BY <1>5 DEF PlacesOK
<1> QED BY <1>1, <1>6, <1>7, <1>8 DEF RemoteInv

\* m carries the n-th transaction of its replica.
InMessage(m, n) == \E i \in 1 .. Len(m.txns) : m.txns[i] = n

\* handleRemoteMsgs takes m, the first message of s, off its link.
Taken(r, s, m) ==
    /\ m \in Message /\ MessageOK(m, s) /\ m = Head(link[s][r])
    /\ link' \in [Replicas -> [Replicas -> Seq(Message)]]
    /\ link'[s][r] = Tail(link[s][r])
    /\ \A a, b \in Replicas : a # s \/ b # r => link'[a][b] = link[a][b]
    /\ \A n : InLink(s, r, n) <=> InMessage(m, n) \/ InLink(s, r, n)'
    /\ \A n : InLink(s, r, n)' => m.ts < n /\ \A k : InMessage(m, k) => k < n

LEMMA TakenFacts ==
    ASSUME RemoteInv, NEW r \in Replicas, NEW s \in Replicas \ {r}, HandleRemoteMsg(r, s)
    PROVE  Taken(r, s, Head(link[s][r]))
<1> DEFINE x == link[s][r]
           m == Head(x)
<1>0. TypesOK /\ LinkOK(s, r)
  BY DEF RemoteInv, LinksOK
<1>1. x \in Seq(Message) /\ x # <<>>
  BY <1>0 DEF TypesOK, HandleRemoteMsg
<1>2. /\ Tail(x) \in Seq(Message) /\ Len(x) \in Nat /\ Len(x) >= 1 /\ Len(Tail(x)) = Len(x) - 1
      /\ \A i \in 1 .. (Len(x) - 1) : Tail(x)[i] = x[i + 1]
      /\ m = x[1] /\ m \in Message
  BY <1>1, TailFacts
<1>3. /\ link'[s][r] = Tail(x)
      /\ \A a, b \in Replicas : a # s \/ b # r => link'[a][b] = link[a][b]
      /\ link' \in [Replicas -> [Replicas -> Seq(Message)]]
  <2>1. link' = [link EXCEPT ![s][r] = Tail(@)]
    BY DEF HandleRemoteMsg
  <2>2. link \in [Replicas -> [Replicas -> Seq(Message)]]
    BY <1>0 DEF TypesOK
  <2> QED BY <1>2, <2>1, <2>2
<1>4. 1 \in 1 .. Len(x)
  BY <1>2
<1>5. MessageOK(m, s)
  BY <1>0, <1>2, <1>4 DEF LinkOK
<1>6. \A i \in 1 .. Len(Tail(x)) : i + 1 \in 1 .. Len(x) /\ Tail(x)[i] = x[i + 1] /\ 1 < i + 1
  BY <1>2
<1>7. \A i \in 1 .. Len(x) : i = 1 \/ (i - 1 \in 1 .. Len(Tail(x)) /\ x[i] = Tail(x)[i - 1])
  <2>1. ASSUME NEW i \in 1 .. Len(x), i # 1
        PROVE  i - 1 \in 1 .. Len(Tail(x)) /\ x[i] = Tail(x)[i - 1]
    <3>1. i - 1 \in 1 .. (Len(x) - 1) /\ (i - 1) + 1 = i
      BY <1>2, <2>1
    <3> QED BY <1>2, <3>1
  <2> QED BY <2>1
<1> HIDE DEF m
<1>8. ASSUME NEW n
      PROVE  InLink(s, r, n) <=> InMessage(m, n) \/ InMessages(Tail(x), n)
  <2>1. ASSUME InLink(s, r, n)
        PROVE  InMessage(m, n) \/ InMessages(Tail(x), n)
    <3>1. PICK i \in 1 .. Len(x) : \E k \in 1 .. Len(x[i].txns) : x[i].txns[k] = n
      BY <2>1 DEF InLink, InMessages
    <3>2. CASE i = 1
      BY <1>2, <3>1, <3>2 DEF InMessage
    <3>3. CASE i - 1 \in 1 .. Len(Tail(x)) /\ x[i] = Tail(x)[i - 1]
      BY <3>1, <3>3 DEF InMessages
    <3> QED BY <1>7, <3>2, <3>3
  <2>2. InMessage(m, n) => InLink(s, r, n)
    BY <1>2, <1>4 DEF InMessage, InLink, InMessages
  <2>3. ASSUME InMessages(Tail(x), n)
        PROVE  InLink(s, r, n)
    <3>1. PICK i \in 1 .. Len(Tail(x)) : \E k \in 1 .. Len(Tail(x)[i].txns) : Tail(x)[i].txns[k] = n
      BY <2>3 DEF InMessages
    <3>2. i + 1 \in 1 .. Len(x) /\ x[i + 1] = Tail(x)[i]
      BY <1>6
    <3> QED BY <3>1, <3>2 DEF InLink, InMessages
  <2> QED BY <2>1, <2>2, <2>3
<1>9. ASSUME NEW n, InMessages(Tail(x), n)
      PROVE  m.ts < n /\ \A k : InMessage(m, k) => k < n
  <2>1. PICK i \in 1 .. Len(Tail(x)) : \E l \in 1 .. Len(Tail(x)[i].txns) : Tail(x)[i].txns[l] = n
    BY <1>9 DEF InMessages
  <2>2. i + 1 \in 1 .. Len(x) /\ x[i + 1] = Tail(x)[i] /\ 1 < i + 1
    BY <1>6
  <2>3. PICK l \in 1 .. Len(x[i + 1].txns) : x[i + 1].txns[l] = n
    BY <2>1, <2>2
  <2>4. x[1].ts < n /\ \A k \in 1 .. Len(x[1].txns) : x[1].txns[k] < n
    BY <1>0, <1>4, <2>2, <2>3 DEF LinkOK
  <2> QED BY <1>2, <2>4 DEF InMessage
<1>10. \A n : InLink(s, r, n)' <=> InMessages(Tail(x), n)
  BY <1>3 DEF InLink
<1> QED BY <1>2, <1>3, <1>5, <1>8, <1>9, <1>10 DEF Taken, m

LEMMA TakenLink ==
    ASSUME RemoteInv, NEW r \in Replicas, NEW s \in Replicas \ {r}, NEW m, Taken(r, s, m), LogGrows,
           link[s][r] # <<>>, NEW a \in Replicas
    PROVE  LinkOK(a, r)'
<1> DEFINE x == link[s][r]
<1>0. TypesOK /\ LogOK /\ LinkOK(a, r) /\ LinkOK(s, r)
  BY DEF RemoteInv, LinksOK
<1>1. CASE a # s
  <2>1. link'[a][r] = link[a][r]
    BY <1>1 DEF Taken
  <2> QED BY <1>0, <2>1, LinkStays
<1>2. CASE a = s
  <2>1. x \in Seq(Message) /\ x # <<>>
    BY <1>0 DEF TypesOK
  <2>2. /\ Tail(x) \in Seq(Message) /\ Len(x) \in Nat /\ Len(x) >= 1 /\ Len(Tail(x)) = Len(x) - 1
        /\ \A i \in 1 .. (Len(x) - 1) : Tail(x)[i] = x[i + 1]
    BY <2>1, TailFacts
  <2>3. \A i \in 1 .. Len(Tail(x)) : i + 1 \in 1 .. Len(x) /\ Tail(x)[i] = x[i + 1]
    BY <2>2
  <2>4. link'[s][r] = Tail(x)
    BY DEF Taken
  <2>5. ASSUME NEW i \in 1 .. Len(Tail(x))
        PROVE  MessageOK(link[s][r][i], s)'
    <3>1. PICK u : u = x[i + 1]
      OBVIOUS
    <3>2. u \in Message /\ MessageOK(u, s)
      BY <1>0, <2>1, <2>3, <3>1 DEF LinkOK
    <3>3. MessageOK(u, s)'
      BY <1>0, <3>2, MessageStays
    <3>4. link'[s][r][i] = u
      BY <2>3, <2>4, <3>1
    <3> QED BY <3>3, <3>4
  <2>6. ASSUME NEW i \in 1 .. Len(Tail(x)), NEW j \in 1 .. Len(Tail(x)), i < j, NEW b \in 1 .. Len(Tail(x)[j].txns)
        PROVE  /\ Tail(x)[i].ts < Tail(x)[j].txns[b]
               /\ \A k \in 1 .. Len(Tail(x)[i].txns) : Tail(x)[i].txns[k] < Tail(x)[j].txns[b]
    <3>1. i + 1 < j + 1
      BY <2>6
    <3>2. i + 1 \in 1 .. Len(x) /\ Tail(x)[i] = x[i + 1] /\ j + 1 \in 1 .. Len(x) /\ Tail(x)[j] = x[j + 1]
      BY <2>3
    <3> QED BY <1>0, <2>6, <3>1, <3>2 DEF LinkOK
  <2> HIDE DEF x
  <2>7. LinkOK(s, r)'
    BY <2>4, <2>5, <2>6 DEF LinkOK
  <2> QED BY <1>2, <2>7
<1> QED BY <1>1, <1>2

\* j is what the partitions are asked to do about a message m of s.
JobOf(j, m, s) ==
    /\ j \in RemoteJob /\ j # Idle /\ j.from = s /\ Len(j.txns) = Len(m.txns)
    /\ \A i \in 1 .. Len(m.txns) : /\ j.txns[i] = Id(s, m.txns[i])
                                   /\ log[s][m.txns[i]].parts \subseteq j.todo
                                   /\ \A q \in Replicas \ {s} : log[s][m.txns[i]].clk[q] = j.clk[q]
    /\ ClockOK(j.clk)
    /\ j.clk[s] \in 0 .. shipped[s] /\ (j.clk[s] = m.ts \/ InMessage(m, j.clk[s]))
    /\ \A q \in Replicas \ {s} : j.clk[q] = IF m.kind = "clk" THEN 0 ELSE FirstClk(m)[q]

LEMMA JobFacts ==
    ASSUME RemoteInv, NEW s \in Replicas, NEW m \in Message, MessageOK(m, s), NEW j, j = Job(m)
    PROVE  JobOf(j, m, s)
<1>0. TypesOK /\ LogOK
  BY DEF RemoteInv
<1>1. /\ m.from = s /\ m.txns \in Seq(Nat) /\ m.ts \in Nat /\ m.ts <= shipped[s]
      /\ m.kind \in {"txn", "group", "clk"} /\ (m.kind = "clk" <=> m.txns = <<>>)
  BY DEF MessageOK, Message
<1>2. \A i \in 1 .. Len(m.txns) : m.txns[i] \in 1 .. shipped[s]
  BY DEF MessageOK
<1>3. /\ shipped[s] \in Nat /\ log[s] \in Seq(Txn) /\ Len(log[s]) \in Nat /\ shipped[s] <= Len(log[s])
      /\ \A n \in 1 .. Len(log[s]) : TxnOK(s, n)
  BY <1>0 DEF TypesOK, LogOK
<1>4. \A n \in 1 .. shipped[s] : n \in 1 .. Len(log[s]) /\ log[s][n] \in Txn
  BY <1>3
<1>5. j = [kind |-> m.kind, from |-> m.from, txns |-> TxnIds(m),
           todo |-> IF m.kind = "txn" THEN PartsOf(m) ELSE Partitions,
           clk |-> IF m.kind = "clk" THEN UpdateForcedPos(NewTimestamp, m.from, m.ts) ELSE LastClk(m)]
  BY DEF Job
<1>6. /\ j.kind = m.kind /\ j.from = m.from /\ j.txns = TxnIds(m)
      /\ j.todo = (IF m.kind = "txn" THEN PartsOf(m) ELSE Partitions)
      /\ j.clk = (IF m.kind = "clk" THEN UpdateForcedPos(NewTimestamp, m.from, m.ts) ELSE LastClk(m))
  BY <1>5
<1>7. /\ TxnIds(m) \in Seq(Ids) /\ Len(TxnIds(m)) = Len(m.txns)
      /\ \A i \in 1 .. Len(m.txns) : TxnIds(m)[i] = Id(s, m.txns[i])
  <2>1. DOMAIN m.txns = 1 .. Len(m.txns) /\ Len(m.txns) \in Nat
    BY <1>1
  <2>2. \A i \in 1 .. Len(m.txns) : Id(s, m.txns[i]) \in Ids
    <3>1. \A i \in 1 .. Len(m.txns) : m.txns[i] \in Nat
      BY <1>1
    <3> QED BY <3>1 DEF Id, Ids
  <2>3. TxnIds(m) = [i \in 1 .. Len(m.txns) |-> Id(s, m.txns[i])]
    BY <1>1, <2>1 DEF TxnIds
  <2> QED BY <2>1, <2>2, <2>3
<1>8. PartsOf(m) \subseteq Partitions /\ \A i \in 1 .. Len(m.txns) : log[s][m.txns[i]].parts \subseteq PartsOf(m)
  <2>1. \A n : n \in Range(m.txns) <=> \E i \in 1 .. Len(m.txns) : m.txns[i] = n
    BY <1>1, InRange
  <2>2. \A n \in Range(m.txns) : log[s][n] \in Txn
    BY <1>2, <1>4, <2>1
  <2>3. \A n \in Range(m.txns) : log[s][n].parts \subseteq Partitions
    BY <2>2 DEF Txn
  <2>4. PartsOf(m) = UNION {log[s][n].parts : n \in Range(m.txns)}
    BY <1>1 DEF PartsOf
  <2> QED BY <2>1, <2>3, <2>4
<1>9. \A i \in 1 .. Len(m.txns) : log[s][m.txns[i]].parts \subseteq j.todo
  <2>1. \A i \in 1 .. Len(m.txns) : log[s][m.txns[i]].parts \subseteq Partitions
    BY <1>8
  <2> QED BY <1>6, <1>8, <2>1
<1>10. ASSUME m.kind = "clk"
       PROVE  /\ j.clk \in Clock /\ j.clk[s] = m.ts /\ \A q \in Replicas \ {s} : j.clk[q] = 0
              /\ Len(m.txns) = 0
  <2>1. j.clk = [[q \in Replicas |-> 0] EXCEPT ![s] = m.ts]
    BY <1>1, <1>6, <1>10 DEF UpdateForcedPos, NewTimestamp
  <2>2. j.clk \in Clock /\ j.clk[s] = m.ts /\ \A q \in Replicas \ {s} : j.clk[q] = 0
    BY <1>1, <2>1 DEF Clock
  <2> QED BY <1>1, <1>10, <2>2
<1>11. ASSUME m.kind # "clk"
       PROVE  /\ j.clk \in Clock /\ InMessage(m, j.clk[s]) /\ j.clk[s] \in 1 .. shipped[s] /\ ClockOK(j.clk)
              /\ \A q \in Replicas \ {s} : /\ j.clk[q] = FirstClk(m)[q]
                                           /\ \A i \in 1 .. Len(m.txns) : log[s][m.txns[i]].clk[q] = j.clk[q]
  <2>1. PICK l : l = Len(m.txns)
    OBVIOUS
  <2>2. l \in 1 .. Len(m.txns) /\ 1 \in 1 .. Len(m.txns)
    BY <1>1, <1>11, <2>1
  <2>3. PICK n : n = m.txns[l]
    OBVIOUS
  <2>4. n \in 1 .. shipped[s] /\ n \in 1 .. Len(log[s]) /\ log[s][n] \in Txn
    BY <1>2, <1>4, <2>2, <2>3
  <2>5. j.clk = log[s][n].clk
    BY <1>1, <1>6, <1>11, <2>1, <2>3 DEF LastClk
  <2>6. TxnOK(s, n)
    BY <1>3, <2>4
  <2>7. j.clk[s] = n /\ ClockOK(j.clk)
    BY <2>5, <2>6 DEF TxnOK, ClockOK
  <2>8. j.clk \in Clock
    BY <2>4, <2>5 DEF Txn
  <2>9. InMessage(m, n)
    BY <2>2, <2>3 DEF InMessage
  <2>10. FirstClk(m) = log[s][m.txns[1]].clk
    BY <1>1 DEF FirstClk
  <2>11. ASSUME NEW q \in Replicas \ {s}
         PROVE  /\ j.clk[q] = FirstClk(m)[q]
                /\ \A i \in 1 .. Len(m.txns) : log[s][m.txns[i]].clk[q] = j.clk[q]
    <3>1. \A i \in 1 .. Len(m.txns) : log[s][m.txns[i]].clk[q] = log[s][m.txns[1]].clk[q]
      BY DEF MessageOK
    <3>2. j.clk[q] = log[s][m.txns[1]].clk[q]
      BY <2>2, <2>3, <2>5, <3>1
    <3> QED BY <2>10, <3>1, <3>2
  <2> QED BY <2>4, <2>7, <2>8, <2>9, <2>11
<1>12. j.clk \in Clock
  BY <1>10, <1>11
<1>13. j \in RemoteJob
  <2>1. j.todo \in SUBSET Partitions
    BY <1>6, <1>8
  <2> QED BY <1>1, <1>5, <1>6, <1>7, <1>12, <2>1 DEF RemoteJob
<1>14. j # Idle
  <2>1. j.kind # "idle"
    BY <1>1, <1>6
  <2> QED BY <2>1 DEF Idle
<1>15. ClockOK(j.clk)
  <2>1. CASE m.kind = "clk"
    <3>1. \A q \in Replicas : Len(log[q]) \in Nat
      BY <1>0 DEF TypesOK
    <3>2. j.clk[s] <= Len(log[s])
      BY <1>1, <1>3, <1>10, <2>1
    <3>3. ASSUME NEW q \in Replicas \ {s}
          PROVE  j.clk[q] <= Len(log[q])
      <4>1. j.clk[q] = 0 /\ Len(log[q]) \in Nat
        BY <1>10, <2>1, <3>1
      <4> QED BY <4>1
    <3> QED BY <3>2, <3>3 DEF ClockOK
  <2> QED BY <1>11, <2>1
<1>16. j.clk[s] \in 0 .. shipped[s] /\ (j.clk[s] = m.ts \/ InMessage(m, j.clk[s]))
  BY <1>1, <1>3, <1>10, <1>11
<1>17. \A q \in Replicas \ {s} : j.clk[q] = IF m.kind = "clk" THEN 0 ELSE FirstClk(m)[q]
  BY <1>10, <1>11
<1>18. \A i \in 1 .. Len(m.txns) : \A q \in Replicas \ {s} : log[s][m.txns[i]].clk[q] = j.clk[q]
  <2>1. m.kind = "clk" => 1 .. Len(m.txns) = {}
    BY <1>10
  <2> QED BY <1>11, <2>1
<1> QED BY <1>1, <1>6, <1>7, <1>9, <1>13, <1>14, <1>15, <1>16, <1>17, <1>18 DEF JobOf

\* A message whose dependencies are there is handed to the partitions.
LEMMA ApplyPlaces ==
    ASSUME RemoteInv, NEW r \in Replicas, NEW s \in Replicas \ {r}, NEW m, Taken(r, s, m), RemoteStep(r),
           NEW j, j = Job(m), remote[r] = Idle, remote'[r] = j, UNCHANGED <<downstreamQueue, db>>,
           NEW b \in Replicas \ {r}, NEW n \in 1 .. shipped[b]
    PROVE  PlaceOK(r, b, n)'
<1>0. TypesOK /\ LogOK
  BY DEF RemoteInv
<1>1. /\ j # Idle /\ j \in RemoteJob /\ j.from = s /\ Len(j.txns) = Len(m.txns)
      /\ \A i \in 1 .. Len(m.txns) : j.txns[i] = Id(s, m.txns[i]) /\ log[s][m.txns[i]].parts \subseteq j.todo
  <2>1. m \in Message /\ MessageOK(m, s)
    BY DEF Taken
  <2>2. JobOf(j, m, s)
    BY <2>1, JobFacts
  <2> QED BY <2>2 DEF JobOf
<1>2. /\ \A k : InLink(s, r, k) <=> InMessage(m, k) \/ InLink(s, r, k)'
      /\ \A k : InLink(s, r, k)' => \A l : InMessage(m, l) => l < k
      /\ b # s => link'[b][r] = link[b][r]
  BY DEF Taken
<1>3. log' = log /\ shipped' = shipped
  BY DEF RemoteStep
<1>4. \A k : /\ InQueue(r, b, k)' <=> InQueue(r, b, k)
             /\ \A p : InDb(r, p, b, k)' <=> InDb(r, p, b, k)
             /\ ~InJob(r, b, k)
  BY DEF InQueue, InDb, InJob, Id
<1>5. PlaceOK(r, b, n) /\ shipped[b] \in Nat
  BY <1>0 DEF RemoteInv, PlacesOK, TypesOK
<1>6. j.todo \subseteq Partitions
  BY <1>1 DEF RemoteJob
<1>7. CASE b = s
  <2>1. \A k : InJob(r, s, k)' <=> InMessage(m, k)
    BY <1>1 DEF InJob, InMessage, Id, Idle
  <2>2. ASSUME InMessage(m, n)
        PROVE  /\ ~InQueue(r, s, n)
               /\ \A p \in Partitions : ~InDb(r, p, s, n)
               /\ log[s][n].parts \subseteq j.todo
    <3>1. InLink(s, r, n)
      BY <1>2, <2>2
    <3>2. \A k \in 1 .. shipped[s] : /\ InQueue(r, s, k) => k < n
                                     /\ \A p \in Partitions : InDb(r, p, s, k) => k < n
      BY <1>5, <1>7, <3>1 DEF PlaceOK
    <3>3. n \in 1 .. shipped[s] /\ ~(n < n)
      BY <1>5, <1>7
    <3> QED BY <1>1, <2>2, <3>2, <3>3 DEF InMessage
  <2>3. (InLink(s, r, n))' => \A k \in 1 .. shipped'[s] :
           /\ (InQueue(r, s, k))' \/ (InJob(r, s, k))' => k < n
           /\ \A p \in Partitions : (InDb(r, p, s, k))' => k < n
    BY <1>2, <1>3, <1>4, <1>5, <1>7, <2>1 DEF PlaceOK
  <2>4. (InQueue(r, s, n))' => ~(InJob(r, s, n))' /\ \A p \in Partitions : ~(InDb(r, p, s, n))'
    BY <1>4, <1>5, <1>7, <2>1, <2>2 DEF PlaceOK
  <2>5. (InJob(r, s, n))' => \A p \in remote'[r].todo : ~(InDb(r, p, s, n))'
    BY <1>4, <1>6, <1>7, <2>1, <2>2
  <2>6. \A p \in log'[s][n].parts :
           \/ (InLink(s, r, n))' \/ (InQueue(r, s, n))' \/ (InDb(r, p, s, n))'
           \/ (InJob(r, s, n))' /\ p \in remote'[r].todo
    <3>1. \A p \in log[s][n].parts : InLink(s, r, n) \/ InQueue(r, s, n) \/ InDb(r, p, s, n)
      BY <1>4, <1>5, <1>7 DEF PlaceOK
    <3> QED BY <1>2, <1>3, <1>4, <1>7, <2>1, <2>2, <3>1
  <2> QED BY <1>7, <2>3, <2>4, <2>5, <2>6 DEF PlaceOK
<1>8. CASE b # s
  <2>1. \A k : InLink(b, r, k)' <=> InLink(b, r, k)
    BY <1>2, <1>8 DEF InLink
  <2>2. \A k : ~(InJob(r, b, k))'
    BY <1>1, <1>8 DEF InJob, Id
  <2>3. (InLink(b, r, n))' => \A k \in 1 .. shipped'[b] :
           /\ (InQueue(r, b, k))' \/ (InJob(r, b, k))' => k < n
           /\ \A p \in Partitions : (InDb(r, p, b, k))' => k < n
    BY <1>3, <1>4, <1>5, <2>1, <2>2 DEF PlaceOK
  <2>4. (InQueue(r, b, n))' => ~(InJob(r, b, n))' /\ \A p \in Partitions : ~(InDb(r, p, b, n))'
    BY <1>4, <1>5, <2>2 DEF PlaceOK
  <2>5. \A p \in log'[b][n].parts : (InLink(b, r, n))' \/ (InQueue(r, b, n))' \/ (InDb(r, p, b, n))'
    BY <1>3, <1>4, <1>5, <2>1 DEF PlaceOK
  <2> QED BY <2>2, <2>3, <2>4, <2>5 DEF PlaceOK
<1> QED BY <1>7, <1>8

\* j is a job that r may have after the step.
JobNext(r, j) ==
    /\ j.from # r
    /\ \A i \in 1 .. Len(j.txns) : /\ j.txns[i][1] = j.from /\ j.txns[i][2] \in 1 .. shipped'[j.from]
                                   /\ \A q \in Replicas \ {j.from} : log'[j.from][j.txns[i][2]].clk[q] = j.clk[q]
    /\ \A i, k \in 1 .. Len(j.txns) : i < k => j.txns[i][2] < j.txns[k][2]

LEMMA JobBuilt ==
    ASSUME NEW r, NEW j, remote'[r] = j, JobNext(r, j)
    PROVE  JobOK(r)'
BY DEF JobOK, JobNext

LEMMA JobOfNext ==
    ASSUME NEW r \in Replicas, NEW s \in Replicas \ {r}, NEW m, MessageOK(m, s), NEW j, JobOf(j, m, s),
           log' = log, shipped' = shipped
    PROVE  JobNext(r, j)
<1>1. j.from = s /\ Len(j.txns) = Len(m.txns)
  BY DEF JobOf
<1>2. ASSUME NEW i \in 1 .. Len(m.txns)
      PROVE  /\ j.txns[i][1] = s /\ j.txns[i][2] = m.txns[i] /\ m.txns[i] \in 1 .. shipped[s]
             /\ \A q \in Replicas \ {s} : log[s][m.txns[i]].clk[q] = j.clk[q]
  <2>1. j.txns[i] = Id(s, m.txns[i]) /\ \A q \in Replicas \ {s} : log[s][m.txns[i]].clk[q] = j.clk[q]
    BY Zenon DEF JobOf
  <2>2. m.txns[i] \in 1 .. shipped[s]
    BY Zenon DEF MessageOK
  <2>3. j.txns[i][1] = s /\ j.txns[i][2] = m.txns[i]
    BY <2>1 DEF Id
  <2> QED BY Zenon, <2>1, <2>2, <2>3
<1>3. \A i, k \in 1 .. Len(m.txns) : i < k => m.txns[i] < m.txns[k]
  BY Zenon DEF MessageOK
<1>4. \A i, k \in 1 .. Len(m.txns) : i < k => j.txns[i][2] < j.txns[k][2]
  BY ZenonT(60), <1>2, <1>3
<1>5. ASSUME NEW i \in 1 .. Len(m.txns)
      PROVE  /\ j.txns[i][1] = s /\ j.txns[i][2] \in 1 .. shipped[s]
             /\ \A q \in Replicas \ {s} : log[s][j.txns[i][2]].clk[q] = j.clk[q]
  <2>1. PICK n : n = m.txns[i] /\ n = j.txns[i][2]
    BY Zenon, <1>2
  <2>2. /\ j.txns[i][1] = s /\ m.txns[i] \in 1 .. shipped[s]
        /\ \A q \in Replicas \ {s} : log[s][m.txns[i]].clk[q] = j.clk[q]
    BY Zenon, <1>2
  <2>3. j.txns[i][1] = s /\ n \in 1 .. shipped[s] /\ \A q \in Replicas \ {s} : log[s][n].clk[q] = j.clk[q]
    BY <2>1, <2>2
  <2> QED BY ZenonT(60), <2>1, <2>3
<1> QED BY Zenon, <1>1, <1>4, <1>5 DEF JobNext

LEMMA ApplyKeeps ==
    ASSUME RemoteInv, NEW r \in Replicas, NEW s \in Replicas \ {r}, HandleRemoteMsg(r, s),
           NEW m, m = Head(link[s][r]), CanApply(m, r), remote' = [remote EXCEPT ![r] = Job(m)],
           UNCHANGED downstreamQueue
    PROVE  RemoteInv'
<1>0. TypesOK /\ LogOK /\ QueuesOK
  BY DEF RemoteInv
<1>1. Taken(r, s, m)
  BY TakenFacts
<1>2. remote[r] = Idle /\ link[s][r] # <<>> /\ UNCHANGED <<log, shipped, localClock, stableClk, db, downstreamOpsCh>>
  BY DEF HandleRemoteMsg, tmVars
<1>3. PICK j : j = Job(m)
  OBVIOUS
<1>4. m \in Message /\ MessageOK(m, s)
  BY SMTT(60), <1>1 DEF Taken
<1>5. /\ j \in RemoteJob /\ j # Idle /\ j.from = s /\ Len(j.txns) = Len(m.txns)
      /\ \A i \in 1 .. Len(m.txns) : /\ j.txns[i] = Id(s, m.txns[i])
                                     /\ log[s][m.txns[i]].parts \subseteq j.todo
                                     /\ \A q \in Replicas \ {s} : log[s][m.txns[i]].clk[q] = j.clk[q]
      /\ ClockOK(j.clk)
      /\ j.clk[s] \in 0 .. shipped[s] /\ (j.clk[s] = m.ts \/ InMessage(m, j.clk[s]))
      /\ \A q \in Replicas \ {s} : j.clk[q] = IF m.kind = "clk" THEN 0 ELSE FirstClk(m)[q]
  <2>1. JobOf(j, m, s)
    BY <1>3, <1>4, JobFacts
  <2> QED BY ZenonT(60), <2>1 DEF JobOf
<1>6. remote'[r] = j /\ \A a \in Replicas \ {r} : remote'[a] = remote[a]
  BY <1>0, <1>3 DEF TypesOK
<1>7. RemoteStep(r)
  <2>1. \A a \in Replicas \ {r} : \A b \in Replicas : link'[b][a] = link[b][a]
    BY <1>1 DEF Taken
  <2> QED BY <1>2, <1>6, <2>1 DEF RemoteStep, StaysAt
<1>8. LogGrows
  BY <1>7, RemoteStepGrows
<1>9. TypesOK'
  <2>1. link' \in [Replicas -> [Replicas -> Seq(Message)]]
    BY <1>1 DEF Taken
  <2>2. remote' \in [Replicas -> {Idle} \cup RemoteJob]
    <3>1. remote \in [Replicas -> {Idle} \cup RemoteJob]
      BY <1>0 DEF TypesOK
    <3>2. remote' = [remote EXCEPT ![r] = j]
      BY SMTT(60), <1>3
    <3> QED BY <1>5, <3>1, <3>2
  <2> QED BY <1>0, <1>2, <2>1, <2>2 DEF TypesOK, Ids, Txn, Message, RemoteJob, Clock, Idle
<1>10. ClocksAt(r)'
  <2>1. ClockOK(localClock[r]) /\ \A p \in Partitions : ClockOK(stableClk[r][p])
    BY DEF RemoteInv, ClocksOK
  <2> QED BY <1>2, <1>5, <1>6, <2>1 DEF ClocksAt, ClockOK
<1>11. ASSUME NEW a \in Replicas
       PROVE  LinkOK(a, r)' /\ QueueOK(r, a)'
  <2>1. LinkOK(a, r)'
    BY <1>1, <1>2, <1>8, TakenLink
  <2>2. QueueOK(r, a)'
    BY <1>0, <1>8, QueueStays DEF QueuesOK
  <2> QED BY <2>1, <2>2
<1>12. JobOK(r)'
  <2>1. JobOf(j, m, s)
    BY <1>3, <1>4, JobFacts
  <2>2. log' = log /\ shipped' = shipped /\ remote'[r] = j
    BY <1>2, <1>6
  <2>3. JobNext(r, j)
    BY SMTT(60), <1>4, <2>1, <2>2, JobOfNext
  <2> QED BY <2>2, <2>3, JobBuilt
<1>13. OwnOK(r)' /\ \A p \in Partitions : DbOK(r, p)'
  <2>1. OwnOK(r) /\ \A p \in Partitions : DbOK(r, p)
    BY DEF RemoteInv, OwnsOK, DbsOK
  <2>2. OwnOK(r)'
    BY <1>2, <2>1 DEF OwnOK, InDb, Id
  <2> QED BY <1>2, <2>1, <2>2 DEF DbOK, Updates, Ids
<1>14. ASSUME NEW b \in Replicas \ {r}, NEW n \in 1 .. shipped[b]
       PROVE  PlaceOK(r, b, n)'
  BY <1>1, <1>2, <1>3, <1>6, <1>7, ApplyPlaces
<1>15. CoverOK(r)'
  <2> SUFFICES ASSUME ~OnHold(r), NEW b \in Replicas \ {r}
               PROVE  /\ CoversReceived(localClock[r], b, r)'
                      /\ \A p \in Partitions : CoversReceived(stableClk[r][p], b, r)'
                      /\ CoversReceived(remote[r].clk, b, r)'
    BY DEF CoverOK, OnHold
  <2>1. CoversReceived(localClock[r], b, r) /\ \A p \in Partitions : CoversReceived(stableClk[r][p], b, r)
    BY DEF RemoteInv, CoversOK, CoverOK
  <2>2. \A n : InLink(b, r, n)' => InLink(b, r, n)
    <3>1. CASE b = s
      BY <1>1, <3>1 DEF Taken
    <3>2. CASE b # s
      BY <1>1, <3>2 DEF Taken, InLink
    <3> QED BY <3>1, <3>2
  <2>3. CoversReceived(localClock[r], b, r)' /\ \A p \in Partitions : CoversReceived(stableClk[r][p], b, r)'
    BY <1>2, <2>1, <2>2 DEF CoversReceived
  <2>4. j.clk[b] <= shipped[b] /\ \A n \in 1 .. shipped[b] : InLink(b, r, n)' => j.clk[b] < n
    <3>0. shipped[b] \in Nat /\ localClock[r][b] \in Nat
      BY <1>0, ClocksTyped DEF TypesOK
    <3>1. CASE b = s
      <4>1. \A n : InLink(s, r, n)' => m.ts < n /\ \A k : InMessage(m, k) => k < n
        BY <1>1 DEF Taken
      <4> QED BY <1>5, <3>0, <3>1, <4>1
    <3>2. CASE b # s /\ m.kind = "clk"
      <4>1. j.clk[b] = 0
        BY <1>5, <3>2
      <4> QED BY <3>0, <4>1
    <3>3. CASE b # s /\ m.kind # "clk"
      <4>1. IsLowerOrEqualExceptFor(FirstClk(m), localClock[r], r, m.from) /\ m.from = s
        BY ZenonT(60), <1>4, <3>3 DEF CanApply, MessageOK
      <4>2. FirstClk(m)[b] <= localClock[r][b]
        BY SMTT(60), <3>3, <4>1 DEF IsLowerOrEqualExceptFor
      <4>3. j.clk[b] <= localClock[r][b] /\ j.clk[b] \in Nat
        BY <1>5, <3>3, <4>2 DEF RemoteJob, Clock
      <4>4. localClock[r][b] <= shipped[b] /\ \A n \in 1 .. shipped[b] : InLink(b, r, n) => localClock[r][b] < n
        BY <2>1 DEF CoversReceived
      <4>5. \A n \in 1 .. shipped[b] : n \in Nat
        BY <3>0
      <4> QED BY SMTT(60), <2>2, <3>0, <4>3, <4>4, <4>5
    <3> QED BY <3>1, <3>2, <3>3
  <2>5. CoversReceived(remote[r].clk, b, r)'
    BY <1>2, <1>6, <2>4 DEF CoversReceived
  <2> QED BY <2>3, <2>5
<1> QED BY <1>7, <1>9, <1>10, <1>11, <1>12, <1>13, <1>14, <1>15, RemoteStepKeeps

\* A message whose dependencies are not there is put on hold.
Held(r, s, h) ==
    /\ downstreamQueue' \in [Replicas -> [Replicas -> Seq(Message)]]
    /\ downstreamQueue'[r][s] = Append(downstreamQueue[r][s], h)
    /\ \A a, b \in Replicas : a # r \/ b # s => downstreamQueue'[a][b] = downstreamQueue[a][b]

LEMMA HoldFacts ==
    ASSUME TypesOK, NEW r \in Replicas, NEW s \in Replicas, NEW m \in Message, MessageOK(m, s),
           downstreamQueue' = [downstreamQueue EXCEPT ![r][s] = Hold(@, m)]
    PROVE  \E h \in Message : /\ Held(r, s, h) /\ h.form = "pointer" /\ MessageOK(h, s)
                              /\ h.txns = m.txns
<1> DEFINE h == [m EXCEPT !.form = "pointer"]
<1>1. /\ h \in Message /\ h.form = "pointer" /\ h.txns = m.txns /\ h.kind = m.kind
      /\ h.from = m.from /\ h.ts = m.ts
  BY DEF Message
<1>2. \A q : Hold(q, m) = Append(q, h)
  BY DEF Hold
<1> HIDE DEF h
<1>3. MessageOK(h, s)
  BY <1>1 DEF MessageOK
<1>4. downstreamQueue' = [downstreamQueue EXCEPT ![r][s] = Append(@, h)]
  BY <1>2
<1>5. downstreamQueue \in [Replicas -> [Replicas -> Seq(Message)]]
  BY DEF TypesOK
<1>6. Append(downstreamQueue[r][s], h) \in Seq(Message)
  BY <1>1, <1>5
<1>7. Held(r, s, h)
  <2>1. downstreamQueue' \in [Replicas -> [Replicas -> Seq(Message)]]
    <3>1. PICK v : v = Append(downstreamQueue[r][s], h)
      OBVIOUS
    <3>2. v \in Seq(Message) /\ downstreamQueue' = [downstreamQueue EXCEPT ![r][s] = v]
      BY <1>4, <1>6, <3>1
    <3> QED BY <1>5, <3>2
  <2>2. downstreamQueue'[r][s] = Append(downstreamQueue[r][s], h)
    BY <1>4, <1>5
  <2>3. \A a, b \in Replicas : a # r \/ b # s => downstreamQueue'[a][b] = downstreamQueue[a][b]
    BY <1>4, <1>5
  <2> QED BY <2>1, <2>2, <2>3 DEF Held
<1> QED BY <1>1, <1>3, <1>7

LEMMA HoldQueue ==
    ASSUME RemoteInv, NEW r \in Replicas, NEW s \in Replicas \ {r}, NEW h \in Message, Held(r, s, h),
           h.form = "pointer", MessageOK(h, s), LogGrows,
           \A n : InMessage(h, n) => InLink(s, r, n)
    PROVE  /\ QueueOK(r, s)'
           /\ \A n : InQueue(r, s, n)' <=> InQueue(r, s, n) \/ InMessage(h, n)
<1> DEFINE x == downstreamQueue[r][s]
           y == downstreamQueue'[r][s]
<1>0. TypesOK /\ LogOK /\ QueueOK(r, s)
  BY DEF RemoteInv, QueuesOK
<1>1. x \in Seq(Message) /\ y = Append(x, h)
  BY <1>0 DEF TypesOK, Held
<1>2. /\ Len(x) \in Nat /\ Len(y) = Len(x) + 1
      /\ \A i \in 1 .. Len(x) : y[i] = x[i] /\ i \in 1 .. Len(y)
      /\ y[Len(x) + 1] = h
      /\ \A i \in 1 .. Len(y) : i \in 1 .. Len(x) \/ i = Len(x) + 1
  BY <1>1, AppendFacts
<1>3. ASSUME NEW i \in 1 .. Len(x), NEW a \in 1 .. Len(x[i].txns), NEW b \in 1 .. Len(h.txns)
      PROVE  x[i].txns[a] # h.txns[b]
  <2>1. SUFFICES ASSUME NEW n, n = x[i].txns[a], n = h.txns[b]
                 PROVE  FALSE
    OBVIOUS
  <2>2. InQueue(r, s, n) /\ InLink(s, r, n)
    BY <2>1 DEF InQueue, InMessages, InMessage
  <2>3. n \in 1 .. shipped[s]
    BY <2>2, PlacesSent
  <2>4. PlaceOK(r, s, n)
    BY <2>3 DEF RemoteInv, PlacesOK
  <2>5. n < n
    BY <2>2, <2>3, <2>4 DEF PlaceOK
  <2>6. shipped[s] \in Nat
    BY <1>0 DEF TypesOK
  <2> QED BY <2>3, <2>5, <2>6
<1>4. ASSUME NEW i \in 1 .. Len(y)
      PROVE  MessageOK(downstreamQueue[r][s][i], s)' /\ y[i].form = "pointer"
  <2>1. PICK m : m = y[i]
    OBVIOUS
  <2>2. m \in Message /\ MessageOK(m, s) /\ m.form = "pointer"
    <3>1. CASE i \in 1 .. Len(x)
      <4>1. m = x[i] /\ x[i] \in Message
        BY <1>1, <1>2, <2>1, <3>1
      <4> QED BY <1>0, <3>1, <4>1 DEF QueueOK
    <3>2. CASE i = Len(x) + 1
      BY <1>2, <2>1, <3>2
    <3> QED BY <1>2, <3>1, <3>2
  <2>3. MessageOK(m, s)'
    BY <1>0, <2>2, MessageStays
  <2> QED BY <2>1, <2>2, <2>3
<1>5. ASSUME NEW i \in 1 .. Len(y), NEW j \in 1 .. Len(y), i # j,
             NEW a \in 1 .. Len(y[i].txns), NEW b \in 1 .. Len(y[j].txns)
      PROVE  y[i].txns[a] # y[j].txns[b]
  <2>1. CASE i \in 1 .. Len(x) /\ j \in 1 .. Len(x)
    <3>1. y[i] = x[i] /\ y[j] = x[j]
      BY <1>2, <2>1
    <3> QED BY SMTT(60), <1>0, <1>5, <2>1, <3>1 DEF QueueOK
  <2>2. CASE i \in 1 .. Len(x) /\ j = Len(x) + 1
    <3>1. y[i] = x[i] /\ y[j] = h
      BY <1>2, <2>2
    <3> QED BY ZenonT(60), <1>3, <2>2, <3>1
  <2>3. CASE j \in 1 .. Len(x) /\ i = Len(x) + 1
    <3>1. y[j] = x[j] /\ y[i] = h
      BY <1>2, <2>3
    <3> QED BY ZenonT(60), <1>3, <2>3, <3>1
  <2> QED BY <1>2, <1>5, <2>1, <2>2, <2>3
<1>6. QueueOK(r, s)'
  BY <1>4, <1>5 DEF QueueOK
<1>7. ASSUME NEW n
      PROVE  InMessages(y, n) <=> InMessages(x, n) \/ InMessage(h, n)
  <2>1. ASSUME InMessages(y, n)
        PROVE  InMessages(x, n) \/ InMessage(h, n)
    <3>1. PICK i \in 1 .. Len(y) : \E k \in 1 .. Len(y[i].txns) : y[i].txns[k] = n
      BY <2>1 DEF InMessages
    <3>2. CASE i \in 1 .. Len(x)
      BY <1>2, <3>1, <3>2 DEF InMessages
    <3>3. CASE i = Len(x) + 1
      BY <1>2, <3>1, <3>3 DEF InMessage
    <3> QED BY <1>2, <3>2, <3>3
  <2>2. InMessages(x, n) => InMessages(y, n)
    BY <1>2 DEF InMessages
  <2>3. InMessage(h, n) => InMessages(y, n)
    <3>1. Len(x) + 1 \in 1 .. Len(y)
      BY <1>2
    <3> QED BY <1>2, <3>1 DEF InMessage, InMessages
  <2> QED BY <2>1, <2>2, <2>3
<1>8. \A n : InQueue(r, s, n)' <=> InQueue(r, s, n) \/ InMessage(h, n)
  BY <1>7 DEF InQueue
<1> QED BY <1>6, <1>8

LEMMA HoldKeeps ==
    ASSUME RemoteInv, NEW r \in Replicas, NEW s \in Replicas \ {r}, HandleRemoteMsg(r, s),
           NEW m, m = Head(link[s][r]), downstreamQueue' = [downstreamQueue EXCEPT ![r][s] = Hold(@, m)],
           UNCHANGED remote
    PROVE  RemoteInv'
<1>0. TypesOK /\ LogOK /\ QueuesOK
  BY DEF RemoteInv
<1>1. Taken(r, s, m)
  BY TakenFacts
<1>2. remote[r] = Idle /\ link[s][r] # <<>> /\ UNCHANGED <<log, shipped, localClock, stableClk, db, downstreamOpsCh>>
  BY DEF HandleRemoteMsg, tmVars
<1>3. m \in Message /\ MessageOK(m, s)
  BY <1>1 DEF Taken
<1>4. PICK h \in Message : Held(r, s, h) /\ h.form = "pointer" /\ MessageOK(h, s) /\ h.txns = m.txns
  BY <1>0, <1>3, HoldFacts
<1>5. \A n : InMessage(h, n) <=> InMessage(m, n)
  BY <1>4 DEF InMessage
<1>6. /\ \A n : InLink(s, r, n) <=> InMessage(m, n) \/ InLink(s, r, n)'
      /\ \A n : InLink(s, r, n)' => \A k : InMessage(m, k) => k < n
      /\ \A b \in Replicas \ {s} : link'[b][r] = link[b][r]
  BY <1>1 DEF Taken
<1>7. RemoteStep(r)
  <2>1. \A a \in Replicas \ {r} : \A b \in Replicas : link'[b][a] = link[b][a]
    BY <1>1 DEF Taken
  <2>2. ASSUME NEW a \in Replicas \ {r}
        PROVE  downstreamQueue'[a] = downstreamQueue[a]
    <3>1. \A b \in Replicas : downstreamQueue'[a][b] = downstreamQueue[a][b]
      BY <1>4 DEF Held
    <3>2. downstreamQueue[a] \in [Replicas -> Seq(Message)] /\ downstreamQueue'[a] \in [Replicas -> Seq(Message)]
      BY <1>0, <1>4 DEF TypesOK, Held
    <3> QED BY <3>1, <3>2
  <2> QED BY <1>2, <2>1, <2>2 DEF RemoteStep, StaysAt
<1>8. LogGrows
  BY <1>7, RemoteStepGrows
<1>9. TypesOK'
  <2>1. link' \in [Replicas -> [Replicas -> Seq(Message)]]
    BY <1>1 DEF Taken
  <2>2. downstreamQueue' \in [Replicas -> [Replicas -> Seq(Message)]]
    BY <1>4 DEF Held
  <2> QED BY <1>0, <1>2, <2>1, <2>2 DEF TypesOK, Ids, Txn, Message, RemoteJob, Clock, Idle
<1>10. ClocksAt(r)'
  <2>1. ClocksAt(r)
    BY DEF RemoteInv, ClocksOK, ClocksAt
  <2> QED BY <1>2, <2>1 DEF ClocksAt, ClockOK, Idle
<1>11. /\ QueueOK(r, s)'
       /\ \A n : InQueue(r, s, n)' <=> InQueue(r, s, n) \/ InMessage(m, n)
  BY <1>4, <1>5, <1>6, <1>8, HoldQueue
<1>12. ASSUME NEW a \in Replicas
       PROVE  LinkOK(a, r)' /\ QueueOK(r, a)'
  <2>1. LinkOK(a, r)'
    BY <1>1, <1>2, <1>8, TakenLink
  <2>2. CASE a # s
    <3>1. downstreamQueue'[r][a] = downstreamQueue[r][a]
      BY <1>4, <2>2 DEF Held
    <3> QED BY <1>0, <1>8, <2>1, <3>1, QueueStays DEF QueuesOK
  <2> QED BY <1>11, <2>1, <2>2
<1>13. JobOK(r)'
  BY SMTT(60), <1>2 DEF JobOK, Idle
<1>14. OwnOK(r)' /\ \A p \in Partitions : DbOK(r, p)'
  <2>1. OwnOK(r) /\ \A p \in Partitions : DbOK(r, p)
    BY DEF RemoteInv, OwnsOK, DbsOK
  <2>2. OwnOK(r)'
    BY <1>2, <2>1 DEF OwnOK, InDb, Id
  <2> QED BY <1>2, <2>1, <2>2 DEF DbOK, Updates, Ids
<1>15. ASSUME NEW b \in Replicas \ {r}, NEW n \in 1 .. shipped[b]
       PROVE  PlaceOK(r, b, n)'
  <2>1. \A k : /\ \A p : InDb(r, p, b, k)' <=> InDb(r, p, b, k)
               /\ ~InJob(r, b, k) /\ ~(InJob(r, b, k))'
    BY <1>2 DEF InDb, InJob, Id, Idle
  <2>2. PlaceOK(r, b, n) /\ shipped'[b] = shipped[b] /\ log'[b] = log[b] /\ shipped[b] \in Nat
    BY <1>0, <1>2 DEF RemoteInv, PlacesOK, TypesOK
  <2>3. CASE b = s
    <3>1. (InLink(s, r, n))' => \A k \in 1 .. shipped'[s] :
             /\ (InQueue(r, s, k))' \/ (InJob(r, s, k))' => k < n
             /\ \A p \in Partitions : (InDb(r, p, s, k))' => k < n
      BY <1>6, <1>11, <2>1, <2>2, <2>3 DEF PlaceOK
    <3>2. InMessage(m, n) => \A p \in Partitions : ~InDb(r, p, s, n)
      <4>1. InMessage(m, n) => \A k \in 1 .. shipped[s] : \A p \in Partitions : InDb(r, p, s, k) => k < n
        BY <1>6, <2>2, <2>3 DEF PlaceOK
      <4>2. n \in 1 .. shipped[s] /\ ~(n < n)
        BY <2>2, <2>3
      <4> QED BY <4>1, <4>2
    <3>3. (InQueue(r, s, n))' => ~(InJob(r, s, n))' /\ \A p \in Partitions : ~(InDb(r, p, s, n))'
      BY <1>11, <2>1, <2>2, <2>3, <3>2 DEF PlaceOK
    <3>4. \A p \in log'[s][n].parts : (InLink(s, r, n))' \/ (InQueue(r, s, n))' \/ (InDb(r, p, s, n))'
      BY <1>6, <1>11, <2>1, <2>2, <2>3 DEF PlaceOK
    <3> QED BY <2>1, <2>3, <3>1, <3>3, <3>4 DEF PlaceOK
  <2>4. CASE b # s
    <3>1. downstreamQueue'[r][b] = downstreamQueue[r][b] /\ link'[b][r] = link[b][r]
      BY <1>4, <1>6, <2>4 DEF Held
    <3>2. \A k : /\ InLink(b, r, k)' <=> InLink(b, r, k)
                 /\ InQueue(r, b, k)' <=> InQueue(r, b, k)
      BY <3>1 DEF InLink, InQueue
    <3>3. (InLink(b, r, n))' => \A k \in 1 .. shipped'[b] :
             /\ (InQueue(r, b, k))' \/ (InJob(r, b, k))' => k < n
             /\ \A p \in Partitions : (InDb(r, p, b, k))' => k < n
      BY <2>1, <2>2, <3>2 DEF PlaceOK
    <3>4. (InQueue(r, b, n))' => ~(InJob(r, b, n))' /\ \A p \in Partitions : ~(InDb(r, p, b, n))'
      BY <2>1, <2>2, <3>2 DEF PlaceOK
    <3>5. \A p \in log'[b][n].parts : (InLink(b, r, n))' \/ (InQueue(r, b, n))' \/ (InDb(r, p, b, n))'
      BY <2>1, <2>2, <3>2 DEF PlaceOK
    <3> QED BY <2>1, <3>3, <3>4, <3>5 DEF PlaceOK
  <2> QED BY <2>3, <2>4
<1>16. CoverOK(r)'
  <2>1. downstreamQueue'[r][s] # <<>>
    <3>1. downstreamQueue[r][s] \in Seq(Message) /\ downstreamQueue'[r][s] = Append(downstreamQueue[r][s], h)
      BY <1>0, <1>4 DEF TypesOK, Held
    <3> QED BY <3>1
  <2> QED BY <2>1 DEF CoverOK, OnHold
<1> QED BY <1>7, <1>9, <1>10, <1>12, <1>13, <1>14, <1>15, <1>16, RemoteStepKeeps

\* What a partition's step leaves and what it changes
PartitionStep(r, p, j, U) ==
    /\ j \in RemoteJob /\ j = remote[r] /\ p \in j.todo
    /\ U = UpdatesOf(p, j.txns) /\ U \in Seq(Ids)
    /\ db' \in [Replicas -> [Partitions -> Seq(Ids)]] /\ db'[r][p] = db[r][p] \o U
    /\ \A q \in Partitions \ {p} : db'[r][q] = db[r][q]
    /\ stableClk' \in [Replicas -> [Partitions -> Clock]]
    /\ stableClk'[r][p] = Merge(stableClk[r][p], j.clk)
    /\ \A q \in Partitions \ {p} : stableClk'[r][q] = stableClk[r][q]
    /\ remote' \in [Replicas -> {Idle} \cup RemoteJob] /\ remote'[r] # Idle
    /\ remote'[r].from = j.from /\ remote'[r].txns = j.txns /\ remote'[r].clk = j.clk
    /\ remote'[r].todo = j.todo \ {p}
    /\ UNCHANGED <<log, shipped, link, localClock, downstreamQueue, downstreamOpsCh>>

LEMMA PartitionFacts ==
    ASSUME RemoteInv, NEW r \in Replicas, NEW p \in Partitions, PartitionApplies(r, p)
    PROVE  RemoteStep(r) /\ \E j, U : PartitionStep(r, p, j, U)
<1>0. TypesOK /\ JobOK(r)
  BY DEF RemoteInv, JobsOK
<1>1. PICK j : j = remote[r]
  OBVIOUS
<1>2. j \in RemoteJob /\ j # Idle /\ p \in j.todo
  BY <1>0, <1>1 DEF PartitionApplies, TypesOK
<1>3. j.txns \in Seq(Ids) /\ j.clk \in Clock /\ j.todo \subseteq Partitions
  BY SMTT(60), <1>2 DEF RemoteJob
<1>4. \A i, k \in 1 .. Len(j.txns) : i < k => j.txns[i][2] < j.txns[k][2]
  BY <1>0, <1>1, <1>2 DEF JobOK
<1>5. PICK U : U = UpdatesOf(p, j.txns)
  OBVIOUS
<1>6. U \in Seq(Ids)
  BY <1>3, <1>4, <1>5, UpdatesOfFacts
<1>7. /\ db' \in [Replicas -> [Partitions -> Seq(Ids)]] /\ db'[r][p] = db[r][p] \o U
      /\ \A q \in Partitions \ {p} : db'[r][q] = db[r][q]
      /\ \A a \in Replicas \ {r} : db'[a] = db[a]
  <2>1. db' = [db EXCEPT ![r][p] = @ \o U]
    BY <1>1, <1>5 DEF PartitionApplies
  <2>2. db \in [Replicas -> [Partitions -> Seq(Ids)]]
    BY <1>0 DEF TypesOK
  <2>3. db[r][p] \o U \in Seq(Ids)
    BY <1>6, <2>2, ConcatFacts
  <2>4. db' \in [Replicas -> [Partitions -> Seq(Ids)]]
    BY <2>1, <2>2, <2>3
  <2> QED BY <2>1, <2>2, <2>4
<1>8. /\ stableClk' \in [Replicas -> [Partitions -> Clock]] /\ stableClk'[r][p] = Merge(stableClk[r][p], j.clk)
      /\ \A q \in Partitions \ {p} : stableClk'[r][q] = stableClk[r][q]
      /\ \A a \in Replicas \ {r} : stableClk'[a] = stableClk[a]
  <2>1. stableClk' = [stableClk EXCEPT ![r][p] = Merge(@, j.clk)]
    BY <1>1 DEF PartitionApplies
  <2>2. stableClk \in [Replicas -> [Partitions -> Clock]]
    BY <1>0 DEF TypesOK
  <2>3. Merge(stableClk[r][p], j.clk) \in Clock
    BY <1>3, <2>2, MergeFacts
  <2>4. stableClk' \in [Replicas -> [Partitions -> Clock]]
    BY <2>1, <2>2, <2>3
  <2> QED BY <2>1, <2>2, <2>4
<1>9. /\ remote' \in [Replicas -> {Idle} \cup RemoteJob] /\ remote'[r] # Idle
      /\ remote'[r].from = j.from /\ remote'[r].txns = j.txns /\ remote'[r].clk = j.clk
      /\ remote'[r].todo = j.todo \ {p}
      /\ \A a \in Replicas \ {r} : remote'[a] = remote[a]
  <2>1. PICK k : k = [j EXCEPT !.todo = @ \ {p}]
    OBVIOUS
  <2>2. /\ k \in RemoteJob /\ k.kind = j.kind /\ k.from = j.from /\ k.txns = j.txns /\ k.clk = j.clk
        /\ k.todo = j.todo \ {p}
    BY <1>2, <1>3, <2>1 DEF RemoteJob
  <2>3. remote' = [remote EXCEPT ![r] = k]
    <3>1. remote' = [remote EXCEPT ![r].todo = @ \ {p}]
      BY DEF PartitionApplies
    <3> QED BY <1>1, <2>1, <3>1
  <2>4. remote \in [Replicas -> {Idle} \cup RemoteJob]
    BY <1>0 DEF TypesOK
  <2>5. k # Idle
    <3>1. k.kind # "idle"
      BY <2>2 DEF RemoteJob
    <3> QED BY <3>1 DEF Idle
  <2>6. remote'[r] = k /\ remote' \in [Replicas -> {Idle} \cup RemoteJob] /\ \A a \in Replicas \ {r} : remote'[a] = remote[a]
    BY <2>2, <2>3, <2>4
  <2> QED BY <2>2, <2>5, <2>6
<1>10. UNCHANGED <<log, shipped, link, localClock, downstreamQueue, downstreamOpsCh>>
  BY DEF PartitionApplies
<1>11. RemoteStep(r)
  BY <1>7, <1>8, <1>9, <1>10 DEF RemoteStep, StaysAt
<1>12. PartitionStep(r, p, j, U)
  BY <1>1, <1>2, <1>5, <1>6, <1>7, <1>8, <1>9, <1>10 DEF PartitionStep
<1> QED BY <1>11, <1>12

\* The partition then has what the message has for it.
LEMMA PartitionDb ==
    ASSUME RemoteInv, NEW r \in Replicas, NEW p \in Partitions, NEW j, NEW U, PartitionStep(r, p, j, U)
    PROVE  /\ DbOK(r, p)'
           /\ \A s \in Replicas : \A k : InDb(r, p, s, k)' <=> InDb(r, p, s, k) \/ (InJob(r, s, k) /\ p \in log[s][k].parts)
<1> DEFINE x == db[r][p]
           y == db'[r][p]
<1>0. TypesOK /\ LogOK /\ JobOK(r) /\ DbOK(r, p)
  BY DEF RemoteInv, JobsOK, DbsOK
<1>1. /\ j \in RemoteJob /\ j = remote[r] /\ p \in j.todo
      /\ U = UpdatesOf(p, j.txns) /\ U \in Seq(Ids) /\ y = x \o U /\ log' = log /\ shipped' = shipped
  BY DEF PartitionStep
<1>2. j # Idle
  <2>1. j.kind # "idle"
    BY SMTT(60), <1>1 DEF RemoteJob
  <2> QED BY <2>1 DEF Idle
<1>3. /\ j.from # r
      /\ \A i \in 1 .. Len(j.txns) : j.txns[i][1] = j.from /\ j.txns[i][2] \in 1 .. shipped[j.from]
      /\ \A i, k \in 1 .. Len(j.txns) : i < k => j.txns[i][2] < j.txns[k][2]
  BY <1>0, <1>1, <1>2 DEF JobOK
<1>4. j.txns \in Seq(Ids) /\ j.from \in Replicas /\ j.todo \subseteq Partitions
  BY <1>1 DEF RemoteJob
<1>5. /\ \A k \in 1 .. Len(U) : \E i \in 1 .. Len(j.txns) : U[k] = j.txns[i] /\ p \in TxnOf(j.txns[i]).parts
      /\ \A i \in 1 .. Len(j.txns) : p \in TxnOf(j.txns[i]).parts => \E k \in 1 .. Len(U) : U[k] = j.txns[i]
      /\ \A k, l \in 1 .. Len(U) : k < l => U[k][2] < U[l][2]
  <2>1. PICK T : T = j.txns
    OBVIOUS
  <2>2. T \in Seq(Ids) /\ \A i, k \in 1 .. Len(T) : i < k => T[i][2] < T[k][2]
    BY <1>3, <1>4, <2>1
  <2>3. /\ \A k \in 1 .. Len(UpdatesOf(p, T)) : \E i \in 1 .. Len(T) :
              UpdatesOf(p, T)[k] = T[i] /\ p \in TxnOf(T[i]).parts
        /\ \A i \in 1 .. Len(T) : p \in TxnOf(T[i]).parts =>
              \E k \in 1 .. Len(UpdatesOf(p, T)) : UpdatesOf(p, T)[k] = T[i]
        /\ \A k, l \in 1 .. Len(UpdatesOf(p, T)) : k < l => UpdatesOf(p, T)[k][2] < UpdatesOf(p, T)[l][2]
    BY <2>2, UpdatesOfFacts
  <2>4. U = UpdatesOf(p, T)
    BY <1>1, <2>1
  <2> QED BY <2>1, <2>3, <2>4
<1>6. x \in Seq(Ids)
  BY <1>0 DEF TypesOK
<1>7. /\ Len(x) \in Nat /\ Len(U) \in Nat /\ Len(y) = Len(x) + Len(U)
      /\ \A i \in 1 .. Len(x) : y[i] = x[i] /\ i \in 1 .. Len(y)
      /\ \A i \in 1 .. Len(U) : y[Len(x) + i] = U[i] /\ Len(x) + i \in 1 .. Len(y)
      /\ \A i \in 1 .. Len(y) : i \in 1 .. Len(x) \/ (i - Len(x) \in 1 .. Len(U) /\ i = Len(x) + (i - Len(x)))
  <2> HIDE DEF x, y
  <2>1. U \in Seq(Ids) /\ y = x \o U
    BY <1>1
  <2> QED BY <1>6, <2>1, ConcatFacts
<1> HIDE DEF x, y
<1>8. ASSUME NEW k \in 1 .. Len(U)
      PROVE  /\ U[k] \in Ids /\ U[k][1] = j.from /\ U[k][2] \in 1 .. shipped[j.from] /\ Updates(U[k], p)
             /\ InJob(r, j.from, U[k][2]) /\ U[k] = Id(j.from, U[k][2]) /\ p \in log[j.from][U[k][2]].parts
  <2>1. PICK i \in 1 .. Len(j.txns) : U[k] = j.txns[i] /\ p \in TxnOf(j.txns[i]).parts
    BY <1>5
  <2>2. PICK t : t = j.txns[i]
    OBVIOUS
  <2>3. t \in Ids /\ t[1] = j.from /\ t[2] \in 1 .. shipped[j.from]
    BY <1>3, <1>4, <2>2
  <2>4. t = Id(j.from, t[2])
    BY <2>3 DEF Ids, Id
  <2>5. shipped[j.from] <= Len(log[j.from]) /\ shipped[j.from] \in Nat /\ Len(log[j.from]) \in Nat
    BY <1>0, <1>4 DEF LogOK, TypesOK
  <2>6. t[2] \in 1 .. Len(log[t[1]])
    BY <2>3, <2>5
  <2>7. p \in log[t[1]][t[2]].parts
    BY <2>1, <2>2 DEF TxnOf
  <2>8. Updates(t, p)
    BY <2>3, <2>6, <2>7 DEF Updates
  <2>9. InJob(r, j.from, t[2])
    BY <1>1, <1>2, <2>2, <2>4 DEF InJob
  <2> QED BY <2>1, <2>2, <2>3, <2>4, <2>7, <2>8, <2>9
<1>9. ASSUME NEW i \in 1 .. Len(x), NEW k \in 1 .. Len(U)
      PROVE  x[i] # U[k]
  <2>1. SUFFICES ASSUME x[i] = U[k]
                 PROVE  FALSE
    OBVIOUS
  <2>2. PICK n : n = U[k][2]
    OBVIOUS
  <2>3. n \in 1 .. shipped[j.from] /\ InJob(r, j.from, n) /\ x[i] = Id(j.from, n)
    BY <1>8, <2>1, <2>2
  <2>4. InDb(r, p, j.from, n)
    BY <2>3 DEF InDb, x
  <2>5. PlaceOK(r, j.from, n)
    BY <1>3, <1>4, <2>3 DEF RemoteInv, PlacesOK
  <2> QED BY <1>1, <2>3, <2>4, <2>5 DEF PlaceOK
<1>10. ASSUME NEW i \in 1 .. Len(y)
       PROVE  Updates(y[i], p) /\ (y[i][1] # r => y[i][2] <= shipped[y[i][1]])
  <2>1. CASE i \in 1 .. Len(x)
    BY <1>0, <1>7, <2>1 DEF DbOK, x
  <2>2. CASE i - Len(x) \in 1 .. Len(U) /\ i = Len(x) + (i - Len(x))
    <3>1. PICK t : t = U[i - Len(x)] /\ y[i] = t
      BY <1>7, <2>2
    <3>2. Updates(t, p) /\ t[1] = j.from /\ t[2] \in 1 .. shipped[j.from]
      BY <1>8, <2>2, <3>1
    <3>3. shipped[j.from] \in Nat
      BY <1>0, <1>4 DEF TypesOK
    <3> QED BY <3>1, <3>2, <3>3
  <2> QED BY <1>7, <2>1, <2>2
<1>11. ASSUME NEW i \in 1 .. Len(y), NEW l \in 1 .. Len(y), i < l
       PROVE  y[i] # y[l]
  <2>1. CASE i \in 1 .. Len(x) /\ l \in 1 .. Len(x)
    <3>1. y[i] = x[i] /\ y[l] = x[l] /\ i # l
      BY <1>7, <1>11, <2>1
    <3> QED BY <1>0, <2>1, <3>1 DEF DbOK, x
  <2>2. CASE i \in 1 .. Len(x) /\ l \notin 1 .. Len(x)
    <3>1. y[i] = x[i] /\ l - Len(x) \in 1 .. Len(U) /\ l = Len(x) + (l - Len(x))
      BY <1>7, <2>2
    <3>2. y[l] = U[l - Len(x)]
      BY <1>7, <3>1
    <3> QED BY <1>9, <2>2, <3>1, <3>2
  <2>3. CASE i \notin 1 .. Len(x)
    <3>1. l \notin 1 .. Len(x)
      BY <1>7, <1>11, <2>3
    <3>2. /\ i - Len(x) \in 1 .. Len(U) /\ i = Len(x) + (i - Len(x))
          /\ l - Len(x) \in 1 .. Len(U) /\ l = Len(x) + (l - Len(x))
      BY <1>7, <2>3, <3>1
    <3>3. y[i] = U[i - Len(x)] /\ y[l] = U[l - Len(x)]
      BY <1>7, <3>2
    <3>4. i - Len(x) < l - Len(x)
      BY <1>7, <1>11
    <3>5. U[i - Len(x)][2] < U[l - Len(x)][2]
      BY <1>5, <3>2, <3>4
    <3>6. U[i - Len(x)][2] \in Nat
      <4>1. U[i - Len(x)] \in Ids
        BY <1>8, <3>2
      <4> QED BY <4>1 DEF Ids
    <3> QED BY <3>3, <3>5, <3>6
  <2> QED BY <2>1, <2>2, <2>3
<1>12. \A i, l \in 1 .. Len(y) : i # l => y[i] # y[l]
  <2>1. ASSUME NEW i \in 1 .. Len(y), NEW l \in 1 .. Len(y), i # l
        PROVE  y[i] # y[l]
    <3>1. i < l \/ l < i
      BY <1>7, <2>1
    <3> QED BY <1>11, <3>1
  <2> QED BY <2>1
<1>13. DbOK(r, p)'
  <2>1. ASSUME NEW i \in 1 .. Len(y)
        PROVE  Updates(db[r][p][i], p)' /\ (y[i][1] # r => y[i][2] <= shipped'[y[i][1]])
    <3>1. PICK t : t = y[i]
      OBVIOUS
    <3>2. Updates(t, p) /\ (t[1] # r => t[2] <= shipped[t[1]])
      BY SMTT(60), <1>10, <3>1
    <3>3. Updates(t, p)' /\ db'[r][p][i] = t
      BY <1>1, <3>1, <3>2 DEF Updates, Ids, y
    <3> QED BY <1>1, <3>1, <3>2, <3>3
  <2> QED BY <1>12, <2>1 DEF DbOK, y
<1>14. ASSUME NEW s \in Replicas, NEW k
       PROVE  InDb(r, p, s, k)' <=> InDb(r, p, s, k) \/ (InJob(r, s, k) /\ p \in log[s][k].parts)
  <2>0. PICK t : t = Id(s, k)
    OBVIOUS
  <2>1. /\ InDb(r, p, s, k)' <=> \E i \in 1 .. Len(y) : y[i] = t
        /\ InDb(r, p, s, k) <=> \E i \in 1 .. Len(x) : x[i] = t
    BY <2>0 DEF InDb, x, y, Id
  <2>2. ASSUME NEW i \in 1 .. Len(y), y[i] = t
        PROVE  InDb(r, p, s, k) \/ (InJob(r, s, k) /\ p \in log[s][k].parts)
    <3>1. CASE i \in 1 .. Len(x)
      BY <1>7, <2>1, <2>2, <3>1
    <3>2. CASE i - Len(x) \in 1 .. Len(U) /\ i = Len(x) + (i - Len(x))
      <4>1. U[i - Len(x)] = t
        BY <1>7, <2>2, <3>2
      <4>2. t[1] = s /\ t[2] = k
        BY <2>0 DEF Id
      <4> QED BY <1>8, <3>2, <4>1, <4>2
    <3> QED BY <1>7, <3>1, <3>2
  <2>3. InDb(r, p, s, k) => InDb(r, p, s, k)'
    BY <1>7, <2>1
  <2>4. ASSUME InJob(r, s, k), p \in log[s][k].parts
        PROVE  InDb(r, p, s, k)'
    <3>1. PICK i \in 1 .. Len(j.txns) : j.txns[i] = t
      BY <1>1, <2>0, <2>4 DEF InJob
    <3>2. p \in TxnOf(j.txns[i]).parts
      BY <2>0, <2>4, <3>1 DEF TxnOf, Id
    <3>3. PICK l \in 1 .. Len(U) : U[l] = t
      BY <1>5, <3>1, <3>2
    <3> QED BY <1>7, <2>1, <3>3
  <2> QED BY <2>1, <2>2, <2>3, <2>4
<1> QED BY <1>13, <1>14

LEMMA PartitionPlaces ==
    ASSUME RemoteInv, NEW r \in Replicas, NEW p \in Partitions, NEW j, NEW U, PartitionStep(r, p, j, U),
           NEW b \in Replicas \ {r}, NEW n \in 1 .. shipped[b]
    PROVE  PlaceOK(r, b, n)'
<1>0. PlaceOK(r, b, n) /\ j.todo \subseteq Partitions /\ TypesOK /\ LogOK
  BY DEF RemoteInv, PlacesOK, PartitionStep, RemoteJob
<1>1. \A k : InDb(r, p, b, k)' <=> InDb(r, p, b, k) \/ (InJob(r, b, k) /\ p \in log[b][k].parts)
  BY PartitionDb
<1>2. \A q \in Partitions \ {p} : \A k : InDb(r, q, b, k)' <=> InDb(r, q, b, k)
  BY DEF PartitionStep, InDb, Id
<1>3. \A k : /\ InLink(b, r, k)' <=> InLink(b, r, k)
             /\ InQueue(r, b, k)' <=> InQueue(r, b, k)
  BY DEF PartitionStep, InLink, InQueue
<1>4. remote[r] # Idle
  <2>1. remote[r].kind # "idle"
    BY DEF PartitionStep, RemoteJob
  <2> QED BY <2>1 DEF Idle
<1>5. \A k : InJob(r, b, k)' <=> InJob(r, b, k)
  BY <1>4 DEF PartitionStep, InJob, Id, Idle
<1>6. remote[r].todo = j.todo /\ remote'[r].todo = j.todo \ {p} /\ shipped' = shipped /\ log' = log
  BY DEF PartitionStep
<1>7. (InLink(b, r, n))' => \A k \in 1 .. shipped'[b] :
         /\ (InQueue(r, b, k))' \/ (InJob(r, b, k))' => k < n
         /\ \A q \in Partitions : (InDb(r, q, b, k))' => k < n
  BY <1>0, <1>1, <1>2, <1>3, <1>5, <1>6 DEF PlaceOK
<1>8. (InQueue(r, b, n))' => ~(InJob(r, b, n))' /\ \A q \in Partitions : ~(InDb(r, q, b, n))'
  BY <1>0, <1>1, <1>2, <1>3, <1>5 DEF PlaceOK
<1>9. (InJob(r, b, n))' => \A q \in remote'[r].todo : ~(InDb(r, q, b, n))'
  BY <1>0, <1>2, <1>5, <1>6 DEF PlaceOK
<1>10. \A q \in log'[b][n].parts :
         \/ (InLink(b, r, n))' \/ (InQueue(r, b, n))' \/ (InDb(r, q, b, n))'
         \/ (InJob(r, b, n))' /\ q \in remote'[r].todo
  <2>1. ASSUME NEW q \in log[b][n].parts
        PROVE  \/ (InLink(b, r, n))' \/ (InQueue(r, b, n))' \/ (InDb(r, q, b, n))'
               \/ (InJob(r, b, n))' /\ q \in remote'[r].todo
    <3>1. InLink(b, r, n) \/ InQueue(r, b, n) \/ InDb(r, q, b, n) \/ (InJob(r, b, n) /\ q \in remote[r].todo)
      BY <1>0 DEF PlaceOK
    <3>2. q \in Partitions
      <4>1. log[b] \in Seq(Txn) /\ shipped[b] \in Nat /\ shipped[b] <= Len(log[b])
        BY <1>0 DEF TypesOK, LogOK
      <4>2. n \in 1 .. Len(log[b])
        BY <4>1
      <4>3. log[b][n] \in Txn
        BY <4>1, <4>2
      <4> QED BY <4>3 DEF Txn
    <3> QED BY <1>1, <1>2, <1>3, <1>5, <1>6, <3>1, <3>2
  <2> QED BY <1>6, <2>1
<1> QED BY <1>7, <1>8, <1>9, <1>10 DEF PlaceOK

LEMMA PartitionKeeps ==
    ASSUME RemoteInv, NEW r \in Replicas, NEW p \in Partitions, PartitionApplies(r, p)
    PROVE  RemoteInv'
<1>0. TypesOK /\ LogOK /\ LinksOK /\ QueuesOK /\ JobOK(r) /\ ClocksAt(r) /\ CoverOK(r) /\ OwnOK(r)
  BY DEF RemoteInv, JobsOK, ClocksOK, ClocksAt, CoversOK, OwnsOK
<1>1. RemoteStep(r)
  BY PartitionFacts
<1>2. LogGrows
  BY <1>1, RemoteStepGrows
<1>3. PICK j, U : PartitionStep(r, p, j, U)
  BY PartitionFacts
<1>4. /\ j \in RemoteJob /\ remote[r] = j /\ remote'[r].from = j.from /\ remote'[r].txns = j.txns
      /\ remote'[r].clk = j.clk /\ UNCHANGED <<log, shipped, link, localClock, downstreamQueue, downstreamOpsCh>>
      /\ stableClk'[r][p] = Merge(stableClk[r][p], j.clk)
      /\ \A q \in Partitions \ {p} : stableClk'[r][q] = stableClk[r][q] /\ db'[r][q] = db[r][q]
  BY <1>3 DEF PartitionStep
<1>5. remote[r] # Idle
  BY DEF PartitionApplies
<1>6. TypesOK'
  BY <1>0, <1>3 DEF PartitionStep, TypesOK, Ids, Txn, Message, RemoteJob, Clock, Idle
<1>7. \A a \in Replicas : LinkOK(a, r)' /\ QueueOK(r, a)'
  BY <1>0, <1>2, <1>4, LinkStays, QueueStays DEF LinksOK, QueuesOK
<1>8. JobOK(r)'
  BY <1>0, <1>2, <1>4, <1>5, JobStays
<1>9. /\ localClock[r] \in Clock /\ \A q \in Partitions : stableClk[r][q] \in Clock
      /\ j.clk \in Clock
  BY <1>0, <1>4, <1>5, ClocksTyped
<1>10. \A q \in Replicas : Merge(stableClk[r][p], j.clk)[q] = stableClk[r][p][q] \/ Merge(stableClk[r][p], j.clk)[q] = j.clk[q]
  BY <1>9, MergeFacts
<1>11. ClocksAt(r)'
  <2>1. /\ \A q \in Replicas : localClock[r][q] <= Len(log[q])
        /\ \A a \in Partitions : \A q \in Replicas : stableClk[r][a][q] <= Len(log[q])
        /\ \A q \in Replicas : j.clk[q] <= Len(log[q])
    BY <1>0, <1>4, <1>5 DEF ClocksAt, ClockOK
  <2>2. ASSUME NEW a \in Partitions, NEW q \in Replicas
        PROVE  stableClk'[r][a][q] <= Len(log[q])
    <3>1. CASE a = p
      BY <1>4, <1>10, <2>1, <3>1
    <3>2. CASE a # p
      BY <1>4, <2>1, <3>2
    <3> QED BY <3>1, <3>2
  <2>3. localClock'[r] = localClock[r] /\ remote'[r].clk = j.clk /\ log' = log
    BY <1>4
  <2> QED BY <2>1, <2>2, <2>3 DEF ClocksAt, ClockOK
<1>12. OwnOK(r)'
  <2>1. ASSUME NEW n \in 1 .. Len(log[r]), NEW q \in log[r][n].parts
        PROVE  InDb(r, q, r, n)'
    <3>1. InDb(r, q, r, n)
      BY <1>0 DEF OwnOK
    <3>2. CASE q = p
      BY <1>3, <3>1, <3>2, PartitionDb
    <3>3. CASE q # p
      <4>1. log[r] \in Seq(Txn)
        BY <1>0 DEF TypesOK
      <4>2. log[r][n] \in Txn
        BY <4>1
      <4>3. q \in Partitions
        BY <4>2 DEF Txn
      <4> QED BY <1>4, <3>1, <3>3, <4>3 DEF InDb, Id
    <3> QED BY <3>2, <3>3
  <2> QED BY <1>4, <2>1 DEF OwnOK
<1>13. ASSUME NEW q \in Partitions
       PROVE  DbOK(r, q)'
  <2>1. CASE q = p
    BY SMTT(60), <1>3, <2>1, PartitionDb
  <2>2. CASE q # p
    <3>1. DbOK(r, q) /\ db'[r][q] = db[r][q] /\ log' = log /\ shipped' = shipped
      BY <1>4, <2>2 DEF RemoteInv, DbsOK
    <3> QED BY <3>1 DEF DbOK, Updates, Ids
  <2> QED BY <2>1, <2>2
<1>14. ASSUME NEW b \in Replicas \ {r}, NEW n \in 1 .. shipped[b]
       PROVE  PlaceOK(r, b, n)'
  BY <1>3, PartitionPlaces
<1>15. CoverOK(r)'
  <2> SUFFICES ASSUME ~OnHold(r), NEW b \in Replicas \ {r}
               PROVE  /\ CoversReceived(localClock[r], b, r)'
                      /\ \A q \in Partitions : CoversReceived(stableClk[r][q], b, r)'
                      /\ CoversReceived(remote[r].clk, b, r)'
    BY <1>4 DEF CoverOK, OnHold
  <2>1. /\ CoversReceived(localClock[r], b, r) /\ \A q \in Partitions : CoversReceived(stableClk[r][q], b, r)
        /\ CoversReceived(j.clk, b, r)
    BY <1>0, <1>4, <1>5 DEF CoverOK
  <2>2. shipped'[b] = shipped[b] /\ \A n : InLink(b, r, n)' <=> InLink(b, r, n)
    BY <1>4 DEF InLink
  <2>3. \A c : CoversReceived(c, b, r) => c[b] <= shipped'[b] /\ \A n \in 1 .. shipped'[b] : InLink(b, r, n)' => c[b] < n
    BY <2>2 DEF CoversReceived
  <2>4. ASSUME NEW q \in Partitions
        PROVE  stableClk'[r][q][b] <= shipped'[b] /\ \A n \in 1 .. shipped'[b] : InLink(b, r, n)' => stableClk'[r][q][b] < n
    <3>1. stableClk'[r][q][b] = stableClk[r][q][b] \/ stableClk'[r][q][b] = j.clk[b]
      BY <1>4, <1>10
    <3> QED BY <2>1, <2>3, <3>1
  <2>5. /\ localClock'[r][b] <= shipped'[b] /\ \A n \in 1 .. shipped'[b] : InLink(b, r, n)' => localClock'[r][b] < n
        /\ remote'[r].clk[b] <= shipped'[b] /\ \A n \in 1 .. shipped'[b] : InLink(b, r, n)' => remote'[r].clk[b] < n
    BY <1>4, <2>1, <2>3
  <2> QED BY <2>4, <2>5 DEF CoversReceived
<1> QED BY <1>1, <1>6, <1>7, <1>8, <1>11, <1>12, <1>13, <1>14, <1>15, RemoteStepKeeps

\* Nothing on hold is found, so that all the end of a message changes is the clock.
LEMMA FinishFacts ==
    ASSUME RemoteInv, NEW r \in Replicas, FinishRemote(r), NEW j, j = remote[r]
    PROVE  /\ UNCHANGED <<log, shipped, link, db, stableClk, downstreamQueue>>
           /\ localClock' \in [Replicas -> Clock]
           /\ \A a \in Replicas \ {r} : localClock'[a] = localClock[a] /\ remote'[a] = remote[a]
           /\ localClock'[r][j.from] = localClock[r][j.from] \/ localClock'[r][j.from] = j.clk[j.from]
           /\ \A q \in Replicas \ {j.from} : localClock'[r][q] = localClock[r][q]
           /\ remote' \in [Replicas -> {Idle} \cup RemoteJob] /\ remote'[r] = Idle
           /\ downstreamOpsCh' \in [Replicas -> Seq(SUBSET Partitions)]
           /\ j \in RemoteJob /\ j # Idle /\ j.todo = {}
<1>0. TypesOK /\ LogOK /\ JobOK(r) /\ QueuesOK
  BY SMTT(60) DEF RemoteInv, JobsOK
<1>1. j \in RemoteJob /\ j # Idle /\ j.todo = {}
  BY <1>0 DEF FinishRemote, TypesOK
<1>2. j.from \in Replicas /\ j.clk \in Clock /\ j.txns \in Seq(Ids)
  BY <1>1 DEF RemoteJob
<1>3. PICK c : c = UpdatePos(localClock[r], j.from, j.clk[j.from])
  OBVIOUS
<1>4. /\ c \in Clock /\ (c[j.from] = localClock[r][j.from] \/ c[j.from] = j.clk[j.from])
      /\ \A q \in Replicas \ {j.from} : c[q] = localClock[r][q]
  <2>1. localClock[r] \in Clock
    BY <1>0 DEF TypesOK
  <2> QED BY <1>2, <1>3, <2>1 DEF UpdatePos, Clock
<1>5. Pointers(downstreamQueue[r])
  <2>1. downstreamQueue[r] \in [Replicas -> Seq(Message)]
    BY <1>0 DEF TypesOK
  <2>2. \A s \in Replicas : \A i \in 1 .. Len(downstreamQueue[r][s]) : downstreamQueue[r][s][i].form = "pointer"
    BY <1>0 DEF QueuesOK, QueueOK
  <2> QED BY <2>1, <2>2 DEF Pointers
<1>6. PICK d : d = CheckPending(r, c)
  OBVIOUS
<1>7. d = [clk |-> c, txns |-> <<>>, found |-> 0, queue |-> downstreamQueue[r]]
  BY <1>5, <1>6, NothingPending DEF Found
<1>8. d.clk = c /\ d.txns = <<>> /\ d.found = 0 /\ d.queue = downstreamQueue[r]
  BY SMTT(60), <1>7
<1>9. /\ localClock' = [localClock EXCEPT ![r] = d.clk]
      /\ downstreamQueue' = [downstreamQueue EXCEPT ![r] = d.queue]
      /\ db' = [db EXCEPT ![r] = [p \in Partitions |-> @[p] \o UpdatesOf(p, d.txns)]]
      /\ stableClk' = [stableClk EXCEPT ![r] = [p \in Partitions |->
                         IF d.found = 0 THEN @[p] ELSE Merge(@[p], d.clk)]]
  BY <1>3, <1>6 DEF FinishRemote
<1>10. /\ localClock' \in [Replicas -> Clock] /\ localClock'[r] = c
       /\ \A a \in Replicas \ {r} : localClock'[a] = localClock[a]
  BY <1>0, <1>4, <1>8, <1>9 DEF TypesOK
<1>11. downstreamQueue' = downstreamQueue
  <2>1. downstreamQueue \in [Replicas -> [Replicas -> Seq(Message)]]
    BY <1>0 DEF TypesOK
  <2> QED BY <1>8, <1>9, <2>1
<1>12. db' = db
  <2>1. db \in [Replicas -> [Partitions -> Seq(Ids)]]
    BY <1>0 DEF TypesOK
  <2>2. ASSUME NEW p \in Partitions
        PROVE  db[r][p] \o UpdatesOf(p, d.txns) = db[r][p]
    <3>0. PICK none : none = d.txns
      OBVIOUS
    <3>1. none \in Seq(Ids) /\ Len(none) = 0
      BY <1>8, <3>0
    <3>2. /\ UpdatesOf(p, none) \in Seq(Ids)
          /\ \A k \in 1 .. Len(UpdatesOf(p, none)) : \E i \in 1 .. Len(none) :
                UpdatesOf(p, none)[k] = none[i] /\ p \in TxnOf(none[i]).parts
      <4>1. \A i, k \in 1 .. Len(none) : i < k => none[i][2] < none[k][2]
        BY <3>1
      <4> QED BY <3>1, <4>1, UpdatesOfFacts
    <3>3. PICK U : U = UpdatesOf(p, none)
      OBVIOUS
    <3>4. U \in Seq(Ids) /\ \A k \in 1 .. Len(U) : FALSE
      BY <3>1, <3>2, <3>3
    <3>5. U = <<>>
      BY <3>4
    <3>6. db[r][p] \in Seq(Ids)
      BY <2>1
    <3> QED BY <3>0, <3>3, <3>5, <3>6
  <2>3. [p \in Partitions |-> db[r][p] \o UpdatesOf(p, d.txns)] = db[r]
    BY <2>1, <2>2
  <2>4. db' = [db EXCEPT ![r] = db[r]]
    BY <1>9, <2>3
  <2> QED BY <2>1, <2>4
<1>13. stableClk' = stableClk
  <2>1. stableClk \in [Replicas -> [Partitions -> Clock]]
    BY <1>0 DEF TypesOK
  <2>2. [p \in Partitions |-> IF d.found = 0 THEN stableClk[r][p] ELSE Merge(stableClk[r][p], d.clk)] = stableClk[r]
    BY <1>8, <2>1
  <2>3. stableClk' = [stableClk EXCEPT ![r] = stableClk[r]]
    BY <1>9, <2>2
  <2> QED BY <2>1, <2>3
<1>14. /\ remote' \in [Replicas -> {Idle} \cup RemoteJob] /\ remote'[r] = Idle
       /\ \A a \in Replicas \ {r} : remote'[a] = remote[a]
  <2>1. remote' = [remote EXCEPT ![r] = Idle]
    BY DEF FinishRemote
  <2>2. remote \in [Replicas -> {Idle} \cup RemoteJob]
    BY SMTT(60), <1>0 DEF TypesOK
  <2> QED BY <2>1, <2>2
<1>15. downstreamOpsCh' \in [Replicas -> Seq(SUBSET Partitions)]
  <2>1. downstreamOpsCh \in [Replicas -> Seq(SUBSET Partitions)]
    BY <1>0 DEF TypesOK
  <2>2. ASSUME NEW P \in SUBSET UNION {TxnOf(t).parts : t \in Range(j.txns)}
        PROVE  P \in SUBSET Partitions
    <3>1. ASSUME NEW t \in Range(j.txns)
          PROVE  TxnOf(t).parts \subseteq Partitions
      <4>1. PICK i \in 1 .. Len(j.txns) : j.txns[i] = t
        BY SMTT(60), <1>2, InRange
      <4>2. t[1] = j.from /\ t[2] \in 1 .. shipped[j.from]
        BY <1>0, <1>1, <4>1 DEF JobOK
      <4>3. log[j.from] \in Seq(Txn) /\ shipped[j.from] \in Nat /\ shipped[j.from] <= Len(log[j.from])
        BY <1>0, <1>2 DEF TypesOK, LogOK
      <4>4. t[2] \in 1 .. Len(log[j.from])
        BY <4>2, <4>3
      <4>5. log[j.from][t[2]] \in Txn
        BY <4>3, <4>4
      <4> QED BY <4>2, <4>5 DEF TxnOf, Txn
    <3> QED BY <3>1
  <2>3. CASE UNCHANGED downstreamOpsCh
    BY <2>1, <2>3
  <2>4. CASE \E P \in (SUBSET UNION {TxnOf(t).parts : t \in Range(remote[r].txns)}) \ {{}} :
                downstreamOpsCh' = [downstreamOpsCh EXCEPT ![r] = Append(@, P)]
    <3> DEFINE all == UNION {TxnOf(t).parts : t \in Range(j.txns)}
    <3>0. \E P \in (SUBSET all) \ {{}} : downstreamOpsCh' = [downstreamOpsCh EXCEPT ![r] = Append(@, P)]
      BY <2>4, Zenon
    <3>1. PICK P \in SUBSET all : downstreamOpsCh' = [downstreamOpsCh EXCEPT ![r] = Append(@, P)]
      <4> HIDE DEF all
      <4> QED BY <3>0
    <3>2. P \in SUBSET Partitions
      BY <2>2
    <3> QED BY <2>1, <3>1, <3>2
  <2> QED BY <2>3, <2>4 DEF FinishRemote
<1>16. UNCHANGED <<log, shipped, link>>
  BY DEF FinishRemote
<1> QED BY <1>1, <1>4, <1>10, <1>11, <1>12, <1>13, <1>14, <1>15, <1>16

LEMMA FinishKeeps ==
    ASSUME RemoteInv, NEW r \in Replicas, FinishRemote(r)
    PROVE  RemoteInv'
<1>0. TypesOK /\ LogOK /\ LinksOK /\ QueuesOK /\ ClocksAt(r) /\ CoverOK(r) /\ OwnOK(r)
  BY DEF RemoteInv, ClocksOK, ClocksAt, CoversOK, OwnsOK
<1>1. PICK j : j = remote[r]
  OBVIOUS
<1>2. /\ UNCHANGED <<log, shipped, link, db, stableClk, downstreamQueue>>
      /\ localClock' \in [Replicas -> Clock]
      /\ \A a \in Replicas \ {r} : localClock'[a] = localClock[a] /\ remote'[a] = remote[a]
      /\ \A q \in Replicas : localClock'[r][q] = localClock[r][q] \/ localClock'[r][q] = j.clk[q]
      /\ remote' \in [Replicas -> {Idle} \cup RemoteJob] /\ remote'[r] = Idle
      /\ downstreamOpsCh' \in [Replicas -> Seq(SUBSET Partitions)]
      /\ j \in RemoteJob /\ j # Idle /\ j.todo = {}
  BY ZenonT(60), <1>1, FinishFacts
<1>3. RemoteStep(r)
  BY <1>2 DEF RemoteStep, StaysAt
<1>4. LogGrows
  BY <1>3, RemoteStepGrows
<1>5. TypesOK'
  BY <1>0, <1>2 DEF TypesOK, Ids, Txn, Message, RemoteJob, Clock, Idle
<1>6. \A a \in Replicas : LinkOK(a, r)' /\ QueueOK(r, a)'
  BY <1>0, <1>2, <1>4, LinkStays, QueueStays DEF LinksOK, QueuesOK
<1>7. JobOK(r)'
  BY <1>2 DEF JobOK, Idle
<1>8. ClocksAt(r)'
  <2>1. /\ \A q \in Replicas : localClock[r][q] <= Len(log[q])
        /\ \A a \in Partitions : \A q \in Replicas : stableClk[r][a][q] <= Len(log[q])
        /\ \A q \in Replicas : j.clk[q] <= Len(log[q])
    BY <1>0, <1>1, <1>2 DEF ClocksAt, ClockOK
  <2>2. \A q \in Replicas : localClock'[r][q] <= Len(log[q])
    BY <1>2, <2>1
  <2>3. stableClk' = stableClk /\ log' = log /\ remote'[r] = Idle
    BY <1>2
  <2> QED BY <2>1, <2>2, <2>3 DEF ClocksAt, ClockOK, Idle
<1>9. OwnOK(r)' /\ \A p \in Partitions : DbOK(r, p)'
  <2>1. \A p \in Partitions : DbOK(r, p)
    BY DEF RemoteInv, DbsOK
  <2>2. OwnOK(r)'
    BY ZenonT(60), <1>0, <1>2 DEF OwnOK, InDb, Id
  <2> QED BY <1>2, <2>1, <2>2 DEF DbOK, Updates, Ids
<1>10. ASSUME NEW b \in Replicas \ {r}, NEW n \in 1 .. shipped[b]
       PROVE  PlaceOK(r, b, n)'
  <2>1. PlaceOK(r, b, n) /\ shipped' = shipped /\ log' = log /\ remote[r].todo = {}
    BY <1>1, <1>2 DEF RemoteInv, PlacesOK
  <2>2. \A k : /\ \A p : InDb(r, p, b, k)' <=> InDb(r, p, b, k)
               /\ ~(InJob(r, b, k))'
               /\ InLink(b, r, k)' <=> InLink(b, r, k)
               /\ InQueue(r, b, k)' <=> InQueue(r, b, k)
    BY <1>2 DEF InDb, InJob, InLink, InQueue, Id, Idle
  <2>3. (InLink(b, r, n))' => \A k \in 1 .. shipped'[b] :
           /\ (InQueue(r, b, k))' \/ (InJob(r, b, k))' => k < n
           /\ \A p \in Partitions : (InDb(r, p, b, k))' => k < n
    BY <2>1, <2>2 DEF PlaceOK
  <2>4. (InQueue(r, b, n))' => ~(InJob(r, b, n))' /\ \A p \in Partitions : ~(InDb(r, p, b, n))'
    BY <2>1, <2>2 DEF PlaceOK
  <2>5. \A p \in log'[b][n].parts : (InLink(b, r, n))' \/ (InQueue(r, b, n))' \/ (InDb(r, p, b, n))'
    BY <2>1, <2>2 DEF PlaceOK
  <2> QED BY <2>2, <2>3, <2>4, <2>5 DEF PlaceOK
<1>11. CoverOK(r)'
  <2> SUFFICES ASSUME ~OnHold(r), NEW b \in Replicas \ {r}
               PROVE  /\ CoversReceived(localClock[r], b, r)'
                      /\ \A q \in Partitions : CoversReceived(stableClk[r][q], b, r)'
    BY <1>2 DEF CoverOK, OnHold, Idle
  <2>1. /\ CoversReceived(localClock[r], b, r) /\ \A q \in Partitions : CoversReceived(stableClk[r][q], b, r)
        /\ CoversReceived(j.clk, b, r)
    BY <1>0, <1>1, <1>2 DEF CoverOK
  <2>2. shipped'[b] = shipped[b] /\ \A n : InLink(b, r, n)' <=> InLink(b, r, n)
    BY <1>2 DEF InLink
  <2>3. \A c : CoversReceived(c, b, r) => c[b] <= shipped'[b] /\ \A n \in 1 .. shipped'[b] : InLink(b, r, n)' => c[b] < n
    BY <2>2 DEF CoversReceived
  <2>4. localClock'[r][b] <= shipped'[b] /\ \A n \in 1 .. shipped'[b] : InLink(b, r, n)' => localClock'[r][b] < n
    <3>1. localClock'[r][b] = localClock[r][b] \/ localClock'[r][b] = j.clk[b]
      BY <1>2
    <3> QED BY <2>1, <2>3, <3>1
  <2>5. \A q \in Partitions :
           stableClk'[r][q][b] <= shipped'[b] /\ \A n \in 1 .. shipped'[b] : InLink(b, r, n)' => stableClk'[r][q][b] < n
    BY <1>2, <2>1, <2>3
  <2> QED BY <2>4, <2>5 DEF CoversReceived
<1> QED BY <1>3, <1>5, <1>6, <1>7, <1>8, <1>9, <1>10, <1>11, RemoteStepKeeps

-----------------------------------------------------------------------------
(* The invariant holds *)

LEMMA RemoteInvInit == Init => RemoteInv
<1> SUFFICES ASSUME Init
             PROVE  RemoteInv
  OBVIOUS
<1>1. TypesOK
  <2>1. NewTimestamp \in Clock
    BY DEF NewTimestamp, Clock
  <2>2. <<>> \in Seq(Txn) /\ <<>> \in Seq(Message) /\ <<>> \in Seq(Ids) /\ <<>> \in Seq(SUBSET Partitions)
    OBVIOUS
  <2> QED BY <2>1, <2>2 DEF Init, TypesOK
<1>2. \A s \in Replicas : /\ Len(log[s]) = 0 /\ shipped[s] = 0
                          /\ 1 .. Len(log[s]) = {} /\ 1 .. shipped[s] = {}
  <2>1. \A s \in Replicas : log[s] = <<>> /\ shipped[s] = 0
    BY DEF Init
  <2>2. Len(<<>>) = 0 /\ 1 .. 0 = {}
    OBVIOUS
  <2> QED BY <2>1, <2>2
<1>3. LogOK
  <2>1. ASSUME NEW s \in Replicas
        PROVE  shipped[s] <= Len(log[s])
    <3>1. shipped[s] = 0 /\ Len(log[s]) = 0
      BY <1>2
    <3> QED BY <3>1
  <2>2. ASSUME NEW s \in Replicas, NEW n \in 1 .. Len(log[s])
        PROVE  FALSE
    BY <1>2
  <2> QED BY <2>1, <2>2 DEF LogOK
<1>4. \A r, s \in Replicas : /\ link[s][r] = <<>> /\ Len(link[s][r]) = 0
                             /\ downstreamQueue[r][s] = <<>> /\ Len(downstreamQueue[r][s]) = 0
  BY DEF Init
<1>5. \A r \in Replicas : /\ remote[r] = Idle
                          /\ \A q \in Replicas : localClock[r][q] = 0
                          /\ \A p \in Partitions : /\ db[r][p] = <<>> /\ Len(db[r][p]) = 0
                                                   /\ \A q \in Replicas : stableClk[r][p][q] = 0
  BY DEF Init, NewTimestamp
<1>6. ClocksOK
  <2>1. ASSUME NEW r \in Replicas
        PROVE  /\ ClockOK(localClock[r])
               /\ \A p \in Partitions : ClockOK(stableClk[r][p])
    BY SMTT(60), <1>2, <1>5 DEF ClockOK
  <2> QED BY <1>5, <2>1 DEF ClocksOK
<1>7. LinksOK /\ QueuesOK /\ JobsOK /\ DbsOK /\ OwnsOK
  BY <1>2, <1>4, <1>5 DEF LinksOK, LinkOK, QueuesOK, QueueOK, JobsOK, JobOK, DbsOK, DbOK, OwnsOK, OwnOK
<1>8. PlacesOK
  <2>1. ASSUME NEW s \in Replicas, NEW n \in 1 .. shipped[s]
        PROVE  FALSE
    BY <1>2
  <2> QED BY <2>1 DEF PlacesOK
<1>9. CoversOK
  <2>1. ASSUME NEW r \in Replicas, NEW s \in Replicas
        PROVE  /\ CoversReceived(localClock[r], s, r)
               /\ \A p \in Partitions : CoversReceived(stableClk[r][p], s, r)
    <3>1. shipped[s] = 0 /\ 1 .. shipped[s] = {}
      BY <1>2
    <3>2. localClock[r][s] = 0 /\ \A p \in Partitions : stableClk[r][p][s] = 0
      BY <1>5
    <3> QED BY <3>1, <3>2 DEF CoversReceived
  <2> QED BY <1>5, <2>1 DEF CoversOK, CoverOK
<1> QED BY <1>1, <1>3, <1>6, <1>7, <1>8, <1>9 DEF RemoteInv

\* A step of handleRemoteMsgs with a message
LEMMA HandleKeeps ==
    ASSUME RemoteInv, NEW r \in Replicas, NEW s \in Replicas \ {r}, HandleRemoteMsg(r, s)
    PROVE  RemoteInv'
<1>1. PICK m : m = Head(link[s][r])
  OBVIOUS
<1>2. CASE CanApply(m, r) /\ remote' = [remote EXCEPT ![r] = Job(m)] /\ UNCHANGED downstreamQueue
  BY <1>1, <1>2, ApplyKeeps
<1>3. CASE downstreamQueue' = [downstreamQueue EXCEPT ![r][s] = Hold(@, m)] /\ UNCHANGED remote
  BY <1>1, <1>3, HoldKeeps
<1> QED BY <1>1, <1>2, <1>3 DEF HandleRemoteMsg

LEMMA CommitsKeep ==
    ASSUME RemoteInv, NEW r \in Replicas
    PROVE  /\ \A P \in SUBSET Partitions : Commit(r, P) => RemoteInv' /\ \E ts : CommitStep(r, P, ts)
           /\ HandleDownstreamGeneratedOps(r) =>
                 RemoteInv' /\ \E P \in SUBSET Partitions : \E ts : CommitStep(r, P, ts)
<1>0. downstreamOpsCh \in [Replicas -> Seq(SUBSET Partitions)]
  BY DEF RemoteInv, TypesOK
<1>1. ASSUME NEW P \in SUBSET Partitions, Commit(r, P)
      PROVE  RemoteInv' /\ \E ts : CommitStep(r, P, ts)
  <2>1. CommitAt(r, P) /\ UNCHANGED <<shipped, link, downstreamQueue, remote, downstreamOpsCh>>
    BY <1>1 DEF Commit
  <2> QED BY <1>0, <2>1, CommitKeeps
<1>2. ASSUME HandleDownstreamGeneratedOps(r)
      PROVE  RemoteInv' /\ \E P \in SUBSET Partitions : \E ts : CommitStep(r, P, ts)
  <2>1. PICK P : P = Head(downstreamOpsCh[r])
    OBVIOUS
  <2>2. /\ downstreamOpsCh[r] # <<>> /\ CommitAt(r, P)
        /\ UNCHANGED <<shipped, link, downstreamQueue, remote>>
        /\ downstreamOpsCh' = [downstreamOpsCh EXCEPT ![r] = Tail(@)]
    BY <1>2, <2>1 DEF HandleDownstreamGeneratedOps
  <2>3. P \in SUBSET Partitions /\ Tail(downstreamOpsCh[r]) \in Seq(SUBSET Partitions)
    BY <1>0, <2>1, <2>2
  <2>4. downstreamOpsCh' \in [Replicas -> Seq(SUBSET Partitions)]
    BY <1>0, <2>2, <2>3
  <2> QED BY <2>2, <2>3, <2>4, CommitKeeps
<1> QED BY <1>1, <1>2

LEMMA RemoteInvNext ==
    ASSUME RemoteInv, [Next]_vars
    PROVE  RemoteInv'
<1>1. CASE UNCHANGED vars
  <2>0. UNCHANGED <<log, shipped, link, localClock, stableClk, db, downstreamQueue, remote, downstreamOpsCh>>
    BY <1>1 DEF vars, tmVars
  <2>1. TypesOK'
    BY <2>0 DEF RemoteInv, TypesOK, Ids, Txn, Message, RemoteJob, Clock, Idle
  <2>2. \A a \in Replicas : StaysAt(a)
    BY <2>0 DEF StaysAt
  <2>3. ASSUME NEW r \in Replicas
        PROVE  /\ LogGrows /\ LogOK' /\ CoverOK(r)' /\ ClocksAt(r)' /\ OwnOK(r)'
               /\ \A p \in Partitions : DbOK(r, p)'
    <3>1. RemoteStep(r)
      BY <2>0, <2>2 DEF RemoteStep
    <3> QED BY <2>2, <3>1, RemoteStepGrows, OtherCovers
  <2>4. LogGrows /\ LogOK'
    <3>1. \A s \in Replicas : log[s] \in Seq(Txn) /\ shipped[s] \in Nat
      BY DEF RemoteInv, TypesOK
    <3>2. LogGrows
      BY <2>0, <3>1 DEF LogGrows
    <3>3. LogOK'
      BY <2>0 DEF RemoteInv, LogOK, TxnOK, Updates, Ids
    <3> QED BY <3>2, <3>3
  <2>5. LinksOK' /\ QueuesOK' /\ JobsOK'
    BY <2>0, <2>4, MessagesStay DEF RemoteInv
  <2>6. PlacesOK'
    BY <2>0, <2>2, OtherPlaces DEF PlacesOK
  <2>7. ClocksOK' /\ DbsOK' /\ OwnsOK' /\ CoversOK'
    BY <2>3 DEF ClocksOK, ClocksAt, DbsOK, OwnsOK, CoversOK, Idle
  <2> QED BY <2>1, <2>4, <2>5, <2>6, <2>7 DEF RemoteInv
<1>2. ASSUME NEW r \in Replicas, NEW P \in (SUBSET Partitions) \ {{}}, Commit(r, P)
      PROVE  RemoteInv'
  BY <1>2, CommitsKeep
<1>3. ASSUME NEW r \in Replicas, HandleDownstreamGeneratedOps(r)
      PROVE  RemoteInv'
  BY <1>3, CommitsKeep
<1>4. ASSUME NEW r \in Replicas, Ship(r)
      PROVE  RemoteInv'
  BY <1>4, ShipKeeps
<1>5. ASSUME NEW r \in Replicas, NEW s \in Replicas \ {r}, HandleRemoteMsg(r, s)
      PROVE  RemoteInv'
  BY <1>5, HandleKeeps
<1>6. ASSUME NEW r \in Replicas, NEW p \in Partitions, PartitionApplies(r, p)
      PROVE  RemoteInv'
  BY <1>6, PartitionKeeps
<1>7. ASSUME NEW r \in Replicas, FinishRemote(r)
      PROVE  RemoteInv'
  BY <1>7, FinishKeeps
<1> QED BY <1>1, <1>2, <1>3, <1>4, <1>5, <1>6, <1>7 DEF Next, Remote

LEMMA RemoteInvHolds == Spec => []RemoteInv
BY RemoteInvInit, RemoteInvNext, PTL DEF Spec

-----------------------------------------------------------------------------
(* Applied once *)

\* At most one of the messages carries n: it is there once or not at all.
LEMMA OneCopy ==
    ASSUME NEW msgs \in Seq(Message), NEW s, NEW n, \A i \in 1 .. Len(msgs) : msgs[i].from = s,
           \A i, j \in 1 .. Len(msgs) : InMessage(msgs[i], n) /\ InMessage(msgs[j], n) => i = j
    PROVE  Copies(msgs, Id(s, n)) = IF InMessages(msgs, n) THEN 1 ELSE 0
<1> DEFINE Places == {i \in DOMAIN msgs : msgs[i].from = s /\ n \in Range(msgs[i].txns)}
<1>1. Copies(msgs, Id(s, n)) = Cardinality(Places)
  BY DEF Copies, Id
<1>2. DOMAIN msgs = 1 .. Len(msgs)
  OBVIOUS
<1>3. \A i \in 1 .. Len(msgs) : n \in Range(msgs[i].txns) <=> InMessage(msgs[i], n)
  <2>1. ASSUME NEW i \in 1 .. Len(msgs)
        PROVE  n \in Range(msgs[i].txns) <=> InMessage(msgs[i], n)
    <3>1. msgs[i] \in Message
      OBVIOUS
    <3>2. msgs[i].txns \in Seq(Nat)
      BY <3>1 DEF Message
    <3> QED BY <3>2, InRange DEF InMessage
  <2> QED BY <2>1
<1>4. \A i : i \in Places <=> i \in 1 .. Len(msgs) /\ InMessage(msgs[i], n)
  BY <1>2, <1>3
<1>5. InMessages(msgs, n) <=> \E i \in 1 .. Len(msgs) : InMessage(msgs[i], n)
  BY DEF InMessages, InMessage
<1> HIDE DEF Places
<1>6. CASE InMessages(msgs, n)
  <2>1. PICK i \in 1 .. Len(msgs) : InMessage(msgs[i], n)
    BY <1>5, <1>6
  <2>2. Places = {i}
    BY <1>4, <2>1
  <2>3. Cardinality(Places) = 1
    BY <2>2, FS_Singleton
  <2> QED BY <1>1, <1>6, <2>3
<1>7. CASE ~InMessages(msgs, n)
  <2>1. Places = {}
    BY <1>4, <1>5, <1>7
  <2>2. Cardinality(Places) = 0
    BY <2>1, FS_EmptySet
  <2> QED BY <1>1, <1>7, <2>2
<1> QED BY <1>6, <1>7

LEMMA OneEntry ==
    ASSUME NEW seq \in Seq(Ids), NEW t, \A i, j \in 1 .. Len(seq) : i # j => seq[i] # seq[j]
    PROVE  Cardinality({i \in DOMAIN seq : seq[i] = t}) = IF \E i \in 1 .. Len(seq) : seq[i] = t THEN 1 ELSE 0
<1> DEFINE Places == {i \in DOMAIN seq : seq[i] = t}
<1>1. \A i : i \in Places <=> i \in 1 .. Len(seq) /\ seq[i] = t
  OBVIOUS
<1> HIDE DEF Places
<1>2. CASE \E i \in 1 .. Len(seq) : seq[i] = t
  <2>1. PICK i \in 1 .. Len(seq) : seq[i] = t
    BY <1>2
  <2>2. Places = {i}
    BY <1>1, <2>1
  <2>3. Cardinality(Places) = 1
    BY <2>2, FS_Singleton
  <2> QED BY <1>2, <2>3 DEF Places
<1>3. CASE ~\E i \in 1 .. Len(seq) : seq[i] = t
  <2>1. Places = {}
    BY <1>1, <1>3
  <2>2. Cardinality(Places) = 0
    BY <2>1, FS_EmptySet
  <2> QED BY <1>3, <2>2 DEF Places
<1> QED BY <1>2, <1>3

LEMMA CopiesOfOne ==
    ASSUME RemoteInv, NEW r \in Replicas, NEW s \in Replicas, NEW n
    PROVE  /\ Copies(link[s][r], Id(s, n)) = IF InLink(s, r, n) THEN 1 ELSE 0
           /\ Copies(downstreamQueue[r][s], Id(s, n)) = IF InQueue(r, s, n) THEN 1 ELSE 0
<1>0. TypesOK /\ LinkOK(s, r) /\ QueueOK(r, s)
  BY DEF RemoteInv, LinksOK, QueuesOK
<1>1. Copies(link[s][r], Id(s, n)) = IF InLink(s, r, n) THEN 1 ELSE 0
  <2>1. PICK x : x = link[s][r]
    OBVIOUS
  <2>2. x \in Seq(Message) /\ \A i \in 1 .. Len(x) : MessageOK(x[i], s)
    BY <1>0, <2>1 DEF TypesOK, LinkOK
  <2>3. ASSUME NEW i \in 1 .. Len(x), NEW j \in 1 .. Len(x), i < j
        PROVE  ~(InMessage(x[i], n) /\ InMessage(x[j], n))
    <3>1. \A b \in 1 .. Len(x[j].txns), a \in 1 .. Len(x[i].txns) : x[i].txns[a] < x[j].txns[b]
      BY <1>0, <2>1, <2>3 DEF LinkOK
    <3>2. \A a \in 1 .. Len(x[i].txns) : x[i].txns[a] \in 1 .. shipped[s]
      BY <2>2 DEF MessageOK
    <3>3. shipped[s] \in Nat /\ \A k \in 1 .. shipped[s] : ~(k < k)
      BY <1>0 DEF TypesOK
    <3> QED BY <3>1, <3>2, <3>3 DEF InMessage
  <2>4. \A i, j \in 1 .. Len(x) : InMessage(x[i], n) /\ InMessage(x[j], n) => i = j
    <3>1. \A i, j \in 1 .. Len(x) : i = j \/ i < j \/ j < i
      BY <2>2
    <3> QED BY <2>3, <3>1
  <2>5. \A i \in 1 .. Len(x) : x[i].from = s
    BY <2>2 DEF MessageOK
  <2>6. Copies(x, Id(s, n)) = IF InMessages(x, n) THEN 1 ELSE 0
    BY <2>2, <2>4, <2>5, OneCopy
  <2> QED BY <2>1, <2>6 DEF InLink
<1>2. Copies(downstreamQueue[r][s], Id(s, n)) = IF InQueue(r, s, n) THEN 1 ELSE 0
  <2>1. PICK x : x = downstreamQueue[r][s]
    OBVIOUS
  <2>2. x \in Seq(Message) /\ \A i \in 1 .. Len(x) : MessageOK(x[i], s)
    BY <1>0, <2>1 DEF TypesOK, QueueOK
  <2>3. \A i, j \in 1 .. Len(x) : i # j =>
           \A a \in 1 .. Len(x[i].txns), b \in 1 .. Len(x[j].txns) : x[i].txns[a] # x[j].txns[b]
    BY SMTT(60), <1>0, <2>1 DEF QueueOK
  <2>4. \A i, j \in 1 .. Len(x) : InMessage(x[i], n) /\ InMessage(x[j], n) => i = j
    BY <2>3 DEF InMessage
  <2>5. \A i \in 1 .. Len(x) : x[i].from = s
    BY <2>2 DEF MessageOK
  <2>6. Copies(x, Id(s, n)) = IF InMessages(x, n) THEN 1 ELSE 0
    BY <2>2, <2>4, <2>5, OneCopy
  <2> QED BY <2>1, <2>6 DEF InQueue
<1> QED BY <1>1, <1>2

LEMMA RemoteInvAppliedOnce == RemoteInv => AppliedOnce
<1> SUFFICES ASSUME RemoteInv, NEW r \in Replicas, NEW s \in Replicas, NEW p \in Partitions, r # s,
                    NEW n \in DOMAIN log[s], p \in log[s][n].parts
             PROVE  Copies(link[s][r], Id(s, n)) + Copies(downstreamQueue[r][s], Id(s, n))
                      + (IF remote[r] # Idle /\ p \in remote[r].todo /\ Id(s, n) \in Range(remote[r].txns)
                         THEN 1 ELSE 0)
                      + Cardinality({i \in DOMAIN db[r][p] : db[r][p][i] = Id(s, n)})
                    = IF n <= shipped[s] THEN 1 ELSE 0
  BY DEF AppliedOnce
<1> DEFINE toDo == remote[r] # Idle /\ p \in remote[r].todo /\ Id(s, n) \in Range(remote[r].txns)
           todoHere == InJob(r, s, n) /\ p \in remote[r].todo
<1>0. TypesOK /\ DbOK(r, p)
  BY DEF RemoteInv, DbsOK
<1>1. n \in Nat /\ n >= 1 /\ shipped[s] \in Nat
  <2>1. log[s] \in Seq(Txn)
    BY <1>0 DEF TypesOK
  <2>2. DOMAIN log[s] = 1 .. Len(log[s]) /\ Len(log[s]) \in Nat
    BY <2>1
  <2>3. n \in Nat /\ n >= 1
    BY <2>2
  <2> QED BY <1>0, <2>3 DEF TypesOK
<1>2. Cardinality({i \in DOMAIN db[r][p] : db[r][p][i] = Id(s, n)}) = IF InDb(r, p, s, n) THEN 1 ELSE 0
  <2>1. PICK x : x = db[r][p]
    OBVIOUS
  <2>2. x \in Seq(Ids) /\ \A i, j \in 1 .. Len(x) : i # j => x[i] # x[j]
    BY <1>0, <2>1 DEF TypesOK, DbOK
  <2>3. Cardinality({i \in DOMAIN x : x[i] = Id(s, n)}) = IF \E i \in 1 .. Len(x) : x[i] = Id(s, n) THEN 1 ELSE 0
    BY <2>2, OneEntry
  <2> QED BY <2>1, <2>3 DEF InDb
<1>3. toDo <=> todoHere
  <2>1. remote[r] # Idle => remote[r].txns \in Seq(Ids)
    BY <1>0, ClocksTyped DEF RemoteJob
  <2>2. remote[r] # Idle => (Id(s, n) \in Range(remote[r].txns) <=> \E k \in 1 .. Len(remote[r].txns) : remote[r].txns[k] = Id(s, n))
    BY <2>1, InRange
  <2> QED BY <2>2 DEF InJob
<1>4. /\ Copies(link[s][r], Id(s, n)) = IF InLink(s, r, n) THEN 1 ELSE 0
      /\ Copies(downstreamQueue[r][s], Id(s, n)) = IF InQueue(r, s, n) THEN 1 ELSE 0
  BY CopiesOfOne
<1>5. (IF InLink(s, r, n) THEN 1 ELSE 0) + (IF InQueue(r, s, n) THEN 1 ELSE 0) + (IF todoHere THEN 1 ELSE 0)
         + (IF InDb(r, p, s, n) THEN 1 ELSE 0) = IF n <= shipped[s] THEN 1 ELSE 0
  <2>1. CASE n <= shipped[s]
    <3>1. n \in 1 .. shipped[s]
      BY <1>1, <2>1
    <3>2. PlaceOK(r, s, n)
      BY <3>1 DEF RemoteInv, PlacesOK
    <3>3. InLink(s, r, n) => ~InQueue(r, s, n) /\ ~InJob(r, s, n) /\ ~InDb(r, p, s, n)
      BY <1>1, <3>1, <3>2 DEF PlaceOK
    <3>4. InQueue(r, s, n) => ~InJob(r, s, n) /\ ~InDb(r, p, s, n)
      BY <3>2 DEF PlaceOK
    <3>5. todoHere => ~InDb(r, p, s, n)
      BY <3>2 DEF PlaceOK
    <3>6. InLink(s, r, n) \/ InQueue(r, s, n) \/ InDb(r, p, s, n) \/ todoHere
      BY <3>2 DEF PlaceOK
    <3> QED BY <2>1, <3>3, <3>4, <3>5, <3>6
  <2>2. CASE ~(n <= shipped[s])
    <3>1. n \notin 1 .. shipped[s]
      BY <1>1, <2>2
    <3>2. ~InLink(s, r, n) /\ ~InQueue(r, s, n) /\ ~InJob(r, s, n) /\ ~InDb(r, p, s, n)
      BY <3>1, PlacesSent
    <3> QED BY <2>2, <3>2
  <2> QED BY <2>1, <2>2
<1>6. (IF toDo THEN 1 ELSE 0) = IF todoHere THEN 1 ELSE 0
  BY <1>3
<1> QED BY <1>2, <1>4, <1>5, <1>6

\* A transaction that was sent is in one place for every partition it updates, whatever
\* sendTxns groups, handleRemoteMsgs holds back and the partitions take: no path loses one
\* or applies one twice.
THEOREM RemoteAppliedOnce == Spec => []AppliedOnce
BY RemoteInvHolds, RemoteInvAppliedOnce, PTL

-----------------------------------------------------------------------------
(* The clocks *)

\* What a clock covers is applied, or is being applied now.
LEMMA CoveredIsHere ==
    ASSUME RemoteInv, NEW r \in Replicas, ~OnHold(r), NEW s \in Replicas \ {r}, NEW c \in Clock,
           CoversReceived(c, s, r), NEW n \in 1 .. Len(log[s]), n <= c[s], NEW p \in log[s][n].parts
    PROVE  InDb(r, p, s, n) \/ (InJob(r, s, n) /\ p \in remote[r].todo)
<1>1. c[s] <= shipped[s] /\ c[s] \in Nat /\ shipped[s] \in Nat /\ Len(log[s]) \in Nat
  BY DEF CoversReceived, Clock, RemoteInv, TypesOK
<1>2. n \in 1 .. shipped[s] /\ ~(c[s] < n)
  BY <1>1
<1>3. PlaceOK(r, s, n)
  BY <1>2 DEF RemoteInv, PlacesOK
<1>4. ~InLink(s, r, n)
  BY <1>2 DEF CoversReceived
<1>5. ~InQueue(r, s, n)
  <2>1. downstreamQueue[r][s] = <<>>
    BY DEF OnHold
  <2>2. Len(downstreamQueue[r][s]) = 0
    BY <2>1
  <2> QED BY <2>2 DEF InQueue, InMessages
<1> QED BY <1>3, <1>4, <1>5 DEF PlaceOK

LEMMA RemoteInvClockIsApplied == RemoteInv => ClockIsApplied
<1> SUFFICES ASSUME RemoteInv, NEW r \in Replicas, remote[r] = Idle, ~OnHold(r), NEW p \in Partitions
             PROVE  HasAll(r, p, localClock[r]) /\ HasAll(r, p, stableClk[r][p])
  BY DEF ClockIsApplied
<1>0. TypesOK /\ LogOK /\ CoverOK(r) /\ OwnOK(r)
  BY DEF RemoteInv, CoversOK, OwnsOK
<1>1. ASSUME NEW c \in Clock, \A s \in Replicas \ {r} : CoversReceived(c, s, r)
      PROVE  \A t \in AllIds : p \in TxnOf(t).parts /\ TxnOf(t).clk[t[1]] <= c[t[1]] => t \in Range(db[r][p])
  <2>1. ASSUME NEW t \in AllIds, p \in TxnOf(t).parts, TxnOf(t).clk[t[1]] <= c[t[1]]
        PROVE  t \in Range(db[r][p])
    <3>1. PICK s \in Replicas : t \in {s} \X DOMAIN log[s]
      BY DEF AllIds
    <3>2. PICK n \in DOMAIN log[s] : t = <<s, n>>
      BY <3>1
    <3>3. log[s] \in Seq(Txn)
      BY <1>0 DEF TypesOK
    <3>4. n \in 1 .. Len(log[s])
      BY <3>3
    <3>5. t[1] = s /\ t[2] = n /\ t = Id(s, n)
      BY <3>2 DEF Id
    <3>6. TxnOK(s, n)
      BY <1>0, <3>4 DEF LogOK
    <3>7. p \in log[s][n].parts /\ n <= c[s]
      BY <2>1, <3>5, <3>6 DEF TxnOf, TxnOK
    <3>8. InDb(r, p, s, n)
      <4>1. CASE s = r
        BY <1>0, <3>4, <3>7, <4>1 DEF OwnOK
      <4>2. CASE s # r
        <5>1. ~InJob(r, s, n)
          BY DEF InJob
        <5>2. CoversReceived(c, s, r)
          BY <1>1, <4>2
        <5> QED BY <3>4, <3>7, <4>2, <5>1, <5>2, CoveredIsHere
      <4> QED BY <4>1, <4>2
    <3>9. db[r][p] \in Seq(Ids)
      BY <1>0 DEF TypesOK
    <3> QED BY <3>5, <3>8, <3>9, InRange DEF InDb
  <2> QED BY <2>1
<1>2. \A s \in Replicas \ {r} : CoversReceived(localClock[r], s, r) /\ CoversReceived(stableClk[r][p], s, r)
  BY <1>0 DEF CoverOK
<1>3. localClock[r] \in Clock /\ stableClk[r][p] \in Clock
  BY <1>0, ClocksTyped
<1> QED BY <1>1, <1>2, <1>3 DEF HasAll

\* "transactional causal consistency" (README.md): the clock a client's transaction starts
\* from and the clock of every partition cover nothing the partitions have not applied, at a
\* replica where checkPendingRemoteTxns has nothing on hold.
THEOREM RemoteClockIsApplied == Spec => []ClockIsApplied
BY RemoteInvHolds, RemoteInvClockIsApplied, PTL

-----------------------------------------------------------------------------
(* Causal order *)

\* Every entry of p's database comes after what its transaction saw there and covers.
OrderedAt(r, p) ==
    \A i \in 1 .. Len(db[r][p]) : \A t \in TxnOf(db[r][p][i]).saw[p] :
        TxnOf(t).clk[t[1]] <= TxnOf(db[r][p][i]).clk[t[1]] =>
            \E j \in 1 .. Len(db[r][p]) : j < i /\ db[r][p][j] = t

CausalInv == RemoteInv /\ \A r \in Replicas, p \in Partitions : ~OnHold(r) => OrderedAt(r, p)

\* The same of the i-th entry of seq, in the logs after the step
OrderedNext(seq, i, p) ==
    \A t \in log'[seq[i][1]][seq[i][2]].saw[p] :
        log'[t[1]][t[2]].clk[t[1]] <= log'[seq[i][1]][seq[i][2]].clk[t[1]] =>
            \E j \in 1 .. Len(seq) : j < i /\ seq[j] = t

\* What a transaction saw is there and stays as it is.
LEMMA SawStays ==
    ASSUME RemoteInv, LogGrows, NEW u, NEW p, Updates(u, p)
    PROVE  /\ log'[u[1]][u[2]] = log[u[1]][u[2]]
           /\ \A t \in log[u[1]][u[2]].saw[p] : /\ Updates(t, p) /\ log'[t[1]][t[2]] = log[t[1]][t[2]]
                                                /\ log[t[1]][t[2]].clk[t[1]] = t[2]
                                                /\ t[1] = u[1] => t[2] < u[2]
<1>1. ASSUME NEW v, Updates(v, p)
      PROVE  /\ v[1] \in Replicas /\ v[2] \in 1 .. Len(log[v[1]]) /\ p \in log[v[1]][v[2]].parts
             /\ log'[v[1]][v[2]] = log[v[1]][v[2]] /\ TxnOK(v[1], v[2])
  <2>1. v[1] \in Replicas /\ v[2] \in 1 .. Len(log[v[1]]) /\ p \in log[v[1]][v[2]].parts
    BY <1>1 DEF Updates, Ids
  <2>2. log'[v[1]][v[2]] = log[v[1]][v[2]]
    BY <2>1 DEF LogGrows
  <2>3. TxnOK(v[1], v[2])
    BY <2>1 DEF RemoteInv, LogOK
  <2> QED BY <2>1, <2>2, <2>3
<1>2. ASSUME NEW t \in log[u[1]][u[2]].saw[p]
      PROVE  Updates(t, p) /\ (t[1] = u[1] => t[2] < u[2])
  <2>1. TxnOK(u[1], u[2]) /\ p \in log[u[1]][u[2]].parts
    BY <1>1
  <2> QED BY <2>1 DEF TxnOK
<1>3. \A v : Updates(v, p) => log[v[1]][v[2]].clk[v[1]] = v[2]
  BY SMTT(60), <1>1 DEF TxnOK
<1> QED BY <1>1, <1>2, <1>3

LEMMA OrderedGrows ==
    ASSUME RemoteInv, LogGrows, NEW r \in Replicas, NEW p \in Partitions, OrderedAt(r, p),
           NEW x, x = db[r][p], NEW y, y = db'[r][p], Len(x) \in Nat, Len(y) \in Nat, Len(x) <= Len(y),
           \A i \in 1 .. Len(x) : y[i] = x[i],
           \A i \in 1 .. Len(y) : i \notin 1 .. Len(x) => OrderedNext(y, i, p)
    PROVE  OrderedAt(r, p)'
<1>1. ASSUME NEW i \in 1 .. Len(x)
      PROVE  OrderedNext(y, i, p)
  <2>1. PICK u : u = x[i] /\ u = y[i]
    OBVIOUS
  <2>2. Updates(u, p)
    BY <2>1 DEF RemoteInv, DbsOK, DbOK
  <2>3. /\ log'[u[1]][u[2]] = log[u[1]][u[2]]
        /\ \A t \in log[u[1]][u[2]].saw[p] : log'[t[1]][t[2]] = log[t[1]][t[2]]
    BY SMTT(60), <2>2, SawStays
  <2>4. \A t \in log[u[1]][u[2]].saw[p] : log[t[1]][t[2]].clk[t[1]] <= log[u[1]][u[2]].clk[t[1]] =>
            \E j \in 1 .. Len(x) : j < i /\ x[j] = t
    BY ZenonT(60), <2>1 DEF OrderedAt, TxnOf
  <2>5. \A j \in 1 .. Len(x) : j \in 1 .. Len(y)
    OBVIOUS
  <2>6. ASSUME NEW t \in log'[u[1]][u[2]].saw[p], log'[t[1]][t[2]].clk[t[1]] <= log'[u[1]][u[2]].clk[t[1]]
        PROVE  \E j \in 1 .. Len(y) : j < i /\ y[j] = t
    <3>1. t \in log[u[1]][u[2]].saw[p] /\ log[t[1]][t[2]].clk[t[1]] <= log[u[1]][u[2]].clk[t[1]]
      BY SMTT(60), <2>3, <2>6
    <3>2. PICK j \in 1 .. Len(x) : j < i /\ x[j] = t
      BY <2>4, <3>1
    <3> QED BY <2>5, <3>2
  <2> QED BY ZenonT(60), <2>1, <2>6 DEF OrderedNext
<1>2. \A i \in 1 .. Len(y) : OrderedNext(y, i, p)
  BY SMTT(60), <1>1
<1>3. ASSUME NEW i \in 1 .. Len(db'[r][p]), NEW t \in log'[db'[r][p][i][1]][db'[r][p][i][2]].saw[p],
             log'[t[1]][t[2]].clk[t[1]] <= log'[db'[r][p][i][1]][db'[r][p][i][2]].clk[t[1]]
      PROVE  \E j \in 1 .. Len(db'[r][p]) : j < i /\ db'[r][p][j] = t
  <2>1. i \in 1 .. Len(y) /\ y[i] = db'[r][p][i]
    BY SMTT(60)
  <2>2. \E j \in 1 .. Len(y) : j < i /\ y[j] = t
    BY ZenonT(60), <1>2, <1>3, <2>1 DEF OrderedNext
  <2> QED BY SMTT(60), <2>2
<1> QED BY ZenonT(60), <1>3 DEF OrderedAt, TxnOf

LEMMA OrderedStays ==
    ASSUME RemoteInv, LogGrows, NEW r \in Replicas, NEW p \in Partitions, OrderedAt(r, p), db'[r][p] = db[r][p]
    PROVE  OrderedAt(r, p)'
<1>1. PICK x : x = db[r][p] /\ x = db'[r][p]
  OBVIOUS
<1>2. x \in Seq(Ids)
  BY <1>1 DEF RemoteInv, TypesOK
<1>3. Len(x) \in Nat /\ Len(x) <= Len(x)
  BY <1>2
<1>4. \A i \in 1 .. Len(x) : i \notin 1 .. Len(x) => OrderedNext(x, i, p)
  OBVIOUS
<1> QED BY <1>1, <1>3, <1>4, OrderedGrows

\* A commit comes after all that its partitions have.
LEMMA CommitOrdered ==
    ASSUME RemoteInv, NEW r \in Replicas, NEW P \in SUBSET Partitions, NEW ts, CommitStep(r, P, ts),
           NEW a \in Replicas, NEW p \in Partitions, OrderedAt(a, p)
    PROVE  OrderedAt(a, p)'
<1>0. TypesOK /\ LogGrows /\ CommitWith(r, P, ts) /\ ts \in Clock
  BY CommitGrows DEF RemoteInv, CommitStep
<1>1. CASE a # r \/ p \notin P
  <2>1. db'[a][p] = db[a][p]
    BY ZenonT(60), <1>0, <1>1, CommitDbFacts
  <2> QED BY <1>0, <2>1, OrderedStays
<1>2. CASE a = r /\ p \in P
  <2>1. PICK n : n = Len(log[r]) + 1
    OBVIOUS
  <2>2. PICK x : x = db[r][p]
    OBVIOUS
  <2>3. PICK y : y = db'[r][p]
    OBVIOUS
  <2>4. y = Append(x, Id(r, n))
    BY ZenonT(60), <1>0, <1>2, <2>1, <2>2, <2>3, CommitDbFacts
  <2>5. log'[r][n].saw[p] = Range(x)
    <3>1. log'[r][n] = [clk |-> ts, parts |-> P, saw |-> [q \in P |-> Range(db[r][q])]]
      BY <1>0, <2>1, CommitFacts
    <3>2. log'[r][n].saw = [q \in P |-> Range(db[r][q])]
      BY <3>1
    <3> QED BY <1>2, <2>2, <3>2
  <2>6. x \in Seq(Ids) /\ Id(r, n) \in Ids
    <3>1. log[r] \in Seq(Txn) /\ p \in Partitions
      BY <1>0, <1>2 DEF TypesOK
    <3>2. n \in Nat
      BY <2>1, <3>1
    <3>3. Id(r, n) \in Ids
      BY <3>2 DEF Id, Ids
    <3>4. db[r] \in [Partitions -> Seq(Ids)]
      BY <1>0 DEF TypesOK
    <3> QED BY <2>2, <3>1, <3>3, <3>4
  <2>7. /\ Len(x) \in Nat /\ Len(y) = Len(x) + 1
        /\ \A i \in 1 .. Len(x) : y[i] = x[i] /\ i \in 1 .. Len(y)
        /\ y[Len(x) + 1] = Id(r, n)
        /\ \A i \in 1 .. Len(y) : i \in 1 .. Len(x) \/ i = Len(x) + 1
    BY <2>4, <2>6, AppendFacts
  <2>8. ASSUME NEW i \in 1 .. Len(y), i \notin 1 .. Len(x)
        PROVE  OrderedNext(y, i, p)
    <3>1. i = Len(x) + 1
      BY <2>7, <2>8
    <3>2. y[i][1] = r /\ y[i][2] = n
      BY <2>7, <3>1 DEF Id
    <3>3. ASSUME NEW t \in Range(x)
          PROVE  \E j \in 1 .. Len(y) : j < i /\ y[j] = t
      <4>1. PICK j \in 1 .. Len(x) : x[j] = t
        BY <2>6, InRange
      <4>2. j < i /\ j \in 1 .. Len(y) /\ y[j] = t
        BY <2>7, <3>1, <4>1
      <4> QED BY <4>2
    <3> QED BY <2>5, <3>2, <3>3 DEF OrderedNext
  <2>9. Len(y) \in Nat /\ Len(x) <= Len(y) /\ \A i \in 1 .. Len(x) : y[i] = x[i]
    BY <2>7
  <2> QED BY <1>0, <1>2, <2>2, <2>3, <2>7, <2>8, <2>9, OrderedGrows
<1> QED BY <1>1, <1>2

\* What a remote transaction saw and covers is at r before it: its own replica's by the order
\* of the messages, r's own since it committed, a third replica's since the clock that let
\* the message in covers it.
LEMMA PartitionOrdered ==
    ASSUME RemoteInv, NEW r \in Replicas, NEW p \in Partitions, NEW j, NEW U, PartitionStep(r, p, j, U),
           RemoteStep(r), ~OnHold(r), OrderedAt(r, p)
    PROVE  OrderedAt(r, p)'
<1>0. TypesOK /\ LogOK /\ JobOK(r) /\ CoverOK(r) /\ OwnOK(r) /\ LogGrows /\ log' = log
  BY RemoteStepGrows DEF RemoteInv, JobsOK, CoversOK, OwnsOK, RemoteStep
<1>1. PICK x : x = db[r][p]
  OBVIOUS
<1>2. PICK y : y = db'[r][p]
  OBVIOUS
<1>3. /\ j \in RemoteJob /\ j = remote[r] /\ p \in j.todo
      /\ U = UpdatesOf(p, j.txns) /\ U \in Seq(Ids) /\ y = x \o U
  BY <1>1, <1>2 DEF PartitionStep
<1>4. j # Idle
  <2>1. j.kind # "idle"
    BY <1>3 DEF RemoteJob
  <2> QED BY <2>1 DEF Idle
<1>5. j.from \in Replicas /\ j.clk \in Clock /\ j.txns \in Seq(Ids)
  BY SMTT(60), <1>3 DEF RemoteJob
<1>6. /\ j.from # r
      /\ \A i \in 1 .. Len(j.txns) : /\ j.txns[i][1] = j.from /\ j.txns[i][2] \in 1 .. shipped[j.from]
                                     /\ \A q \in Replicas \ {j.from} : log[j.from][j.txns[i][2]].clk[q] = j.clk[q]
      /\ \A i, k \in 1 .. Len(j.txns) : i < k => j.txns[i][2] < j.txns[k][2]
  BY <1>0, <1>3, <1>4 DEF JobOK
<1>7. /\ \A k \in 1 .. Len(U) : \E i \in 1 .. Len(j.txns) : U[k] = j.txns[i] /\ p \in TxnOf(j.txns[i]).parts
      /\ \A i \in 1 .. Len(j.txns) : p \in TxnOf(j.txns[i]).parts => \E k \in 1 .. Len(U) : U[k] = j.txns[i]
      /\ \A k, l \in 1 .. Len(U) : k < l => U[k][2] < U[l][2]
  <2>1. PICK T : T = j.txns
    OBVIOUS
  <2>2. T \in Seq(Ids) /\ \A i, k \in 1 .. Len(T) : i < k => T[i][2] < T[k][2]
    BY <1>5, <1>6, <2>1
  <2>3. /\ \A k \in 1 .. Len(UpdatesOf(p, T)) : \E i \in 1 .. Len(T) :
              UpdatesOf(p, T)[k] = T[i] /\ p \in TxnOf(T[i]).parts
        /\ \A i \in 1 .. Len(T) : p \in TxnOf(T[i]).parts =>
              \E k \in 1 .. Len(UpdatesOf(p, T)) : UpdatesOf(p, T)[k] = T[i]
        /\ \A k, l \in 1 .. Len(UpdatesOf(p, T)) : k < l => UpdatesOf(p, T)[k][2] < UpdatesOf(p, T)[l][2]
    BY <2>2, UpdatesOfFacts
  <2>4. U = UpdatesOf(p, T)
    BY <1>3, <2>1
  <2> QED BY ZenonT(60), <2>1, <2>3, <2>4
<1>8. x \in Seq(Ids)
  BY <1>0, <1>1 DEF TypesOK
<1>9. /\ Len(x) \in Nat /\ Len(U) \in Nat /\ Len(y) = Len(x) + Len(U)
      /\ \A i \in 1 .. Len(x) : y[i] = x[i] /\ i \in 1 .. Len(y)
      /\ \A i \in 1 .. Len(U) : y[Len(x) + i] = U[i] /\ Len(x) + i \in 1 .. Len(y)
      /\ \A i \in 1 .. Len(y) : i \in 1 .. Len(x) \/ (i - Len(x) \in 1 .. Len(U) /\ i = Len(x) + (i - Len(x)))
  BY SMTT(60), <1>3, <1>8, ConcatFacts
<1>10. ASSUME NEW i \in 1 .. Len(y), i \notin 1 .. Len(x)
       PROVE  OrderedNext(y, i, p)
  <2>1. PICK k \in 1 .. Len(U) : i = Len(x) + k /\ y[i] = U[k]
    BY <1>9, <1>10
  <2>2. PICK l \in 1 .. Len(j.txns) : U[k] = j.txns[l] /\ p \in TxnOf(j.txns[l]).parts
    BY <1>7
  <2>3. PICK u : u = U[k]
    OBVIOUS
  <2>4. u \in Ids /\ u[1] = j.from /\ u[2] \in 1 .. shipped[j.from] /\ p \in log[u[1]][u[2]].parts
    BY <1>5, <1>6, <2>2, <2>3 DEF TxnOf
  <2>5. /\ shipped[j.from] \in Nat /\ Len(log[j.from]) \in Nat /\ shipped[j.from] <= Len(log[j.from])
    BY SMTT(60), <1>0, <1>5 DEF TypesOK, LogOK
  <2>6. Updates(u, p)
    <3>1. u[2] \in 1 .. Len(log[u[1]])
      BY <2>4, <2>5
    <3> QED BY <2>4, <3>1 DEF Updates
  <2>7. ASSUME NEW t \in log[u[1]][u[2]].saw[p], log[t[1]][t[2]].clk[t[1]] <= log[u[1]][u[2]].clk[t[1]]
        PROVE  \E h \in 1 .. Len(y) : h < i /\ y[h] = t
    <3>1. /\ Updates(t, p) /\ log[t[1]][t[2]].clk[t[1]] = t[2]
          /\ t[1] = u[1] => t[2] < u[2]
      BY <1>0, <2>6, SawStays
    <3>2. /\ t[1] \in Replicas /\ t[2] \in 1 .. Len(log[t[1]]) /\ p \in log[t[1]][t[2]].parts
          /\ t = Id(t[1], t[2])
      BY <3>1 DEF Updates, Ids, Id
    <3>3. ASSUME InDb(r, p, t[1], t[2])
          PROVE  \E h \in 1 .. Len(y) : h < i /\ y[h] = t
      <4>1. PICK h \in 1 .. Len(x) : x[h] = t
        BY <1>1, <3>2, <3>3 DEF InDb
      <4>2. h < i
        BY <1>9, <2>1
      <4> QED BY <1>9, <4>1, <4>2
    <3>4. CASE t[1] = r
      BY SMTT(60), <1>0, <3>2, <3>3, <3>4 DEF OwnOK
    <3>5. CASE t[1] # r /\ t[1] # j.from
      <4>1. t[2] <= j.clk[t[1]]
        BY ZenonT(60), <1>6, <2>2, <2>3, <2>4, <2>7, <3>1, <3>2, <3>5
      <4>2. CoversReceived(j.clk, t[1], r)
        BY <1>0, <1>3, <1>4, <3>2, <3>5 DEF CoverOK
      <4>3. ~InJob(r, t[1], t[2])
        <5>1. InJob(r, t[1], t[2]) => remote[r].from = t[1]
          BY <3>2, <3>5, PlacesSent
        <5> QED BY <1>3, <3>5, <5>1
      <4>4. InDb(r, p, t[1], t[2])
        BY <1>5, <3>2, <3>5, <4>1, <4>2, <4>3, CoveredIsHere
      <4> QED BY <3>3, <4>4
    <3>6. CASE t[1] = j.from
      <4>1. t[2] < u[2] /\ t[2] \in 1 .. shipped[j.from]
        <5>1. t[2] < u[2] /\ t[2] \in 1 .. Len(log[j.from])
          BY <2>4, <3>1, <3>2, <3>6
        <5> QED BY SMTT(60), <2>4, <2>5, <5>1
      <4>2. PlaceOK(r, j.from, t[2])
        BY <1>5, <1>6, <4>1 DEF RemoteInv, PlacesOK
      <4>3. ~InLink(j.from, r, t[2])
        <5>1. InJob(r, j.from, u[2])
          <6>1. u = Id(j.from, u[2])
            BY <2>4 DEF Ids, Id
          <6> QED BY <1>3, <1>4, <2>2, <2>3, <6>1 DEF InJob
        <5>2. InLink(j.from, r, t[2]) => u[2] < t[2]
          BY <2>4, <4>2, <5>1 DEF PlaceOK
        <5> QED BY SMTT(60), <2>4, <2>5, <4>1, <5>2
      <4>4. ~InQueue(r, j.from, t[2])
        <5>1. downstreamQueue[r][j.from] = <<>>
          BY <1>5 DEF OnHold
        <5>2. Len(downstreamQueue[r][j.from]) = 0
          BY <5>1
        <5> QED BY <5>2 DEF InQueue, InMessages
      <4>5. InDb(r, p, j.from, t[2]) \/ InJob(r, j.from, t[2])
        BY <3>2, <3>6, <4>2, <4>3, <4>4 DEF PlaceOK
      <4>6. ASSUME InJob(r, j.from, t[2])
            PROVE  \E h \in 1 .. Len(y) : h < i /\ y[h] = t
        <5>1. PICK m \in 1 .. Len(j.txns) : j.txns[m] = t
          BY <1>3, <3>2, <3>6, <4>6 DEF InJob
        <5>2. PICK g \in 1 .. Len(U) : U[g] = t
          BY <1>7, <3>2, <5>1 DEF TxnOf
        <5>3. g < k
          <6>1. k < g => u[2] < t[2]
            BY <1>7, <2>3, <5>2
          <6>2. k # g
            BY <2>3, <2>4, <2>5, <4>1, <5>2
          <6>3. ~(u[2] < t[2])
            BY SMTT(60), <2>4, <2>5, <4>1
          <6> QED BY <1>9, <6>1, <6>2, <6>3
        <5>4. Len(x) + g \in 1 .. Len(y) /\ y[Len(x) + g] = t /\ Len(x) + g < i
          BY <1>9, <2>1, <5>2, <5>3
        <5> QED BY <5>4
      <4> QED BY <3>3, <3>6, <4>5, <4>6
    <3> QED BY <3>4, <3>5, <3>6
  <2> QED BY <1>0, <2>1, <2>3, <2>7 DEF OrderedNext
<1>11. Len(y) \in Nat /\ Len(x) <= Len(y) /\ \A i \in 1 .. Len(x) : y[i] = x[i]
  BY <1>9
<1> QED BY <1>0, <1>1, <1>2, <1>9, <1>10, <1>11, OrderedGrows

LEMMA CausalInvInit == Init => CausalInv
<1> SUFFICES ASSUME Init
             PROVE  CausalInv
  OBVIOUS
<1>1. \A r \in Replicas, p \in Partitions : Len(db[r][p]) = 0
  BY DEF Init
<1>2. ASSUME NEW r \in Replicas, NEW p \in Partitions
      PROVE  OrderedAt(r, p)
  <2>1. ASSUME NEW i \in 1 .. Len(db[r][p])
        PROVE  FALSE
    BY <1>1
  <2> QED BY <2>1 DEF OrderedAt
<1> QED BY <1>2, RemoteInvInit DEF CausalInv

LEMMA CausalInvNext ==
    ASSUME CausalInv, [Next]_vars
    PROVE  CausalInv'
<1>0. RemoteInv /\ \A r \in Replicas, p \in Partitions : ~OnHold(r) => OrderedAt(r, p)
  BY DEF CausalInv
<1>1. RemoteInv'
  BY <1>0, RemoteInvNext
<1> SUFFICES ASSUME NEW a \in Replicas, NEW q \in Partitions, ~(OnHold(a))'
             PROVE  OrderedAt(a, q)'
  BY <1>1 DEF CausalInv
<1>2. ASSUME downstreamQueue' = downstreamQueue
      PROVE  ~OnHold(a) /\ OrderedAt(a, q)
  BY <1>0, <1>2 DEF OnHold
<1>3. ASSUME downstreamQueue' = downstreamQueue, LogGrows, db' = db
      PROVE  OrderedAt(a, q)'
  BY <1>0, <1>2, <1>3, OrderedStays
<1>4. ASSUME log' = log, shipped' = shipped
      PROVE  LogGrows
  <2>1. \A s \in Replicas : log[s] \in Seq(Txn) /\ shipped[s] \in Nat
    BY <1>0 DEF RemoteInv, TypesOK
  <2> QED BY <1>4, <2>1 DEF LogGrows
<1>5. CASE UNCHANGED vars
  BY <1>3, <1>4, <1>5 DEF vars, tmVars
<1>6. ASSUME NEW r \in Replicas, NEW P \in SUBSET Partitions, NEW ts, CommitStep(r, P, ts)
      PROVE  OrderedAt(a, q)'
  <2>1. downstreamQueue' = downstreamQueue
    BY <1>6 DEF CommitStep
  <2> QED BY <1>0, <1>2, <1>6, <2>1, CommitOrdered
<1>7. ASSUME NEW r \in Replicas, NEW P \in (SUBSET Partitions) \ {{}}, Commit(r, P)
      PROVE  OrderedAt(a, q)'
  <2>1. P \in SUBSET Partitions /\ \E ts : CommitStep(r, P, ts)
    BY <1>0, <1>7, CommitsKeep
  <2> QED BY <1>6, <2>1
<1>8. ASSUME NEW r \in Replicas, HandleDownstreamGeneratedOps(r)
      PROVE  OrderedAt(a, q)'
  <2>1. \E P \in SUBSET Partitions : \E ts : CommitStep(r, P, ts)
    BY <1>0, <1>8, CommitsKeep
  <2> QED BY <1>6, <2>1
<1>9. ASSUME NEW r \in Replicas, Ship(r)
      PROVE  OrderedAt(a, q)'
  <2>1. LogGrows
    BY <1>0, <1>9, ShipTypes
  <2>2. downstreamQueue' = downstreamQueue /\ db' = db
    BY <1>9 DEF Ship, tmVars
  <2> QED BY <1>3, <2>1, <2>2
<1>10. ASSUME NEW r \in Replicas, NEW s \in Replicas \ {r}, HandleRemoteMsg(r, s)
       PROVE  OrderedAt(a, q)'
  <2>1. LogGrows /\ db' = db
    BY <1>4, <1>10 DEF HandleRemoteMsg, tmVars
  <2>2. PICK m : m = Head(link[s][r])
    OBVIOUS
  <2>3. CASE UNCHANGED downstreamQueue
    BY <1>3, <2>1, <2>3
  <2>4. CASE downstreamQueue' = [downstreamQueue EXCEPT ![r][s] = Hold(@, m)]
    <3>1. Taken(r, s, m)
      BY <1>0, <1>10, <2>2, TakenFacts
    <3>2. PICK h \in Message : Held(r, s, h)
      BY <1>0, <2>4, <3>1, HoldFacts DEF Taken, RemoteInv
    <3>3. a # r
      <4>1. downstreamQueue[r][s] \in Seq(Message) /\ downstreamQueue'[r][s] = Append(downstreamQueue[r][s], h)
        BY <1>0, <3>2 DEF RemoteInv, TypesOK, Held
      <4>2. downstreamQueue'[r][s] # <<>>
        BY <4>1
      <4> QED BY <4>2 DEF OnHold
    <3>4. \A b \in Replicas : downstreamQueue'[a][b] = downstreamQueue[a][b]
      BY <3>2, <3>3 DEF Held
    <3>5. ~OnHold(a)
      BY <3>4 DEF OnHold
    <3> QED BY <1>0, <2>1, <3>5, OrderedStays
  <2> QED BY <1>10, <2>2, <2>3, <2>4 DEF HandleRemoteMsg
<1>11. ASSUME NEW r \in Replicas, NEW p \in Partitions, PartitionApplies(r, p)
       PROVE  OrderedAt(a, q)'
  <2>1. RemoteStep(r)
    BY <1>0, <1>11, PartitionFacts
  <2>2. PICK j, U : PartitionStep(r, p, j, U)
    BY <1>0, <1>11, PartitionFacts
  <2>3. ~OnHold(a) /\ OrderedAt(a, q) /\ LogGrows
    BY <1>2, <1>4, <2>2 DEF PartitionStep
  <2>4. CASE a = r /\ q = p
    BY <1>0, <2>1, <2>2, <2>3, <2>4, PartitionOrdered
  <2>5. CASE a # r \/ q # p
    <3>1. db'[a][q] = db[a][q]
      BY <2>1, <2>2, <2>5 DEF PartitionStep, RemoteStep, StaysAt
    <3> QED BY <1>0, <2>3, <3>1, OrderedStays
  <2> QED BY <2>4, <2>5
<1>12. ASSUME NEW r \in Replicas, FinishRemote(r)
       PROVE  OrderedAt(a, q)'
  <2>1. PICK j : j = remote[r]
    OBVIOUS
  <2>2. UNCHANGED <<log, shipped, db, downstreamQueue>>
    BY <1>0, <1>12, <2>1, FinishFacts
  <2> QED BY <1>3, <1>4, <2>2
<1> QED BY <1>5, <1>7, <1>8, <1>9, <1>10, <1>11, <1>12 DEF Next, Remote

LEMMA CausalInvOrder == CausalInv => CausalOrderOfCovered
<1> SUFFICES ASSUME CausalInv, NEW r \in Replicas, NEW p \in Partitions, ~OnHold(r),
                    NEW u \in Range(db[r][p]), NEW t \in TxnOf(u).saw[p],
                    TxnOf(t).clk[t[1]] <= TxnOf(u).clk[t[1]]
             PROVE  Before(t, u, db[r][p])
  BY DEF CausalOrderOfCovered
<1>1. db[r][p] \in Seq(Ids)
  BY DEF CausalInv, RemoteInv, TypesOK
<1>2. PICK i \in 1 .. Len(db[r][p]) : db[r][p][i] = u
  BY <1>1, InRange
<1>3. OrderedAt(r, p)
  BY DEF CausalInv
<1>4. PICK j \in 1 .. Len(db[r][p]) : j < i /\ db[r][p][j] = t
  BY <1>2, <1>3 DEF OrderedAt
<1>5. DOMAIN db[r][p] = 1 .. Len(db[r][p])
  BY <1>1
<1> QED BY <1>2, <1>4, <1>5 DEF Before

\* The dependency check of applyRemoteTxn and applyRemoteTxnGroup keeps causal order: what a
\* partition had applied when a transaction committed there, as far as its timestamp covers
\* it, every replica's partition applies before it.
THEOREM RemoteCausalOrder == Spec => []CausalOrderOfCovered
<1>1. Spec => []CausalInv
  BY CausalInvInit, CausalInvNext, PTL DEF Spec
<1> QED BY <1>1, CausalInvOrder, PTL

=============================================================================
