-------------------------- MODULE LogDeliveryProofs --------------------------
(***************************************************************************)
(* Every transaction a logger has taken is on its way to the other         *)
(* replicas exactly once, and leaves as one transaction.  Both hold as     *)
(* long as the replicator copies the loggers' slices before their slots    *)
(* are written again.                                                      *)
(***************************************************************************)
EXTENDS LogShipProofs, FiniteSetTheorems

-----------------------------------------------------------------------------
(* The places of a transaction *)

InBox(p, t) == {i \in 1 .. Len(inbox[p]) : inbox[p][i].txn = t}

\* Where t's updates to p can be, from the logger's inbox to remoteConn
Places(p, t) ==
    <<InBox(p, t), InLog(p, t), InReplies(p, t), InSlice(copying, p, t), InCache(p, t),
      InToSend(p, t), InSent(p, t)>>

Single(S) == \E x : S = {x}
Once(W) == \E k \in 1 .. 7 : Single(W[k]) /\ \A l \in (1 .. 7) \ {k} : W[l] = {}
Nowhere(W) == \A k \in 1 .. 7 : W[k] = {}

\* What p has logged is in one place.
OnceAt(p, t) == IF IsLogged(p, t) THEN Once(Places(p, t)) ELSE Nowhere(Places(p, t))

\* Between two replies there is no slice to copy.
CopyOK == rpc # "copy" => copying = NoReply

DeliveryInv == CopyOK /\ \A p \in Partitions, t \in Txns : OnceAt(p, t)

\* V has as many as S, as far as none and one go.
Sim(S, V) == (S = {} => V = {}) /\ (Single(S) => Single(V))

\* What leaves A arrives in B.
Handed(A, B, A2, B2) ==
    /\ A = {} => A2 = {} /\ Sim(B, B2)
    /\ Single(A) => \/ Single(A2) /\ Sim(B, B2)
                    \/ A2 = {} /\ (B = {} => Single(B2))

LEMMA PassedOn ==
    ASSUME NEW W, NEW V, NEW a \in 1 .. 7, NEW b \in 1 .. 7, a # b,
           \A l \in 1 .. 7 : l # a /\ l # b => Sim(W[l], V[l]),
           Handed(W[a], W[b], V[a], V[b])
    PROVE  (Once(W) => Once(V)) /\ (Nowhere(W) => Nowhere(V))
<1>1. ASSUME Nowhere(W)
      PROVE  Nowhere(V)
  <2>1. ASSUME NEW k \in 1 .. 7 PROVE V[k] = {}
    BY <1>1 DEF Nowhere, Handed, Sim
  <2> QED BY <2>1 DEF Nowhere
<1>2. ASSUME NEW k \in 1 .. 7, Single(W[k]), \A l \in (1 .. 7) \ {k} : W[l] = {}
      PROVE  Once(V)
  <2>1. \A l \in 1 .. 7 : l # k => W[l] = {}
    BY <1>2
  <2>2. \A l \in 1 .. 7 : l # a /\ l # b /\ l # k => V[l] = {}
    BY <2>1 DEF Sim
  <2>3. CASE k = a
    <3>1. W[b] = {} /\ Single(W[a])
      BY <1>2, <2>1, <2>3
    <3>2. CASE Single(V[a]) /\ Sim(W[b], V[b])
      <4>1. V[b] = {}
        BY <3>1, <3>2 DEF Sim
      <4>2. \A l \in (1 .. 7) \ {a} : V[l] = {}
        BY <2>2, <2>3, <4>1
      <4> QED BY <3>2, <4>2 DEF Once
    <3>3. CASE V[a] = {} /\ (W[b] = {} => Single(V[b]))
      <4>1. \A l \in (1 .. 7) \ {b} : V[l] = {}
        BY <2>2, <2>3, <3>3
      <4> QED BY <3>1, <3>3, <4>1 DEF Once
    <3> QED BY <3>1, <3>2, <3>3 DEF Handed
  <2>4. CASE k # a
    <3>1. W[a] = {} /\ V[a] = {} /\ Sim(W[b], V[b])
      BY <2>1, <2>4 DEF Handed
    <3>2. \A l \in 1 .. 7 : Sim(W[l], V[l])
      BY <3>1 DEF Sim, Single
    <3>3. Single(V[k])
      BY <1>2, <3>2 DEF Sim
    <3>4. \A l \in (1 .. 7) \ {k} : V[l] = {}
      BY <1>2, <3>2 DEF Sim
    <3> QED BY <3>3, <3>4 DEF Once
  <2> QED BY <2>3, <2>4
<1> QED BY <1>1, <1>2 DEF Once


\* A does not change its number, or the one in A leaves for B.
LEMMA HandedWhen ==
    ASSUME NEW A, NEW B, NEW A2, NEW B2,
           \/ Sim(A, A2) /\ Sim(B, B2)
           \/ A # {} /\ (Single(A) => A2 = {}) /\ (Single(A) /\ B = {} => Single(B2))
    PROVE  Handed(A, B, A2, B2)
<1>1. CASE Sim(A, A2) /\ Sim(B, B2)
  BY <1>1 DEF Handed, Sim
<1>2. CASE A # {} /\ (Single(A) => A2 = {}) /\ (Single(A) /\ B = {} => Single(B2))
  BY <1>2 DEF Handed
<1> QED BY <1>1, <1>2

LEMMA SimSame ==
    ASSUME NEW A, NEW B, A = B
    PROVE  Sim(A, B)
BY DEF Sim

\* The first k of n positions are taken off.
LEMMA ShiftOut ==
    ASSUME NEW n \in Nat, NEW k \in 0 .. n, NEW A \in SUBSET (1 .. n), NEW B \in SUBSET (1 .. (n - k)),
           \A i \in 1 .. (n - k) : i \in B <=> i + k \in A
    PROVE  /\ (\A i \in 1 .. k : i \notin A) => Sim(A, B)
           /\ (\E i \in 1 .. k : i \in A) => A # {} /\ (Single(A) => B = {})
<1>1. \A i \in 1 .. n : i \in 1 .. k \/ (i - k \in 1 .. (n - k) /\ i = (i - k) + k)
  OBVIOUS
<1>2. \A i \in 1 .. (n - k) : i + k \notin 1 .. k
  OBVIOUS
<1>3. ASSUME \A i \in 1 .. k : i \notin A
      PROVE  Sim(A, B)
  <2>1. A = {} => B = {}
    OBVIOUS
  <2>2. ASSUME NEW x, A = {x}
        PROVE  B = {x - k}
    <3>1. x \in 1 .. n /\ x \notin 1 .. k
      BY <1>3, <2>2
    <3>2. x - k \in 1 .. (n - k) /\ x = (x - k) + k
      BY <1>1, <3>1
    <3>3. \A i \in 1 .. (n - k) : i + k = x <=> i = x - k
      BY <3>1
    <3>4. \A i \in 1 .. (n - k) : i \in B <=> i = x - k
      BY <2>2, <3>3
    <3> QED BY <3>2, <3>4
  <2> QED BY <2>1, <2>2 DEF Sim, Single
<1>4. ASSUME NEW i \in 1 .. k, i \in A, NEW x, A = {x}
      PROVE  B = {}
  <2>1. x = i
    BY <1>4
  <2>2. \A j \in 1 .. (n - k) : j \notin B
    BY <1>2, <1>4, <2>1
  <2> QED BY <2>2
<1> QED BY <1>3, <1>4 DEF Single

\* Something is added behind m positions.
LEMMA ShiftIn ==
    ASSUME NEW m \in Nat, NEW k \in Nat, NEW A \in SUBSET (1 .. m), NEW B \in SUBSET (1 .. (m + k)),
           \A i \in 1 .. m : i \in B <=> i \in A
    PROVE  /\ (\A i \in 1 .. k : m + i \notin B) => B = A
           /\ A = {} => \A i \in B : i - m \in 1 .. k /\ i = m + (i - m)
<1>1. \A i \in 1 .. (m + k) : i \in 1 .. m \/ (i - m \in 1 .. k /\ i = m + (i - m))
  OBVIOUS
<1>2. \A i \in 1 .. m : i \in 1 .. (m + k)
  OBVIOUS
<1>3. ASSUME \A i \in 1 .. k : m + i \notin B
      PROVE  B = A
  <2>1. \A i \in 1 .. (m + k) : i \in B => i \in A
    <3> SUFFICES ASSUME NEW i \in 1 .. (m + k), i \in B PROVE i \in A
      OBVIOUS
    <3>1. i \in 1 .. m
      BY <1>1, <1>3
    <3> QED BY <3>1
  <2> QED BY <2>1
<1>4. ASSUME A = {}, NEW i \in B
      PROVE  i - m \in 1 .. k /\ i = m + (i - m)
  BY <1>1, <1>4
<1> QED BY <1>3, <1>4

\* The first k of n positions move behind m others.
LEMMA Handover ==
    ASSUME NEW n \in Nat, NEW m \in Nat, NEW k \in 0 .. n,
           NEW A \in SUBSET (1 .. n), NEW A2 \in SUBSET (1 .. (n - k)),
           NEW B \in SUBSET (1 .. m), NEW B2 \in SUBSET (1 .. (m + k)),
           \A i \in 1 .. (n - k) : i \in A2 <=> i + k \in A,
           \A i \in 1 .. m : i \in B2 <=> i \in B,
           \A i \in 1 .. k : m + i \in B2 <=> i \in A
    PROVE  Handed(A, B, A2, B2)
<1>0. k \in Nat
  OBVIOUS
<1>1. CASE \A i \in 1 .. k : i \notin A
  <2>1. Sim(A, A2)
    BY <1>1, ShiftOut
  <2>2. B2 = B
    BY ZenonT(60), <1>0, <1>1, ShiftIn
  <2> QED BY <2>1, <2>2, SimSame, HandedWhen
<1>2. CASE \E i \in 1 .. k : i \in A
  <2>1. A # {} /\ (Single(A) => A2 = {})
    BY <1>2, ShiftOut
  <2>2. ASSUME Single(A), B = {}
        PROVE  Single(B2)
    <3>1. PICK i \in 1 .. k : i \in A
      BY <1>2
    <3>2. A = {i}
      BY <2>2, <3>1 DEF Single
    <3>3. \A j \in B2 : j - m \in 1 .. k /\ j = m + (j - m)
      BY <1>0, <2>2, ShiftIn
    <3>4. \A j \in B2 : j = m + i
      BY <3>2, <3>3
    <3>5. m + i \in B2
      BY <3>1
    <3>6. B2 = {m + i}
      BY <3>4, <3>5
    <3> QED BY <3>6 DEF Single
  <2> QED BY <2>1, <2>2, HandedWhen
<1> QED BY <1>1, <1>2


-----------------------------------------------------------------------------
(* Steps that move a transaction from one place to the next *)

LEMMA PlacesAre ==
    ASSUME NEW p, NEW t
    PROVE  LET W == Places(p, t)
           IN  /\ W[1] = InBox(p, t) /\ W[2] = InLog(p, t) /\ W[3] = InReplies(p, t)
               /\ W[4] = InSlice(copying, p, t) /\ W[5] = InCache(p, t)
               /\ W[6] = InToSend(p, t) /\ W[7] = InSent(p, t)
BY DEF Places

LEMMA PlacesNext ==
    ASSUME NEW p, NEW t
    PROVE  \A W : W = Places(p, t)' =>
               /\ W[1] = InBox(p, t)' /\ W[2] = InLog(p, t)' /\ W[3] = InReplies(p, t)'
               /\ W[4] = InSlice(copying, p, t)' /\ W[5] = InCache(p, t)'
               /\ W[6] = InToSend(p, t)' /\ W[7] = InSent(p, t)'
BY DEF Places

\* from the inbox to the log
LoggedStep(p, t) ==
    /\ Handed(InBox(p, t), InLog(p, t), InBox(p, t)', InLog(p, t)')
    /\ InReplies(p, t)' = InReplies(p, t)
    /\ InSlice(copying, p, t)' = InSlice(copying, p, t)
    /\ InCache(p, t)' = InCache(p, t)
    /\ InToSend(p, t)' = InToSend(p, t)
    /\ InSent(p, t)' = InSent(p, t)

\* from the log to a reply
RepliedStep(p, t) ==
    /\ Handed(InLog(p, t), InReplies(p, t), InLog(p, t)', InReplies(p, t)')
    /\ Sim(InBox(p, t), InBox(p, t)')
    /\ InSlice(copying, p, t)' = InSlice(copying, p, t)
    /\ InCache(p, t)' = InCache(p, t)
    /\ InToSend(p, t)' = InToSend(p, t)
    /\ InSent(p, t)' = InSent(p, t)

\* from a reply to the copy of its slice
ReceivedStep(p, t) ==
    /\ Handed(InReplies(p, t), InSlice(copying, p, t), InReplies(p, t)', InSlice(copying, p, t)')
    /\ InBox(p, t)' = InBox(p, t)
    /\ InLog(p, t)' = InLog(p, t)
    /\ InCache(p, t)' = InCache(p, t)
    /\ InToSend(p, t)' = InToSend(p, t)
    /\ InSent(p, t)' = InSent(p, t)

\* from the slice to the cache
CachedStep(p, t) ==
    /\ Handed(InSlice(copying, p, t), InCache(p, t), InSlice(copying, p, t)', InCache(p, t)')
    /\ InBox(p, t)' = InBox(p, t)
    /\ InLog(p, t)' = InLog(p, t)
    /\ InReplies(p, t)' = InReplies(p, t)
    /\ InToSend(p, t)' = InToSend(p, t)
    /\ InSent(p, t)' = InSent(p, t)

\* from the cache to what is to be sent
MergedStep(p, t) ==
    /\ Handed(InCache(p, t), InToSend(p, t), InCache(p, t)', InToSend(p, t)')
    /\ InBox(p, t)' = InBox(p, t)
    /\ InLog(p, t)' = InLog(p, t)
    /\ InReplies(p, t)' = InReplies(p, t)
    /\ InSlice(copying, p, t)' = InSlice(copying, p, t)
    /\ InSent(p, t)' = InSent(p, t)

\* from there to what is sent
ShippedStep(p, t) ==
    /\ Handed(InToSend(p, t), InSent(p, t), InToSend(p, t)', InSent(p, t)')
    /\ InBox(p, t)' = InBox(p, t)
    /\ InLog(p, t)' = InLog(p, t)
    /\ InReplies(p, t)' = InReplies(p, t)
    /\ InSlice(copying, p, t)' = InSlice(copying, p, t)
    /\ InCache(p, t)' = InCache(p, t)

LEMMA OnceStep ==
    ASSUME NEW p, NEW t, OnceAt(p, t), IsLogged(p, t)' <=> IsLogged(p, t),
           \/ LoggedStep(p, t) \/ RepliedStep(p, t) \/ ReceivedStep(p, t)
           \/ CachedStep(p, t) \/ MergedStep(p, t) \/ ShippedStep(p, t)
    PROVE  OnceAt(p, t)'
<1>1. PICK W : W = Places(p, t)
  OBVIOUS
<1>2. PICK V : V = Places(p, t)'
  OBVIOUS
<1>3. /\ W[1] = InBox(p, t) /\ W[2] = InLog(p, t) /\ W[3] = InReplies(p, t)
      /\ W[4] = InSlice(copying, p, t) /\ W[5] = InCache(p, t)
      /\ W[6] = InToSend(p, t) /\ W[7] = InSent(p, t)
  BY <1>1, PlacesAre
<1>4. /\ V[1] = InBox(p, t)' /\ V[2] = InLog(p, t)' /\ V[3] = InReplies(p, t)'
      /\ V[4] = InSlice(copying, p, t)' /\ V[5] = InCache(p, t)'
      /\ V[6] = InToSend(p, t)' /\ V[7] = InSent(p, t)'
  BY <1>2, PlacesNext
<1>5. \A A : Sim(A, A)
  BY SimSame
<1>6. ASSUME NEW a \in 1 .. 6, Handed(W[a], W[a + 1], V[a], V[a + 1]),
             \A l \in 1 .. 7 : l # a /\ l # a + 1 => Sim(W[l], V[l])
      PROVE  OnceAt(p, t)'
  <2>1. a \in 1 .. 7 /\ a + 1 \in 1 .. 7 /\ a # a + 1
    OBVIOUS
  <2>2. (Once(W) => Once(V)) /\ (Nowhere(W) => Nowhere(V))
    BY <1>6, <2>1, PassedOn
  <2> QED BY <1>1, <1>2, <2>2 DEF OnceAt
<1>7. \A l \in 1 .. 7 : l = 1 \/ l = 2 \/ l = 3 \/ l = 4 \/ l = 5 \/ l = 6 \/ l = 7
  OBVIOUS
<1>8. CASE LoggedStep(p, t)
  <2>1. Handed(W[1], W[2], V[1], V[2])
    BY <1>3, <1>4, <1>8 DEF LoggedStep
  <2>2. \A l \in 1 .. 7 : l # 1 /\ l # 2 => Sim(W[l], V[l])
    BY <1>3, <1>4, <1>5, <1>7, <1>8 DEF LoggedStep
  <2>3. 1 \in 1 .. 6 /\ 1 + 1 = 2
    OBVIOUS
  <2> QED BY <1>6, <2>1, <2>2, <2>3
<1>9. CASE RepliedStep(p, t)
  <2>1. Handed(W[2], W[3], V[2], V[3])
    BY <1>3, <1>4, <1>9 DEF RepliedStep
  <2>2. \A l \in 1 .. 7 : l # 2 /\ l # 3 => Sim(W[l], V[l])
    BY <1>3, <1>4, <1>5, <1>7, <1>9 DEF RepliedStep
  <2>3. 2 \in 1 .. 6 /\ 2 + 1 = 3
    OBVIOUS
  <2> QED BY <1>6, <2>1, <2>2, <2>3
<1>10. CASE ReceivedStep(p, t)
  <2>1. Handed(W[3], W[4], V[3], V[4])
    BY <1>3, <1>4, <1>10 DEF ReceivedStep
  <2>2. \A l \in 1 .. 7 : l # 3 /\ l # 4 => Sim(W[l], V[l])
    BY <1>3, <1>4, <1>5, <1>7, <1>10 DEF ReceivedStep
  <2>3. 3 \in 1 .. 6 /\ 3 + 1 = 4
    OBVIOUS
  <2> QED BY <1>6, <2>1, <2>2, <2>3
<1>11. CASE CachedStep(p, t)
  <2>1. Handed(W[4], W[5], V[4], V[5])
    BY <1>3, <1>4, <1>11 DEF CachedStep
  <2>2. \A l \in 1 .. 7 : l # 4 /\ l # 5 => Sim(W[l], V[l])
    BY <1>3, <1>4, <1>5, <1>7, <1>11 DEF CachedStep
  <2>3. 4 \in 1 .. 6 /\ 4 + 1 = 5
    OBVIOUS
  <2> QED BY <1>6, <2>1, <2>2, <2>3
<1>12. CASE MergedStep(p, t)
  <2>1. Handed(W[5], W[6], V[5], V[6])
    BY <1>3, <1>4, <1>12 DEF MergedStep
  <2>2. \A l \in 1 .. 7 : l # 5 /\ l # 6 => Sim(W[l], V[l])
    BY <1>3, <1>4, <1>5, <1>7, <1>12 DEF MergedStep
  <2>3. 5 \in 1 .. 6 /\ 5 + 1 = 6
    OBVIOUS
  <2> QED BY <1>6, <2>1, <2>2, <2>3
<1>13. CASE ShippedStep(p, t)
  <2>1. Handed(W[6], W[7], V[6], V[7])
    BY <1>3, <1>4, <1>13 DEF ShippedStep
  <2>2. \A l \in 1 .. 7 : l # 6 /\ l # 7 => Sim(W[l], V[l])
    BY <1>3, <1>4, <1>5, <1>7, <1>13 DEF ShippedStep
  <2>3. 6 \in 1 .. 6 /\ 6 + 1 = 7
    OBVIOUS
  <2> QED BY <1>6, <2>1, <2>2, <2>3
<1> QED BY <1>8, <1>9, <1>10, <1>11, <1>12, <1>13


\* A step that leaves the places alone
LEMMA NothingMoves ==
    ASSUME NEW p, NEW t, OnceAt(p, t), IsLogged(p, t)' <=> IsLogged(p, t), Sim(InBox(p, t), InBox(p, t)'),
           InLog(p, t)' = InLog(p, t), InReplies(p, t)' = InReplies(p, t),
           InSlice(copying, p, t)' = InSlice(copying, p, t), InCache(p, t)' = InCache(p, t),
           InToSend(p, t)' = InToSend(p, t), InSent(p, t)' = InSent(p, t)
    PROVE  OnceAt(p, t)'
<1>1. Handed(InBox(p, t), InLog(p, t), InBox(p, t)', InLog(p, t)')
  BY SimSame, HandedWhen
<1>2. LoggedStep(p, t)
  BY <1>1 DEF LoggedStep
<1> QED BY <1>2, OnceStep

\* The places do not change with the other variables.
LEMMA PlacesStay ==
    ASSUME NEW p, NEW t
    PROVE  /\ inbox'[p] = inbox[p] => InBox(p, t)' = InBox(p, t)
           /\ log' = log => InSlice(copying, p, t)' = InSlice(copying', p, t)
           /\ UNCHANGED <<log, lastSharedPos, currentTxnPos>> => InLog(p, t)' = InLog(p, t)
           /\ UNCHANGED <<log, partsChan>> => InReplies(p, t)' = InReplies(p, t)
           /\ UNCHANGED <<log, copying>> => InSlice(copying, p, t)' = InSlice(copying, p, t)
           /\ txnCache'[p] = txnCache[p] => InCache(p, t)' = InCache(p, t)
           /\ UNCHANGED toSend => InToSend(p, t)' = InToSend(p, t)
           /\ UNCHANGED sent => InSent(p, t)' = InSent(p, t)
           /\ UNCHANGED logChan => (IsLogged(p, t)' <=> IsLogged(p, t))
BY DEF InBox, InLog, InReplies, InSlice, InCache, InToSend, InSent, IsLogged

\* A message is appended to the inbox.
LEMMA BoxAppend ==
    ASSUME ShipInv, NEW p \in Partitions, NEW t \in Txns, NEW m \in LoggerMsg,
           inbox'[p] = Append(inbox[p], m)
    PROVE  /\ m.txn # t => InBox(p, t)' = InBox(p, t)
           /\ m.txn = t /\ InBox(p, t) = {} => Single(InBox(p, t)')
<1>1. PICK q : q = inbox[p]
  OBVIOUS
<1>2. PICK r : r = inbox'[p]
  OBVIOUS
<1>3. q \in Seq(LoggerMsg) /\ r = Append(q, m)
  BY <1>1, <1>2 DEF ShipInv, TypeOK
<1>4. /\ Len(q) \in Nat /\ Len(r) = Len(q) + 1 /\ r[Len(q) + 1] = m
      /\ \A i \in 1 .. Len(q) : r[i] = q[i]
  BY <1>3, AppendFacts
<1> DEFINE A == {i \in 1 .. Len(q) : q[i].txn = t}
           B == {i \in 1 .. Len(r) : r[i].txn = t}
<1>5. InBox(p, t) = A /\ InBox(p, t)' = B
  BY <1>1, <1>2 DEF InBox
<1>6. 1 .. Len(r) = (1 .. Len(q)) \cup {Len(q) + 1} /\ Len(q) + 1 \notin 1 .. Len(q)
  BY <1>4
<1>7. m.txn # t => B = A
  BY <1>4, <1>6
<1>8. ASSUME m.txn = t, A = {} PROVE B = {Len(q) + 1}
  <2>1. \A i \in 1 .. Len(q) : q[i].txn # t
    BY <1>8
  <2> QED BY <1>4, <1>6, <1>8, <2>1
<1> HIDE DEF A, B
<1> QED BY <1>5, <1>7, <1>8 DEF Single

\* The logger takes a message.
LEMMA BoxTail ==
    ASSUME ShipInv, NEW p \in Partitions, NEW t \in Txns, inbox[p] # <<>>, inbox'[p] = Tail(inbox[p])
    PROVE  /\ Head(inbox[p]).txn # t => Sim(InBox(p, t), InBox(p, t)')
           /\ Head(inbox[p]).txn = t =>
                 InBox(p, t) # {} /\ (Single(InBox(p, t)) => InBox(p, t)' = {})
<1>1. PICK q : q = inbox[p]
  OBVIOUS
<1>2. PICK r : r = inbox'[p]
  OBVIOUS
<1>3. q \in Seq(LoggerMsg) /\ q # <<>> /\ r = Tail(q)
  BY <1>1, <1>2 DEF ShipInv, TypeOK
<1>4. /\ Len(q) \in Nat /\ 1 \in 0 .. Len(q) /\ Len(r) = Len(q) - 1 /\ Head(q) = q[1]
      /\ \A i \in 1 .. (Len(q) - 1) : r[i] = q[i + 1] /\ i + 1 \in 1 .. Len(q)
  BY <1>3, TailFacts
<1> DEFINE A == {i \in 1 .. Len(q) : q[i].txn = t}
           B == {i \in 1 .. Len(r) : r[i].txn = t}
<1>5. InBox(p, t) = A /\ InBox(p, t)' = B
  BY <1>1, <1>2 DEF InBox
<1>6. \A i \in 1 .. (Len(q) - 1) : i \in B <=> i + 1 \in A
  BY <1>4
<1>7. A \in SUBSET (1 .. Len(q)) /\ B \in SUBSET (1 .. (Len(q) - 1))
  BY <1>4
<1>8. 1 \in A <=> Head(q).txn = t
  BY <1>4
<1>9. \A i \in 1 .. 1 : i = 1
  OBVIOUS
<1>10. 1 \in 1 .. 1
  OBVIOUS
<1> HIDE DEF A, B
<1>11. (1 \notin A => Sim(A, B)) /\ (1 \in A => A # {} /\ (Single(A) => B = {}))
  <2>1. PICK k : k = 1
    OBVIOUS
  <2>2. /\ k \in 0 .. Len(q) /\ B \in SUBSET (1 .. (Len(q) - k)) /\ A \in SUBSET (1 .. Len(q))
        /\ \A i \in 1 .. (Len(q) - k) : i \in B <=> i + k \in A
    BY <1>4, <1>6, <1>7, <2>1
  <2>3. /\ (\A i \in 1 .. k : i \notin A) => Sim(A, B)
        /\ (\E i \in 1 .. k : i \in A) => A # {} /\ (Single(A) => B = {})
    BY <1>4, <2>2, ShiftOut
  <2> QED BY <1>9, <1>10, <2>1, <2>3
<1> QED BY <1>1, <1>5, <1>8, <1>11


-----------------------------------------------------------------------------
(* Partitions and loggers *)

\* The messages without a transaction
LEMMA ClkMessages ==
    /\ NoTxn \notin Txns
    /\ \A c \in Timestamps : ClkEntry(c) \in LoggerMsg /\ ClkEntry(c).txn = NoTxn
    /\ \A type \in {"txnLog", "timeout"} :
          [type |-> type, txn |-> NoTxn, clk |-> NewTimestamp] \in LoggerMsg
    /\ \A m \in LoggerMsg : m.type # "commit" => m.txn = NoTxn
<1>1. NoTxn \notin Txns
  BY PartitionLogConstants
<1>2. \A c \in Timestamps : ClkEntry(c) \in LoggerMsg /\ ClkEntry(c).txn = NoTxn
  BY DEF ClkEntry, LoggerMsg, LogRequest
<1>3. \A type \in {"txnLog", "timeout"} : [type |-> type, txn |-> NoTxn, clk |-> NewTimestamp] \in LoggerMsg
  BY DEF LoggerMsg
<1>4. \A m \in LoggerMsg : m.type # "commit" => m.txn = NoTxn
  BY DEF LoggerMsg, LogRequest
<1> QED BY <1>1, <1>2, <1>3, <1>4

\* What a partition sends to its logger is logged.
LEMMA LoggedNext ==
    ASSUME ShipInv, NEW p \in Partitions, NEW t \in Txns, NEW m \in LogRequest,
           logChan'[p] = Append(logChan[p], m)
    PROVE  IsLogged(p, t)' <=> IsLogged(p, t) \/ m.txn = t
<1>1. PICK q : q = logChan[p]
  OBVIOUS
<1>2. PICK r : r = logChan'[p]
  OBVIOUS
<1>3. q \in Seq(LogRequest) /\ r = Append(q, m)
  BY <1>1, <1>2 DEF ShipInv, TypeOK, LogTypeOK
<1>4. /\ Len(q) \in Nat /\ Len(r) = Len(q) + 1 /\ r[Len(q) + 1] = m
      /\ \A i \in 1 .. Len(q) : r[i] = q[i]
  BY <1>3, AppendFacts
<1>5. 1 .. Len(r) = (1 .. Len(q)) \cup {Len(q) + 1}
  BY <1>4
<1>6. (\E i \in 1 .. Len(r) : r[i].txn = t) <=> (\E i \in 1 .. Len(q) : q[i].txn = t) \/ m.txn = t
  BY <1>4, <1>5
<1> QED BY <1>1, <1>2, <1>6 DEF IsLogged

\* A step that only appends a message without a transaction to an inbox, or nothing.
LEMMA OnceInbox ==
    ASSUME ShipInv, NEW p \in Partitions, NEW t \in Txns, OnceAt(p, t), IsLogged(p, t)' <=> IsLogged(p, t),
           UNCHANGED <<log, lastSharedPos, currentTxnPos, partsChan, copying, txnCache, toSend, sent>>,
           \/ inbox'[p] = inbox[p]
           \/ \E m \in LoggerMsg : inbox'[p] = Append(inbox[p], m) /\ m.txn # t
    PROVE  OnceAt(p, t)'
<1>1. InBox(p, t)' = InBox(p, t)
  BY BoxAppend, PlacesStay
<1>2. Sim(InBox(p, t), InBox(p, t)')
  BY <1>1, SimSame
<1>3. /\ InLog(p, t)' = InLog(p, t) /\ InReplies(p, t)' = InReplies(p, t)
      /\ InSlice(copying, p, t)' = InSlice(copying, p, t) /\ InCache(p, t)' = InCache(p, t)
      /\ InToSend(p, t)' = InToSend(p, t) /\ InSent(p, t)' = InSent(p, t)
  BY PlacesStay
<1> QED BY <1>2, <1>3, NothingMoves

\* A partition logs a transaction, which is then in the inbox.
LEMMA OncePartitionCommits ==
    ASSUME ShipInv, DeliveryInv, NEW p \in Partitions, NEW u \in Txns, PartitionCommits(p, u),
           NEW q \in Partitions, NEW t \in Txns
    PROVE  OnceAt(q, t)'
<1>0. OnceAt(q, t)
  BY DEF DeliveryInv
<1>1. PICK m : m = CommitEntry(u)
  OBVIOUS
<1>2. /\ u \in Unlogged(p) /\ commitTs[u] \in Timestamps
      /\ logChan' = [logChan EXCEPT ![p] = Append(@, m)]
      /\ inbox' = [inbox EXCEPT ![p] = Append(@, m)]
      /\ UNCHANGED <<log, lastSharedPos, currentTxnPos, partsChan, copying, txnCache, toSend, sent>>
  BY <1>1 DEF PartitionCommits, LogCommit, replVars, ShipInv, DecidedOK, Unlogged
<1>3. m \in LogRequest /\ m \in LoggerMsg /\ m.txn = u
  BY <1>1, <1>2, NewMessages DEF CommitEntry
<1>4. logChan \in [Partitions -> Seq(LogRequest)] /\ inbox \in [Partitions -> Seq(LoggerMsg)]
  BY DEF ShipInv, TypeOK, LogTypeOK
<1>5. CASE q # p
  <2>1. logChan'[q] = logChan[q] /\ inbox'[q] = inbox[q]
    BY <1>2, <1>4, <1>5
  <2>2. IsLogged(q, t)' <=> IsLogged(q, t)
    BY <2>1 DEF IsLogged
  <2> QED BY <1>0, <1>2, <2>1, <2>2, OnceInbox
<1>6. CASE q = p /\ t # u
  <2>1. logChan'[q] = Append(logChan[q], m) /\ inbox'[q] = Append(inbox[q], m)
    BY <1>2, <1>4, <1>6
  <2>2. IsLogged(q, t)' <=> IsLogged(q, t)
    BY <1>3, <1>6, <2>1, LoggedNext
  <2> QED BY <1>0, <1>2, <1>3, <1>6, <2>1, <2>2, OnceInbox
<1>7. CASE q = p /\ t = u
  <2>1. logChan'[q] = Append(logChan[q], m) /\ inbox'[q] = Append(inbox[q], m)
    BY <1>2, <1>4, <1>7
  <2>2. IsLogged(q, t)' /\ ~IsLogged(q, t)
    BY <1>2, <1>3, <1>7, <2>1, LoggedNext DEF Unlogged
  <2>3. Nowhere(Places(q, t))
    BY <1>0, <2>2 DEF OnceAt
  <2>4. PICK W : W = Places(q, t)
    OBVIOUS
  <2>5. PICK V : V = Places(q, t)'
    OBVIOUS
  <2>6. /\ W[1] = InBox(q, t) /\ W[2] = InLog(q, t) /\ W[3] = InReplies(q, t)
        /\ W[4] = InSlice(copying, q, t) /\ W[5] = InCache(q, t)
        /\ W[6] = InToSend(q, t) /\ W[7] = InSent(q, t)
    BY <2>4, PlacesAre
  <2>7. /\ V[1] = InBox(q, t)' /\ V[2] = InLog(q, t)' /\ V[3] = InReplies(q, t)'
        /\ V[4] = InSlice(copying, q, t)' /\ V[5] = InCache(q, t)'
        /\ V[6] = InToSend(q, t)' /\ V[7] = InSent(q, t)'
    BY <2>5, PlacesNext
  <2>8. /\ InLog(q, t)' = InLog(q, t) /\ InReplies(q, t)' = InReplies(q, t)
        /\ InSlice(copying, q, t)' = InSlice(copying, q, t) /\ InCache(q, t)' = InCache(q, t)
        /\ InToSend(q, t)' = InToSend(q, t) /\ InSent(q, t)' = InSent(q, t)
    BY <1>2, PlacesStay
  <2>9. W[1] = {} /\ W[2] = {} /\ W[3] = {} /\ W[4] = {} /\ W[5] = {} /\ W[6] = {} /\ W[7] = {}
    BY <2>3, <2>4 DEF Nowhere
  <2>10. Single(V[1])
    BY ZenonT(60), <1>3, <1>7, <2>1, <2>6, <2>7, <2>9, BoxAppend
  <2>11. V[2] = {} /\ V[3] = {} /\ V[4] = {} /\ V[5] = {} /\ V[6] = {} /\ V[7] = {}
    BY <2>6, <2>7, <2>8, <2>9
  <2>12. Once(V)
    <3>1. \A l \in (1 .. 7) \ {1} : l = 2 \/ l = 3 \/ l = 4 \/ l = 5 \/ l = 6 \/ l = 7
      OBVIOUS
    <3>2. \A l \in (1 .. 7) \ {1} : V[l] = {}
      BY <2>11, <3>1
    <3>3. 1 \in 1 .. 7
      OBVIOUS
    <3> QED BY <2>10, <3>2, <3>3 DEF Once
  <2> QED BY <2>2, <2>5, <2>12 DEF OnceAt
<1> QED BY <1>5, <1>6, <1>7


\* Steps of the partitions, and those that only send a message to a logger
LEMMA OnceMessages ==
    ASSUME ShipInv, DeliveryInv, NEW q \in Partitions, NEW t \in Txns,
           \/ \E u \in Txns : DecideTxn(u)
           \/ \E p \in Partitions : PartitionAnswers(p) \/ TimerFires(p) \/ SendTimeout(p)
           \/ AskPartition \/ NextCycle
    PROVE  OnceAt(q, t)'
<1>0. OnceAt(q, t) /\ inbox \in [Partitions -> Seq(LoggerMsg)] /\ logChan \in [Partitions -> Seq(LogRequest)]
  BY DEF DeliveryInv, ShipInv, TypeOK, LogTypeOK
<1>1. UNCHANGED <<log, lastSharedPos, currentTxnPos, partsChan, copying, txnCache, toSend, sent>>
  BY ZenonT(60) DEF DecideTxn, PartitionAnswers, TimerFires, SendTimeout, AskPartition, NextCycle, loggerVars, replVars
<1>2. CASE UNCHANGED <<inbox, logChan>>
  <2>1. IsLogged(q, t)' <=> IsLogged(q, t)
    BY <1>2, PlacesStay
  <2> QED BY <1>0, <1>1, <1>2, <2>1, OnceInbox
<1>3. ASSUME NEW p \in Partitions, NEW m \in LoggerMsg, m.txn = NoTxn,
             inbox' = [inbox EXCEPT ![p] = Append(@, m)],
             UNCHANGED logChan \/ (m \in LogRequest /\ logChan' = [logChan EXCEPT ![p] = Append(@, m)])
      PROVE  OnceAt(q, t)'
  <2>1. m.txn # t
    BY <1>3, ClkMessages
  <2>2. inbox'[q] = inbox[q] \/ inbox'[q] = Append(inbox[q], m)
    BY <1>0, <1>3
  <2>3. logChan'[q] = logChan[q] \/ (m \in LogRequest /\ logChan'[q] = Append(logChan[q], m))
    BY <1>0, <1>3
  <2>4. IsLogged(q, t)' <=> IsLogged(q, t)
    <3>1. CASE logChan'[q] = logChan[q]
      BY <3>1 DEF IsLogged
    <3>2. CASE m \in LogRequest /\ logChan'[q] = Append(logChan[q], m)
      BY <2>1, <3>2, LoggedNext
    <3> QED BY <2>3, <3>1, <3>2
  <2> QED BY <1>0, <1>1, <2>1, <2>2, <2>4, OnceInbox
<1>4. ASSUME NEW u \in Txns, DecideTxn(u) PROVE OnceAt(q, t)'
  BY <1>2, <1>4 DEF DecideTxn, Decide, loggerVars
<1>5. ASSUME NEW p \in Partitions, PartitionAnswers(p) PROVE OnceAt(q, t)'
  <2>1. PICK c \in Timestamps : /\ AnnounceClk(p, c) /\ inbox' = [inbox EXCEPT ![p] = Append(@, ClkEntry(c))]
    BY <1>5 DEF PartitionAnswers
  <2>2. PICK m : m = ClkEntry(c)
    OBVIOUS
  <2>3. m \in LoggerMsg /\ m.txn = NoTxn /\ m \in LogRequest
    BY <2>2, ClkMessages, NewMessages
  <2>4. inbox' = [inbox EXCEPT ![p] = Append(@, m)] /\ logChan' = [logChan EXCEPT ![p] = Append(@, m)]
    BY <2>1, <2>2 DEF AnnounceClk
  <2> QED BY <1>3, <2>3, <2>4
<1>6. ASSUME NEW p \in Partitions, TimerFires(p) PROVE OnceAt(q, t)'
  BY <1>2, <1>6 DEF TimerFires, logVars
<1>7. ASSUME NEW p \in Partitions, SendTimeout(p) PROVE OnceAt(q, t)'
  <2>1. PICK m : m = [type |-> "timeout", txn |-> NoTxn, clk |-> NewTimestamp]
    OBVIOUS
  <2>2. m \in LoggerMsg /\ m.txn = NoTxn
    BY <2>1, ClkMessages
  <2>3. inbox' = [inbox EXCEPT ![p] = Append(@, m)] /\ UNCHANGED logChan
    BY <1>7, <2>1 DEF SendTimeout, logVars
  <2> QED BY <1>3, <2>2, <2>3
<1>8. CASE AskPartition
  <2>1. PICK m : m = [type |-> "txnLog", txn |-> NoTxn, clk |-> NewTimestamp]
    OBVIOUS
  <2>2. m \in LoggerMsg /\ m.txn = NoTxn
    BY <2>1, ClkMessages
  <2>3. inbox' = [inbox EXCEPT ![asked] = Append(@, m)] /\ UNCHANGED logChan /\ rpc = "ask"
    BY <1>8, <2>1 DEF AskPartition, logVars
  <2>4. asked \in Partitions
    BY <2>3, PartitionLogConstants DEF ShipInv, TypeOK, PhaseOK, Partitions
  <2> QED BY <1>3, <2>2, <2>3, <2>4
<1>9. CASE NextCycle
  BY <1>2, <1>9 DEF NextCycle, logVars, loggerVars
<1> QED BY <1>4, <1>5, <1>6, <1>7, <1>8, <1>9

\* The logger takes a transaction from its inbox and writes it behind the others.
LEMMA OnceCommitLogged ==
    ASSUME ShipInv, DeliveryInv, CopiedInTime, NEW p \in Partitions, HandleCommitLogRequest(p),
           NEW q \in Partitions, NEW t \in Txns
    PROVE  OnceAt(q, t)'
<1>0. /\ OnceAt(q, t) /\ inbox \in [Partitions -> Seq(LoggerMsg)] /\ log \in [Partitions -> Seq(Entry)]
      /\ lastSharedPos \in [Partitions -> Nat] /\ currentTxnPos \in [Partitions -> Nat]
      /\ \A o \in Partitions : lastSharedPos[o] <= currentTxnPos[o] /\ currentTxnPos[o] <= Len(log[o])
  BY DEF DeliveryInv, ShipInv, TypeOK, PositionsOK
<1>1. /\ inbox[p] # <<>> /\ inbox' = [inbox EXCEPT ![p] = Tail(@)]
      /\ currentTxnPos' = [currentTxnPos EXCEPT ![p] = @ + 1]
      /\ UNCHANGED <<logChan, lastSharedPos, partsChan, copying, txnCache, toSend, sent>>
  BY DEF HandleCommitLogRequest, Handles, logVars, replVars
<1>2. IsLogged(q, t)' <=> IsLogged(q, t)
  BY <1>1, PlacesStay
<1>3. InCache(q, t)' = InCache(q, t) /\ InToSend(q, t)' = InToSend(q, t) /\ InSent(q, t)' = InSent(q, t)
  BY <1>1, PlacesStay
<1>4. InReplies(q, t)' = InReplies(q, t) /\ InSlice(copying, q, t)' = InSlice(copying, q, t)
  <2>1. /\ \A i \in 1 .. Len(partsChan) : partsChan[i].part = q =>
               \A k \in (partsChan[i].from + 1) .. partsChan[i].to : log'[q][k] = log[q][k]
        /\ copying.part = q => \A k \in (copying.from + 1) .. copying.to : log'[q][k] = log[q][k]
    BY SlicesKept
  <2>2. InSlice(copying, q, t)' = InSlice(copying, q, t)
    BY <1>1, <2>1 DEF InSlice
  <2>3. ASSUME NEW i \in 1 .. Len(partsChan)
        PROVE  {k \in (partsChan[i].from + 1) .. partsChan[i].to : partsChan[i].part = q /\ log'[q][k].txn = t}
                 = {k \in (partsChan[i].from + 1) .. partsChan[i].to : partsChan[i].part = q /\ log[q][k].txn = t}
    BY <2>1
  <2>4. InReplies(q, t)' = InReplies(q, t)
    BY <1>1, <2>3 DEF InReplies, InSlice
  <2> QED BY <2>2, <2>4
<1>5. CASE q # p
  <2>1. inbox'[q] = inbox[q] /\ log'[q] = log[q] /\ currentTxnPos'[q] = currentTxnPos[q]
    BY <1>0, <1>1, <1>5, LogWritten
  <2>2. InBox(q, t)' = InBox(q, t) /\ InLog(q, t)' = InLog(q, t)
    BY <1>1, <2>1 DEF InBox, InLog
  <2> QED BY <1>0, <1>2, <1>3, <1>4, <2>2, SimSame, NothingMoves
<1>6. CASE q = p
  <2>1. inbox'[p] = Tail(inbox[p])
    BY <1>0, <1>1
  <2>2. PICK n : n = currentTxnPos[p]
    OBVIOUS
  <2>3. PICK f : f = lastSharedPos[p]
    OBVIOUS
  <2>4. /\ n \in Nat /\ f \in Nat /\ f <= n /\ currentTxnPos'[p] = n + 1 /\ lastSharedPos'[p] = f
        /\ n <= Len(log[p])
    BY <1>0, <1>1, <2>2, <2>3
  <2>5. PICK x : x = log[p]
    OBVIOUS
  <2>6. PICK y : y = log'[p]
    OBVIOUS
  <2>7. /\ Len(x) \in Nat /\ Len(y) \in Nat /\ Len(y) >= Len(x) /\ Len(y) >= n + 1
        /\ y[n + 1] = [txn |-> Head(inbox[p]).txn, clk |-> Head(inbox[p]).clk]
        /\ \A i \in 1 .. Len(y) : i # n + 1 => y[i] = x[i]
    BY <2>2, <2>5, <2>6, LogWritten
  <2>8. y[n + 1].txn = Head(inbox[p]).txn
    BY <2>7
  <2> DEFINE A == {i \in (f + 1) .. n : x[i].txn = t}
             B == {i \in (f + 1) .. (n + 1) : y[i].txn = t}
  <2>9. InLog(p, t) = A /\ InLog(p, t)' = B
    BY <2>2, <2>3, <2>4, <2>5, <2>6 DEF InLog
  <2>10. \A i \in (f + 1) .. n : y[i] = x[i]
    BY <2>4, <2>5, <2>7
  <2>11. (f + 1) .. (n + 1) = ((f + 1) .. n) \cup {n + 1} /\ n + 1 \notin (f + 1) .. n
    BY <2>4
  <2>12. Head(inbox[p]).txn # t => B = A
    BY <2>8, <2>10, <2>11
  <2>13. ASSUME Head(inbox[p]).txn = t, A = {} PROVE B = {n + 1}
    <3>1. \A i \in (f + 1) .. n : x[i].txn # t
      BY <2>13
    <3> QED BY <2>8, <2>10, <2>11, <2>13, <3>1
  <2> HIDE DEF A, B
  <2>14. Handed(InBox(p, t), InLog(p, t), InBox(p, t)', InLog(p, t)')
    <3>1. CASE Head(inbox[p]).txn # t
      <4>1. Sim(InBox(p, t), InBox(p, t)')
        BY <1>1, <2>1, <3>1, BoxTail
      <4>2. Sim(InLog(p, t), InLog(p, t)')
        BY <2>9, <2>12, <3>1, SimSame
      <4> QED BY <4>1, <4>2, HandedWhen
    <3>2. CASE Head(inbox[p]).txn = t
      <4>1. InBox(p, t) # {} /\ (Single(InBox(p, t)) => InBox(p, t)' = {})
        BY <1>1, <2>1, <3>2, BoxTail
      <4>2. InLog(p, t) = {} => Single(InLog(p, t)')
        BY <2>9, <2>13, <3>2 DEF Single
      <4> QED BY <4>1, <4>2, HandedWhen
    <3> QED BY <3>1, <3>2
  <2>15. LoggedStep(q, t)
    BY <1>3, <1>4, <1>6, <2>14 DEF LoggedStep
  <2> QED BY <1>0, <1>2, <2>15, OnceStep
<1> QED BY <1>5, <1>6


LEMMA OnePair ==
    ASSUME NEW x, NEW n
    PROVE  {x} \X {n} = {<<x, n>>}
<1>1. \A z : z \in {x} \X {n} => z = <<x, n>>
  OBVIOUS
<1>2. <<x, n>> \in {x} \X {n}
  OBVIOUS
<1> QED BY <1>1, <1>2, Zenon

\* The logger answers: what it has not shared goes into the reply.
LEMMA OnceReply ==
    ASSUME ShipInv, DeliveryInv, NEW p \in Partitions, NEW clk, ReplyToReplicator(p, clk),
           inbox[p] # <<>>, Head(inbox[p]).txn = NoTxn, inbox' = [inbox EXCEPT ![p] = Tail(@)],
           UNCHANGED <<logChan, log, copying, txnCache, toSend, sent>>,
           NEW q \in Partitions, NEW t \in Txns
    PROVE  OnceAt(q, t)'
<1>0. /\ OnceAt(q, t) /\ inbox \in [Partitions -> Seq(LoggerMsg)] /\ partsChan \in Seq(Reply)
      /\ lastSharedPos \in [Partitions -> Nat] /\ currentTxnPos \in [Partitions -> Nat]
      /\ clk \in Clock => \A f, n \in Nat : [part |-> p, from |-> f, to |-> n, clk |-> clk] \in Reply
  BY DEF DeliveryInv, ShipInv, TypeOK, Reply
<1>1. PICK r : r = [part |-> p, from |-> lastSharedPos[p], to |-> currentTxnPos[p], clk |-> clk]
  OBVIOUS
<1>2. /\ partsChan' = Append(partsChan, r) /\ NextShared(p)
      /\ r.part = p /\ r.from = lastSharedPos[p] /\ r.to = currentTxnPos[p]
  BY <1>1 DEF ReplyToReplicator
<1>3. \A o \in Partitions \ {p} : lastSharedPos'[o] = lastSharedPos[o] /\ currentTxnPos'[o] = currentTxnPos[o]
  BY <1>0, <1>2 DEF NextShared
<1>4. lastSharedPos'[p] = currentTxnPos'[p] /\ currentTxnPos'[p] \in Nat
  BY <1>0, <1>2 DEF NextShared
<1>5. Sim(InBox(q, t), InBox(q, t)')
  <2>1. CASE q = p
    <3>1. inbox'[q] = Tail(inbox[q]) /\ Head(inbox[q]).txn # t /\ inbox[q] # <<>>
      BY <1>0, <2>1, ClkMessages
    <3> QED BY <3>1, BoxTail
  <2>2. CASE q # p
    <3>1. inbox'[q] = inbox[q]
      BY <1>0, <2>2
    <3> QED BY <3>1, PlacesStay, SimSame
  <2> QED BY <2>1, <2>2
<1>6. /\ InSlice(copying, q, t)' = InSlice(copying, q, t) /\ InCache(q, t)' = InCache(q, t)
      /\ InToSend(q, t)' = InToSend(q, t) /\ InSent(q, t)' = InSent(q, t)
      /\ IsLogged(q, t)' <=> IsLogged(q, t)
  BY PlacesStay
<1>7. PICK n : n = Len(partsChan) + 1
  OBVIOUS
<1>8. InReplies(q, t)' = InReplies(q, t) \cup (InSlice(r, q, t) \X {n})
  <2>1. PICK c : c = partsChan
    OBVIOUS
  <2>2. PICK d : d = partsChan'
    OBVIOUS
  <2>3. /\ Len(c) \in Nat /\ Len(d) = n /\ d[n] = r /\ 1 .. n = (1 .. Len(c)) \cup {n}
        /\ \A i \in 1 .. Len(c) : d[i] = c[i]
    BY <1>0, <1>2, <1>7, <2>1, <2>2
  <2>4. InReplies(q, t) = UNION {InSlice(c[i], q, t) \X {i} : i \in 1 .. Len(c)}
    BY <2>1 DEF InReplies
  <2>5. InReplies(q, t)' = UNION {InSlice(d[i], q, t) \X {i} : i \in 1 .. n}
    BY <2>2, <2>3 DEF InReplies, InSlice
  <2>6. UNION {InSlice(d[i], q, t) \X {i} : i \in 1 .. n}
          = (UNION {InSlice(d[i], q, t) \X {i} : i \in 1 .. Len(c)}) \cup (InSlice(d[n], q, t) \X {n})
    <3> DEFINE F(i) == InSlice(d[i], q, t) \X {i}
               A == UNION {F(i) : i \in 1 .. n}
               B == UNION {F(i) : i \in 1 .. Len(c)}
    <3> SUFFICES A = B \cup F(n)
      OBVIOUS
    <3>1. ASSUME NEW z PROVE z \in A <=> \E i \in 1 .. n : z \in F(i)
      <4> HIDE DEF F
      <4> QED BY Zenon
    <3>2. ASSUME NEW z PROVE z \in B <=> \E i \in 1 .. Len(c) : z \in F(i)
      <4> HIDE DEF F
      <4> QED BY Zenon
    <3> HIDE DEF F, A, B
    <3>3. \A z : z \in A <=> z \in B \cup F(n)
      BY <2>3, <3>1, <3>2
    <3> QED BY <3>3
  <2>7. UNION {InSlice(d[i], q, t) \X {i} : i \in 1 .. Len(c)} = UNION {InSlice(c[i], q, t) \X {i} : i \in 1 .. Len(c)}
    BY <2>3
  <2> QED BY <2>3, <2>4, <2>5, <2>6, <2>7
<1>9. CASE q # p
  <2>1. InLog(q, t)' = InLog(q, t)
    BY <1>3, <1>9 DEF InLog
  <2>2. InSlice(r, q, t) = {}
    BY <1>2, <1>9 DEF InSlice
  <2>3. InSlice(r, q, t) \X {n} = {}
    BY <2>2
  <2>4. InReplies(q, t)' = InReplies(q, t)
    BY <1>8, <2>3
  <2> QED BY <1>0, <1>5, <1>6, <2>1, <2>4, NothingMoves
<1>10. CASE q = p
  <2>1. InLog(q, t)' = {}
    BY <1>4, <1>10 DEF InLog
  <2>2. InSlice(r, q, t) = InLog(q, t)
    BY <1>2, <1>10 DEF InSlice, InLog
  <2>3. Handed(InLog(q, t), InReplies(q, t), InLog(q, t)', InReplies(q, t)')
    <3>1. CASE InLog(q, t) = {}
      <4>1. InReplies(q, t)' = InReplies(q, t)
        BY <1>8, <2>2, <3>1
      <4> QED BY <2>1, <3>1, <4>1, SimSame, HandedWhen
    <3>2. CASE InLog(q, t) # {}
      <4>1. ASSUME Single(InLog(q, t)), InReplies(q, t) = {} PROVE Single(InReplies(q, t)')
        <5>1. PICK x : InLog(q, t) = {x}
          BY <4>1 DEF Single
        <5>2. {x} \X {n} = {<<x, n>>}
          BY OnePair
        <5>3. InReplies(q, t)' = {<<x, n>>}
          BY <1>8, <2>2, <4>1, <5>1, <5>2
        <5> QED BY <5>3 DEF Single
      <4> QED BY <2>1, <3>2, <4>1, HandedWhen
    <3> QED BY <3>1, <3>2
  <2>4. RepliedStep(q, t)
    BY <1>5, <1>6, <2>3 DEF RepliedStep
  <2> QED BY <1>0, <1>6, <2>4, OnceStep
<1> QED BY <1>9, <1>10

\* A logger takes a message without a transaction.
LEMMA OnceAnswers ==
    ASSUME ShipInv, DeliveryInv, NEW p \in Partitions,
           HandleTxnLogRequest(p) \/ HandleMatClkRequest(p) \/ HandleClkTimeoutRequest(p),
           NEW q \in Partitions, NEW t \in Txns
    PROVE  OnceAt(q, t)'
<1>0. OnceAt(q, t) /\ inbox \in [Partitions -> Seq(LoggerMsg)]
  BY DEF DeliveryInv, ShipInv, TypeOK
<1>1. /\ inbox[p] # <<>> /\ inbox' = [inbox EXCEPT ![p] = Tail(@)] /\ Head(inbox[p]).type # "commit"
      /\ UNCHANGED <<logChan, log, copying, txnCache, toSend, sent>>
  BY DEF HandleTxnLogRequest, HandleMatClkRequest, HandleClkTimeoutRequest, Handles, logVars, replVars
<1>2. Head(inbox[p]) \in LoggerMsg
  BY <1>0, <1>1
<1>3. Head(inbox[p]).txn = NoTxn
  BY <1>1, <1>2, ClkMessages
<1>4. CASE \E clk : ReplyToReplicator(p, clk)
  BY <1>1, <1>3, <1>4, OnceReply
<1>5. CASE UNCHANGED <<partsChan, lastSharedPos, currentTxnPos>>
  <2>1. Sim(InBox(q, t), InBox(q, t)')
    <3>1. CASE q = p
      <4>1. inbox'[q] = Tail(inbox[q]) /\ Head(inbox[q]).txn # t /\ inbox[q] # <<>>
        BY <1>0, <1>1, <1>3, <3>1, ClkMessages
      <4> QED BY <4>1, BoxTail
    <3>2. CASE q # p
      <4>1. inbox'[q] = inbox[q]
        BY <1>0, <1>1, <3>2
      <4> QED BY <4>1, PlacesStay, SimSame
    <3> QED BY <3>1, <3>2
  <2>2. /\ InLog(q, t)' = InLog(q, t) /\ InReplies(q, t)' = InReplies(q, t)
        /\ InSlice(copying, q, t)' = InSlice(copying, q, t) /\ InCache(q, t)' = InCache(q, t)
        /\ InToSend(q, t)' = InToSend(q, t) /\ InSent(q, t)' = InSent(q, t)
        /\ IsLogged(q, t)' <=> IsLogged(q, t)
    BY <1>1, <1>5, PlacesStay
  <2> QED BY <1>0, <2>1, <2>2, NothingMoves
<1>6. (\E clk : ReplyToReplicator(p, clk)) \/ UNCHANGED <<partsChan, lastSharedPos, currentTxnPos>>
  BY DEF HandleTxnLogRequest, HandleMatClkRequest, HandleClkTimeoutRequest
<1> QED BY <1>4, <1>5, <1>6


-----------------------------------------------------------------------------
(* The replicator *)

\* The first of n sets of pairs is taken off.
LEMMA PairShift ==
    ASSUME NEW n \in Nat, n >= 1, NEW S, NEW A, NEW B,
           \A z : z \in A <=> \E i \in 1 .. n : \E x \in S[i] : z = <<x, i>>,
           \A z : z \in B <=> \E i \in 1 .. (n - 1) : \E x \in S[i + 1] : z = <<x, i>>
    PROVE  /\ S[1] = {} => Sim(A, B)
           /\ S[1] # {} => A # {} /\ (Single(A) => B = {} /\ Single(S[1]))
<1>1. \A i \in 1 .. n : \A x \in S[i] : <<x, i>> \in A
  OBVIOUS
<1>2. \A i \in 1 .. (n - 1) : \A x \in S[i + 1] : <<x, i>> \in B /\ <<x, i + 1>> \in A
  <2> SUFFICES ASSUME NEW i \in 1 .. (n - 1), NEW x \in S[i + 1]
               PROVE  <<x, i>> \in B /\ <<x, i + 1>> \in A
    OBVIOUS
  <2>1. i + 1 \in 1 .. n
    OBVIOUS
  <2> QED BY <1>1, <2>1
<1>3. 1 \in 1 .. n
  OBVIOUS
<1>4. A = {} => B = {}
  <2> SUFFICES ASSUME NEW z, z \in B PROVE \E y : y \in A
    OBVIOUS
  <2> QED BY <1>2
<1>5. ASSUME NEW z, A = {z}, S[1] = {}
      PROVE  Single(B)
  <2>1. PICK i \in 1 .. n : \E x \in S[i] : z = <<x, i>>
    BY <1>5
  <2>2. PICK x \in S[i] : z = <<x, i>>
    BY <2>1
  <2>3. i # 1
    BY <1>5, <2>2
  <2>4. PICK k \in 1 .. (n - 1) : k + 1 = i
    <3>1. i - 1 \in 1 .. (n - 1) /\ (i - 1) + 1 = i
      BY <2>3
    <3> QED BY <3>1
  <2>5. <<x, k>> \in B
    BY <1>2, <2>2, <2>4
  <2>6. ASSUME NEW y \in B PROVE y = <<x, k>>
    <3>1. PICK j \in 1 .. (n - 1) : \E w \in S[j + 1] : y = <<w, j>>
      OBVIOUS
    <3>2. PICK w \in S[j + 1] : y = <<w, j>>
      BY <3>1
    <3>3. <<w, j + 1>> \in A
      BY <1>2, <3>2
    <3>4. w = x /\ j + 1 = k + 1
      BY <1>5, <2>2, <2>4, <3>3
    <3> QED BY <3>2, <3>4
  <2>7. B = {<<x, k>>}
    BY <2>5, <2>6
  <2> QED BY <2>7 DEF Single
<1>6. ASSUME NEW z, A = {z}, NEW y \in S[1]
      PROVE  B = {} /\ S[1] = {y}
  <2>1. z = <<y, 1>>
    BY <1>1, <1>3, <1>6
  <2>2. \A x \in S[1] : x = y
    BY <1>1, <1>3, <1>6, <2>1
  <2>3. ASSUME NEW b, b \in B PROVE FALSE
    <3>1. PICK j \in 1 .. (n - 1) : \E w \in S[j + 1] : b = <<w, j>>
      BY <2>3
    <3>2. PICK w \in S[j + 1] : b = <<w, j>>
      BY <3>1
    <3>3. <<w, j + 1>> \in A
      BY <1>2, <3>2
    <3>4. j + 1 = 1
      BY <1>6, <2>1, <3>3
    <3> QED BY <3>4
  <2> QED BY <2>2, <2>3
<1>7. S[1] # {} => A # {}
  BY <1>1, <1>3
<1> QED BY <1>4, <1>5, <1>6, <1>7 DEF Sim, Single

\* What is in the replies
LEMMA RepliesHold ==
    ASSUME NEW p, NEW t, NEW z
    PROVE  z \in InReplies(p, t) <=>
             \E i \in 1 .. Len(partsChan) : \E x \in InSlice(partsChan[i], p, t) : z = <<x, i>>
<1> DEFINE F(i) == InSlice(partsChan[i], p, t) \X {i}
<1>1. z \in UNION {F(i) : i \in 1 .. Len(partsChan)} <=> \E i \in 1 .. Len(partsChan) : z \in F(i)
  <2> HIDE DEF F
  <2> QED BY Zenon
<1>2. \A i : z \in F(i) <=> \E x \in InSlice(partsChan[i], p, t) : z = <<x, i>>
  OBVIOUS
<1>3. InReplies(p, t) = UNION {F(i) : i \in 1 .. Len(partsChan)}
  BY DEF InReplies
<1> HIDE DEF F
<1> QED BY <1>1, <1>2, <1>3

\* The replicator takes a reply; the previous stable clock leaves the cache.
LEMMA OnceReceive ==
    ASSUME ShipInv, DeliveryInv, ReceiveReply, NEW q \in Partitions, NEW t \in Txns
    PROVE  OnceAt(q, t)'
<1>0. /\ OnceAt(q, t) /\ partsChan \in Seq(Reply) /\ txnCache \in [Partitions -> Seq(Entry)]
      /\ CachesOK /\ NoTxn # t
  BY ClkMessages DEF DeliveryInv, ShipInv, TypeOK
<1>1. /\ rpc = "collect" /\ partsChan # <<>> /\ copying' = Head(partsChan) /\ partsChan' = Tail(partsChan)
      /\ txnCache' = [txnCache EXCEPT ![Head(partsChan).part] = WithoutLast(@)]
      /\ UNCHANGED <<logChan, inbox, log, lastSharedPos, currentTxnPos, toSend, sent>>
  BY DEF ReceiveReply, logVars, loggerVars
<1>2. /\ IsLogged(q, t)' <=> IsLogged(q, t)
      /\ InBox(q, t)' = InBox(q, t) /\ InLog(q, t)' = InLog(q, t)
      /\ InToSend(q, t)' = InToSend(q, t) /\ InSent(q, t)' = InSent(q, t)
  BY <1>1, PlacesStay
<1>3. InCache(q, t)' = InCache(q, t)
  <2>1. PICK x : x = txnCache[q]
    OBVIOUS
  <2>2. PICK y : y = txnCache'[q]
    OBVIOUS
  <2>3. x \in Seq(Entry) /\ x # <<>> /\ x[Len(x)].txn = NoTxn
    BY <1>0, <1>1, <2>1 DEF CachesOK, CacheOK
  <2>4. y = x \/ y = WithoutLast(x)
    BY <1>0, <1>1, <2>1, <2>2
  <2>5. CASE y = x
    BY <2>1, <2>2, <2>5 DEF InCache
  <2>6. CASE y = WithoutLast(x)
    <3>1. /\ Len(x) \in Nat /\ Len(x) >= 1 /\ Len(y) = Len(x) - 1
          /\ \A i \in 1 .. (Len(x) - 1) : y[i] = x[i]
      BY <2>3, <2>6, WithoutLastFacts
    <3>2. \A i \in 1 .. Len(x) : i = Len(x) \/ i \in 1 .. (Len(x) - 1)
      BY <3>1
    <3>3. \A i \in 1 .. (Len(x) - 1) : i \in 1 .. Len(x)
      BY <3>1
    <3>4. {i \in 1 .. Len(y) : y[i].txn = t} = {i \in 1 .. Len(x) : x[i].txn = t}
      BY <1>0, <2>3, <3>1, <3>2, <3>3
    <3> QED BY <2>1, <2>2, <3>4 DEF InCache
  <2> QED BY <2>4, <2>5, <2>6
<1>4. InSlice(copying, q, t) = {}
  BY <1>1 DEF DeliveryInv, CopyOK, NoReply, InSlice
<1>5. PICK c : c = partsChan
  OBVIOUS
<1>6. PICK d : d = partsChan'
  OBVIOUS
<1>7. c \in Seq(Reply) /\ c # <<>> /\ d = Tail(c)
  BY <1>0, <1>1, <1>5, <1>6
<1>8. /\ Len(c) \in Nat /\ Len(c) >= 1 /\ Len(d) = Len(c) - 1 /\ Head(c) = c[1]
      /\ \A i \in 1 .. (Len(c) - 1) : d[i] = c[i + 1] /\ i + 1 \in 1 .. Len(c)
  BY <1>7, TailFacts
<1>9. PICK S : S = [i \in 1 .. Len(c) |-> InSlice(c[i], q, t)]
  OBVIOUS
<1>10. \A z : z \in InReplies(q, t) <=> \E i \in 1 .. Len(c) : \E x \in S[i] : z = <<x, i>>
  <2>1. \A i \in 1 .. Len(c) : S[i] = InSlice(c[i], q, t)
    BY <1>9
  <2> SUFFICES ASSUME NEW z
               PROVE  z \in InReplies(q, t) <=> \E i \in 1 .. Len(c) : \E x \in S[i] : z = <<x, i>>
    OBVIOUS
  <2>2. z \in InReplies(q, t) <=> \E i \in 1 .. Len(c) : \E x \in InSlice(c[i], q, t) : z = <<x, i>>
    BY <1>5, RepliesHold
  <2> QED BY <2>1, <2>2
<1>12. PICK R : R = InReplies(q, t)'
  OBVIOUS
<1>13. \A z : z \in R <=> \E i \in 1 .. Len(d) : \E x \in InSlice(d[i], q, t) : z = <<x, i>>
  <2> SUFFICES ASSUME NEW z
               PROVE  z \in R <=> \E i \in 1 .. Len(d) : \E x \in InSlice(d[i], q, t) : z = <<x, i>>
    OBVIOUS
  <2> DEFINE F(i) == InSlice(d[i], q, t) \X {i}
  <2>1. z \in UNION {F(i) : i \in 1 .. Len(d)} <=> \E i \in 1 .. Len(d) : z \in F(i)
    <3> HIDE DEF F
    <3> QED BY Zenon
  <2>2. \A i : z \in F(i) <=> \E x \in InSlice(d[i], q, t) : z = <<x, i>>
    OBVIOUS
  <2>3. R = UNION {F(i) : i \in 1 .. Len(d)}
    BY <1>1, <1>6, <1>12 DEF InReplies, InSlice
  <2> HIDE DEF F
  <2> QED BY <2>1, <2>2, <2>3
<1>14. \A z : z \in R <=> \E i \in 1 .. (Len(c) - 1) : \E x \in S[i + 1] : z = <<x, i>>
  <2>1. \A i \in 1 .. (Len(c) - 1) : InSlice(d[i], q, t) = S[i + 1]
    BY <1>8, <1>9
  <2> QED BY <1>8, <1>13, <2>1
<1>15. InSlice(copying, q, t)' = S[1]
  <2>1. InSlice(copying, q, t)' = InSlice(c[1], q, t)
    BY <1>1, <1>5, <1>8 DEF InSlice
  <2>2. 1 \in 1 .. Len(c)
    BY <1>8
  <2> QED BY <1>9, <2>1, <2>2
<1>16. PICK A : A = InReplies(q, t)
  OBVIOUS
<1>17. /\ S[1] = {} => Sim(A, R)
       /\ S[1] # {} => A # {} /\ (Single(A) => R = {} /\ Single(S[1]))
  <2>1. \A z : z \in A <=> \E i \in 1 .. Len(c) : \E x \in S[i] : z = <<x, i>>
    BY <1>10, <1>16
  <2>2. PICK n : n = Len(c)
    OBVIOUS
  <2>3. n \in Nat /\ n >= 1
    BY <1>8, <2>2
  <2>4. /\ \A z : z \in A <=> \E i \in 1 .. n : \E x \in S[i] : z = <<x, i>>
        /\ \A z : z \in R <=> \E i \in 1 .. (n - 1) : \E x \in S[i + 1] : z = <<x, i>>
    BY <1>14, <2>1, <2>2
  <2> QED BY ONLY <2>3, <2>4, PairShift, SMTT(60)
<1>18. Handed(A, {}, R, S[1])
  <2>1. CASE S[1] = {}
    <3>1. Sim({}, S[1])
      BY <2>1, SimSame
    <3> QED BY <1>17, <2>1, <3>1, HandedWhen
  <2>2. CASE S[1] # {}
    BY <1>17, <2>2, HandedWhen
  <2> QED BY <2>1, <2>2
<1>19. Handed(InReplies(q, t), InSlice(copying, q, t), InReplies(q, t)', InSlice(copying, q, t)')
  BY <1>4, <1>12, <1>15, <1>16, <1>18
<1>20. ReceivedStep(q, t)
  BY <1>2, <1>3, <1>19 DEF ReceivedStep
<1> QED BY <1>0, <1>2, <1>20, OnceStep


\* An entry is appended to the cache.
LEMMA CacheOneMore ==
    ASSUME ShipInv, NEW p \in Partitions, NEW t \in Txns, NEW e \in Entry,
           txnCache'[p] = Append(txnCache[p], e)
    PROVE  /\ e.txn # t => InCache(p, t)' = InCache(p, t)
           /\ e.txn = t /\ InCache(p, t) = {} => Single(InCache(p, t)')
<1>1. PICK q : q = txnCache[p]
  OBVIOUS
<1>2. PICK r : r = txnCache'[p]
  OBVIOUS
<1>3. q \in Seq(Entry) /\ r = Append(q, e)
  BY <1>1, <1>2 DEF ShipInv, TypeOK
<1>4. /\ Len(q) \in Nat /\ Len(r) = Len(q) + 1 /\ r[Len(q) + 1] = e
      /\ \A i \in 1 .. Len(q) : r[i] = q[i]
  BY <1>3, AppendFacts
<1> DEFINE A == {i \in 1 .. Len(q) : q[i].txn = t}
           B == {i \in 1 .. Len(r) : r[i].txn = t}
<1>5. InCache(p, t) = A /\ InCache(p, t)' = B
  BY <1>1, <1>2 DEF InCache
<1>6. 1 .. Len(r) = (1 .. Len(q)) \cup {Len(q) + 1} /\ Len(q) + 1 \notin 1 .. Len(q)
  BY <1>4
<1>7. e.txn # t => B = A
  BY <1>4, <1>6
<1>8. ASSUME e.txn = t, A = {} PROVE B = {Len(q) + 1}
  <2>1. \A i \in 1 .. Len(q) : q[i].txn # t
    BY <1>8
  <2> QED BY <1>4, <1>6, <1>8, <2>1
<1> HIDE DEF A, B
<1> QED BY <1>5, <1>7, <1>8 DEF Single

\* An entry of the slice goes into the cache, or the stable clock does.
LEMMA OnceCopy ==
    ASSUME ShipInv, DeliveryInv, CopyEntry, NEW q \in Partitions, NEW t \in Txns
    PROVE  OnceAt(q, t)'
<1>0. /\ OnceAt(q, t) /\ copying \in Reply /\ txnCache \in [Partitions -> Seq(Entry)]
      /\ log \in [Partitions -> Seq(Entry)] /\ ReplyOK(copying) /\ NoTxn # t
  BY ClkMessages DEF DeliveryInv, ShipInv, TypeOK, RepliesOK
<1>1. UNCHANGED <<logChan, inbox, log, lastSharedPos, currentTxnPos, partsChan, toSend, sent>>
  BY DEF CopyEntry, logVars, loggerVars
<1>2. /\ IsLogged(q, t)' <=> IsLogged(q, t)
      /\ InBox(q, t)' = InBox(q, t) /\ InLog(q, t)' = InLog(q, t) /\ InReplies(q, t)' = InReplies(q, t)
      /\ InToSend(q, t)' = InToSend(q, t) /\ InSent(q, t)' = InSent(q, t)
  BY <1>1, PlacesStay
<1>3. PICK p : p = copying.part
  OBVIOUS
<1>4. PICK f : f = copying.from
  OBVIOUS
<1>5. PICK n : n = copying.to
  OBVIOUS
<1>6. p \in Partitions /\ f \in Nat /\ n \in Nat /\ f <= n /\ n <= Len(log[p]) /\ Len(log[p]) \in Nat
  BY <1>0, <1>3, <1>4, <1>5 DEF Reply, ReplyOK
<1>7. InSlice(copying, q, t) = {i \in (f + 1) .. n : p = q /\ log[q][i].txn = t}
  BY <1>3, <1>4, <1>5 DEF InSlice
<1>8. Handed(InSlice(copying, q, t), InCache(q, t), InSlice(copying, q, t)', InCache(q, t)')
  <2>1. CASE /\ f < n
             /\ txnCache' = [txnCache EXCEPT ![p] = Append(@, log[p][f + 1])]
             /\ copying' = [copying EXCEPT !.from = @ + 1]
    <3>1. PICK e : e = log[p][f + 1]
      OBVIOUS
    <3>2. e \in Entry
      BY <1>0, <1>6, <2>1, <3>1
    <3>3. copying'.part = p /\ copying'.from = f + 1 /\ copying'.to = n
      BY <1>0, <1>3, <1>4, <1>5, <2>1 DEF Reply
    <3>4. InSlice(copying, q, t)' = {i \in (f + 2) .. n : p = q /\ log[q][i].txn = t}
      BY <1>1, <1>6, <3>3 DEF InSlice
    <3>5. (f + 1) .. n = {f + 1} \cup ((f + 2) .. n) /\ f + 1 \notin (f + 2) .. n
      BY <1>6, <2>1
    <3>6. CASE q # p
      <4>1. InSlice(copying, q, t) = {} /\ InSlice(copying, q, t)' = {}
        BY <1>7, <3>4, <3>6
      <4>2. txnCache'[q] = txnCache[q]
        BY <1>0, <2>1, <3>6
      <4>3. InCache(q, t)' = InCache(q, t)
        BY <4>2, PlacesStay
      <4> QED BY <4>1, <4>3, SimSame, HandedWhen
    <3>7. CASE q = p
      <4>1. txnCache'[q] = Append(txnCache[q], e)
        BY <1>0, <2>1, <3>1, <3>7
      <4>2. CASE e.txn # t
        <5>1. InSlice(copying, q, t)' = InSlice(copying, q, t)
          BY <1>7, <3>1, <3>4, <3>5, <3>7, <4>2
        <5>2. InCache(q, t)' = InCache(q, t)
          BY <3>2, <4>1, <4>2, CacheOneMore
        <5> QED BY <5>1, <5>2, SimSame, HandedWhen
      <4>3. CASE e.txn = t
        <5>1. f + 1 \in InSlice(copying, q, t)
          BY <1>7, <3>1, <3>5, <3>7, <4>3
        <5>2. ASSUME NEW x, InSlice(copying, q, t) = {x}
              PROVE  InSlice(copying, q, t)' = {}
          <6>1. x = f + 1
            BY <5>1, <5>2
          <6>2. \A i \in (f + 2) .. n : log[q][i].txn # t
            BY <1>7, <3>5, <3>7, <5>2, <6>1
          <6> QED BY <3>4, <6>2
        <5>3. InCache(q, t) = {} => Single(InCache(q, t)')
          BY <3>2, <4>1, <4>3, CacheOneMore
        <5> QED BY <5>1, <5>2, <5>3, HandedWhen DEF Single
      <4> QED BY <4>2, <4>3
    <3> QED BY <3>6, <3>7
  <2>2. CASE /\ f = n
             /\ txnCache' = [txnCache EXCEPT ![p] = Append(@, [txn |-> NoTxn, clk |-> copying.clk])]
             /\ copying' = NoReply
    <3>1. PICK e : e = [txn |-> NoTxn, clk |-> copying.clk]
      OBVIOUS
    <3>2. e \in Entry /\ e.txn # t
      BY <1>0, <3>1 DEF Reply, Entry
    <3>3. InSlice(copying, q, t) = {}
      BY <1>6, <1>7, <2>2
    <3>4. InSlice(copying, q, t)' = {}
      BY <2>2 DEF InSlice, NoReply
    <3>5. txnCache'[q] = txnCache[q] \/ txnCache'[q] = Append(txnCache[q], e)
      BY <1>0, <2>2, <3>1
    <3>6. InCache(q, t)' = InCache(q, t)
      BY <3>2, <3>5, CacheOneMore, PlacesStay
    <3> QED BY <3>3, <3>4, <3>6, SimSame, HandedWhen
  <2> QED BY <1>3, <1>4, <1>5, <2>1, <2>2 DEF CopyEntry
<1>9. CachedStep(q, t)
  BY <1>2, <1>8 DEF CachedStep
<1> QED BY <1>0, <1>2, <1>9, OnceStep

\* The first entries of the caches are merged.
LEMMA OncePrepare ==
    ASSUME ShipInv, DeliveryInv, PrepareDataToSend, NEW q \in Partitions, NEW t \in Txns
    PROVE  OnceAt(q, t)'
<1>0. /\ OnceAt(q, t) /\ toSend \in Seq(RemoteTxn) /\ txnCache \in [Partitions -> Seq(Entry)]
  BY DEF DeliveryInv, ShipInv, TypeOK
<1>1. UNCHANGED <<logChan, inbox, log, lastSharedPos, currentTxnPos, partsChan, copying, sent>>
  BY DEF PrepareDataToSend, logVars, loggerVars
<1>2. /\ IsLogged(q, t)' <=> IsLogged(q, t)
      /\ InBox(q, t)' = InBox(q, t) /\ InLog(q, t)' = InLog(q, t) /\ InReplies(q, t)' = InReplies(q, t)
      /\ InSlice(copying, q, t)' = InSlice(copying, q, t) /\ InSent(q, t)' = InSent(q, t)
  BY <1>1, PlacesStay
<1>3. PICK s : s = Scan[NParts]
  OBVIOUS
<1>4. CASE UNCHANGED <<toSend, txnCache>>
  <2>1. InCache(q, t)' = InCache(q, t) /\ InToSend(q, t)' = InToSend(q, t)
    BY <1>4, PlacesStay
  <2> QED BY <1>0, <1>2, <2>1, SimSame, NothingMoves
<1>5. CASE /\ ~s.stop
           /\ toSend' = Append(toSend, [clk |-> s.min, upds |-> s.upds])
           /\ txnCache' = [p \in Partitions |->
                              IF p \in {u.part : u \in s.upds} THEN Tail(txnCache[p]) ELSE txnCache[p]]
  <2>0. rpc = "prepare"
    BY DEF PrepareDataToSend
  <2>1. /\ s.min \in Clock /\ s.upds \in SUBSET Upd
        /\ \A u \in s.upds : u.part \in Partitions /\ u.txn = txnCache[u.part][1].txn
    <3>1. CachesRead
      BY <2>0 DEF ShipInv, TypeOK, CachesOK, CacheOK, CachesRead
    <3>2. FoundOK(s)
      BY <1>3, <3>1, ScanFound
    <3> QED BY <1>3, <1>5, <2>0, <3>2, MergeFacts DEF FoundOK
  <2>2. PICK e : e = [clk |-> s.min, upds |-> s.upds]
    OBVIOUS
  <2>3. e \in RemoteTxn /\ e.upds = s.upds
    BY <2>1, <2>2 DEF RemoteTxn
  <2>4. PICK w : w = toSend
    OBVIOUS
  <2>5. PICK v : v = toSend'
    OBVIOUS
  <2>6. /\ Len(w) \in Nat /\ Len(v) = Len(w) + 1 /\ v[Len(w) + 1] = e
        /\ \A i \in 1 .. Len(w) : v[i] = w[i]
    BY <1>0, <1>5, <2>2, <2>3, <2>4, <2>5, AppendFacts
  <2>7. PICK x : x = txnCache[q]
    OBVIOUS
  <2>8. PICK y : y = txnCache'[q]
    OBVIOUS
  <2>9. PICK u : u = [part |-> q, txn |-> t]
    OBVIOUS
  <2> DEFINE B == {i \in 1 .. Len(w) : u \in w[i].upds}
             B2 == {i \in 1 .. Len(v) : u \in v[i].upds}
             A == {i \in 1 .. Len(x) : x[i].txn = t}
             A2 == {i \in 1 .. Len(y) : y[i].txn = t}
  <2>10. /\ InCache(q, t) = A /\ InCache(q, t)' = A2 /\ InToSend(q, t) = B /\ InToSend(q, t)' = B2
    BY <2>4, <2>5, <2>7, <2>8, <2>9 DEF InCache, InToSend
  <2>11. 1 .. Len(v) = (1 .. Len(w)) \cup {Len(w) + 1} /\ Len(w) + 1 \notin 1 .. Len(w)
    BY <2>6
  <2>12. x \in Seq(Entry) /\ x # <<>>
    BY <1>0, <2>0, <2>7 DEF ShipInv, CachesOK, CacheOK
  <2>13. CASE q \notin {o.part : o \in s.upds}
    <3>1. y = x
      BY <1>0, <1>5, <2>7, <2>8, <2>13
    <3>2. u \notin s.upds
      BY <2>9, <2>13
    <3>3. B2 = B
      BY <2>3, <2>6, <2>11, <3>2
    <3>4. A2 = A
      BY <3>1
    <3> HIDE DEF A, A2, B, B2
    <3> QED BY <1>0, <1>2, <2>10, <3>3, <3>4, SimSame, NothingMoves
  <2>14. CASE q \in {o.part : o \in s.upds}
    <3>1. y = Tail(x)
      BY <1>0, <1>5, <2>7, <2>8, <2>14
    <3>2. /\ Len(x) \in Nat /\ Len(x) >= 1 /\ Len(y) = Len(x) - 1
          /\ \A i \in 1 .. (Len(x) - 1) : y[i] = x[i + 1] /\ i + 1 \in 1 .. Len(x)
      BY <2>12, <3>1, TailFacts
    <3>3. u \in s.upds <=> x[1].txn = t
      <4>1. PICK o \in s.upds : o.part = q
        BY <2>14
      <4>2. o \in Upd /\ o.txn = x[1].txn
        BY <2>1, <2>7, <4>1
      <4>3. o = [part |-> q, txn |-> x[1].txn]
        BY <4>1, <4>2 DEF Upd
      <4>4. u \in s.upds => x[1].txn = t
        BY <2>1, <2>7, <2>9
      <4> QED BY <2>9, <4>1, <4>3, <4>4
    <3>4. PICK k : k = 1
      OBVIOUS
    <3>5. k \in 0 .. Len(x) /\ A \in SUBSET (1 .. Len(x)) /\ A2 \in SUBSET (1 .. (Len(x) - k))
      BY <3>2, <3>4
    <3>6. B \in SUBSET (1 .. Len(w)) /\ B2 \in SUBSET (1 .. (Len(w) + k))
      BY <2>6, <3>4
    <3>7. \A i \in 1 .. (Len(x) - k) : i \in A2 <=> i + k \in A
      BY <3>2, <3>4
    <3>8. \A i \in 1 .. Len(w) : i \in B2 <=> i \in B
      BY <2>6, <2>11
    <3>9. \A i \in 1 .. k : Len(w) + i \in B2 <=> i \in A
      <4>1. \A i \in 1 .. k : i = 1
        BY <3>4
      <4>2. Len(w) + 1 \in B2 <=> u \in s.upds
        BY <2>3, <2>6, <2>11
      <4>3. 1 \in A <=> x[1].txn = t
        BY <3>2
      <4> QED BY <3>3, <4>1, <4>2, <4>3
    <3> HIDE DEF A, A2, B, B2
    <3>10. Handed(A, B, A2, B2)
      BY <2>6, <3>2, <3>5, <3>6, <3>7, <3>8, <3>9, Handover
    <3>11. MergedStep(q, t)
      BY <1>2, <2>10, <3>10 DEF MergedStep
    <3> QED BY <1>0, <1>2, <3>11, OnceStep
  <2> QED BY <2>13, <2>14
<1> QED BY <1>3, <1>4, <1>5 DEF PrepareDataToSend


\* The first k transactions to send are sent.
LEMMA OnceShipped ==
    ASSUME ShipInv, NEW q \in Partitions, NEW t \in Txns, OnceAt(q, t),
           NEW k \in 0 .. Len(toSend), NEW m \in Seq(SentItem), Len(m) = k,
           \A i \in 1 .. k : m[i].upds = toSend[i].upds,
           sent' = sent \o m,
           Len(toSend') = Len(toSend) - k, \A i \in 1 .. (Len(toSend) - k) : toSend'[i] = toSend[i + k],
           UNCHANGED <<logChan, inbox, log, lastSharedPos, currentTxnPos, partsChan, copying, txnCache>>
    PROVE  OnceAt(q, t)'
<1>0. toSend \in Seq(RemoteTxn) /\ sent \in Seq(SentItem)
  BY DEF ShipInv, TypeOK
<1>1. /\ IsLogged(q, t)' <=> IsLogged(q, t)
      /\ InBox(q, t)' = InBox(q, t) /\ InLog(q, t)' = InLog(q, t) /\ InReplies(q, t)' = InReplies(q, t)
      /\ InSlice(copying, q, t)' = InSlice(copying, q, t) /\ InCache(q, t)' = InCache(q, t)
  BY PlacesStay
<1>2. PICK x : x = toSend
  OBVIOUS
<1>3. PICK y : y = toSend'
  OBVIOUS
<1>4. PICK v : v = sent
  OBVIOUS
<1>5. PICK w : w = sent'
  OBVIOUS
<1>6. PICK u : u = [part |-> q, txn |-> t]
  OBVIOUS
<1>7. PICK n \in Nat : n = Len(x)
  BY <1>0, <1>2
<1>8. k \in 0 .. n /\ k \in Nat /\ Len(y) = n - k /\ \A i \in 1 .. (n - k) : y[i] = x[i + k] /\ i + k \in 1 .. n
  BY <1>2, <1>3, <1>7
<1>9. PICK l \in Nat : l = Len(v)
  BY <1>0, <1>4
<1>10. /\ Len(w) = l + k
       /\ \A i \in 1 .. l : w[i] = v[i]
       /\ \A i \in 1 .. k : w[l + i] = m[i]
  <2>1. v \in Seq(SentItem) /\ m \in Seq(SentItem)
    BY <1>0, <1>4
  <2>2. /\ Len(v \o m) = Len(v) + Len(m) /\ \A i \in 1 .. Len(v) : (v \o m)[i] = v[i]
        /\ \A i \in 1 .. Len(m) : (v \o m)[Len(v) + i] = m[i]
    BY ONLY <2>1, ConcatFacts
  <2>3. w = v \o m /\ Len(m) = k /\ Len(v) = l
    BY <1>4, <1>5, <1>9
  <2> QED BY ONLY <2>2, <2>3
<1> DEFINE A == {i \in 1 .. n : u \in x[i].upds}
           A2 == {i \in 1 .. (n - k) : u \in y[i].upds}
           B == {i \in 1 .. l : u \in v[i].upds}
           B2 == {i \in 1 .. (l + k) : u \in w[i].upds}
<1>11. InToSend(q, t) = A /\ InToSend(q, t)' = A2 /\ InSent(q, t) = B /\ InSent(q, t)' = B2
  BY <1>2, <1>3, <1>4, <1>5, <1>6, <1>7, <1>8, <1>9, <1>10 DEF InToSend, InSent
<1>12. A \in SUBSET (1 .. n) /\ A2 \in SUBSET (1 .. (n - k)) /\ B \in SUBSET (1 .. l) /\ B2 \in SUBSET (1 .. (l + k))
  OBVIOUS
<1>13. \A i \in 1 .. (n - k) : i \in A2 <=> i + k \in A
  BY <1>8
<1>14. \A i \in 1 .. l : i \in B2 <=> i \in B
  BY <1>8, <1>10
<1>15. \A i \in 1 .. k : l + i \in B2 <=> i \in A
  <2> SUFFICES ASSUME NEW i \in 1 .. k PROVE l + i \in B2 <=> i \in A
    OBVIOUS
  <2>1. l + i \in 1 .. (l + k) /\ i \in 1 .. n
    BY SMTT(60), <1>8
  <2>2. w[l + i].upds = x[i].upds
    BY <1>2, <1>10
  <2> QED BY <2>1, <2>2
<1> HIDE DEF A, A2, B, B2
<1>16. Handed(A, B, A2, B2)
  BY <1>8, <1>12, <1>13, <1>14, <1>15, Handover
<1>17. ShippedStep(q, t)
  BY <1>1, <1>11, <1>16 DEF ShippedStep
<1> QED BY <1>1, <1>17, OnceStep

\* The first k transactions to send become the messages m.
SendShape(k, m) ==
    /\ k \in 0 .. Len(toSend) /\ m \in Seq(SentItem) /\ Len(m) = k
    /\ \A i \in 1 .. k : m[i].upds = toSend[i].upds
    /\ sent' = sent \o m
    /\ Len(toSend') = Len(toSend) - k /\ \A i \in 1 .. (Len(toSend) - k) : toSend'[i] = toSend[i + k]

\* What the steps that send do with the transactions to send
LEMMA SendSteps ==
    ASSUME ShipInv, SendTxnsIndividually \/ SendGroupTxns
    PROVE  /\ UNCHANGED <<logVars, inbox, log, lastSharedPos, currentTxnPos, partsChan, copying, txnCache>>
           /\ \E k, m : SendShape(k, m)
<1>0. /\ toSend \in Seq(RemoteTxn) /\ sent \in Seq(SentItem) /\ nMsgs \in Nat
      /\ Len(toSend) \in Nat /\ rpc \in {"single", "group"} => toSend # <<>>
  BY DEF ShipInv, TypeOK, PhaseOK
<1>1. UNCHANGED <<logVars, inbox, log, lastSharedPos, currentTxnPos, partsChan, copying, txnCache>>
  BY DEF SendTxnsIndividually, SendGroupTxns, loggerVars
<1>2. \A n : /\ \A i \in 1 .. n : Individually(n)[i].upds = toSend[i].upds
             /\ \A i \in 1 .. n : InGroup(n)[i].upds = toSend[i].upds
  BY DEF Individually, InGroup
<1>3. CASE SendTxnsIndividually
  <2>1. PICK k : k = Len(toSend)
    OBVIOUS
  <2>2. k \in 0 .. Len(toSend)
    BY <1>0, <2>1
  <2>3. Individually(k) \in Seq(SentItem) /\ Len(Individually(k)) = k
    BY <1>0, <2>2, SentItems
  <2>4. sent' = sent \o Individually(k) /\ toSend' = <<>>
    BY <1>3, <2>1 DEF SendTxnsIndividually
  <2>5. Len(toSend') = Len(toSend) - k /\ \A i \in 1 .. (Len(toSend) - k) : toSend'[i] = toSend[i + k]
    BY <1>0, <2>1, <2>4
  <2> QED BY ZenonT(60), <1>1, <1>2, <2>2, <2>3, <2>4, <2>5 DEF SendShape
<1>4. CASE SendGroupTxns
  <2>1. PICK k : k = GroupEnd
    OBVIOUS
  <2>2. k \in 1 .. Len(toSend)
    BY <1>0, <1>4, <2>1, GroupEndFacts DEF SendGroupTxns
  <2>3. k \in 0 .. Len(toSend)
    BY <1>0, <2>2
  <2>4. /\ Individually(k) \in Seq(SentItem) /\ Len(Individually(k)) = k
        /\ InGroup(k) \in Seq(SentItem) /\ Len(InGroup(k)) = k
    BY <1>0, <2>3, SentItems
  <2>5. PICK m : (m = Individually(k) \/ m = InGroup(k)) /\ sent' = sent \o m
    BY <1>4, <2>1 DEF SendGroupTxns
  <2>6. m \in Seq(SentItem) /\ Len(m) = k /\ \A i \in 1 .. k : m[i].upds = toSend[i].upds
    BY <1>2, <2>4, <2>5
  <2>7. toSend' = SubSeq(toSend, k + 1, Len(toSend))
    BY <1>4, <2>1 DEF SendGroupTxns
  <2>8. Len(toSend') = Len(toSend) - k /\ \A i \in 1 .. (Len(toSend) - k) : toSend'[i] = toSend[i + k]
    <3>1. PICK x \in Seq(RemoteTxn) : x = toSend
      BY <1>0
    <3>2. PICK n \in Nat : n = Len(x)
      BY <3>1
    <3>3. Len(SubSeq(x, k + 1, n)) = n - k
      BY <2>2, <3>1, <3>2
    <3>4. \A i \in 1 .. (n - k) : SubSeq(x, k + 1, n)[i] = x[i + k]
      BY <2>2, <3>1, <3>2
    <3> QED BY <2>7, <3>1, <3>2, <3>3, <3>4
  <2> QED BY <1>1, <2>3, <2>5, <2>6, <2>8 DEF SendShape
<1> QED BY <1>3, <1>4

LEMMA OnceSends ==
    ASSUME ShipInv, DeliveryInv, SendTxnsIndividually \/ SendGroupTxns \/ SendStableClk,
           NEW q \in Partitions, NEW t \in Txns
    PROVE  OnceAt(q, t)'
<1>0. OnceAt(q, t) /\ sent \in Seq(SentItem)
  BY DEF DeliveryInv, ShipInv, TypeOK
<1>1. UNCHANGED <<logChan, inbox, log, lastSharedPos, currentTxnPos, partsChan, copying, txnCache>>
  BY DEF SendTxnsIndividually, SendGroupTxns, SendStableClk, logVars, loggerVars
<1>3. CASE SendTxnsIndividually \/ SendGroupTxns
  <2>1. PICK k, m : SendShape(k, m)
    BY <1>3, SendSteps
  <2> QED BY <1>0, <1>1, <2>1, OnceShipped DEF SendShape
<1>5. CASE SendStableClk
  <2>1. PICK e : sent' = Append(sent, e) /\ e.upds = {}
    BY <1>5 DEF SendStableClk
  <2>2. InSent(q, t)' = InSent(q, t)
    <3>1. PICK v : v = sent
      OBVIOUS
    <3>2. PICK w : w = sent'
      OBVIOUS
    <3>3. /\ Len(v) \in Nat /\ Len(w) = Len(v) + 1 /\ w[Len(v) + 1] = e
          /\ \A i \in 1 .. Len(v) : w[i] = v[i]
      BY <1>0, <2>1, <3>1, <3>2
    <3>4. 1 .. Len(w) = (1 .. Len(v)) \cup {Len(v) + 1}
      BY <3>3
    <3>5. PICK u : u = [part |-> q, txn |-> t]
      OBVIOUS
    <3>6. {i \in 1 .. Len(w) : u \in w[i].upds} = {i \in 1 .. Len(v) : u \in v[i].upds}
      BY <2>1, <3>3, <3>4
    <3> QED BY <3>1, <3>2, <3>5, <3>6 DEF InSent
  <2>3. UNCHANGED toSend
    BY <1>5 DEF SendStableClk
  <2>4. /\ InBox(q, t)' = InBox(q, t) /\ InLog(q, t)' = InLog(q, t)
        /\ InReplies(q, t)' = InReplies(q, t) /\ InSlice(copying, q, t)' = InSlice(copying, q, t)
        /\ InCache(q, t)' = InCache(q, t) /\ InToSend(q, t)' = InToSend(q, t)
        /\ IsLogged(q, t)' <=> IsLogged(q, t)
    BY <1>1, <2>3, PlacesStay
  <2> QED BY <1>0, <2>2, <2>4, SimSame, NothingMoves
<1> QED BY <1>3, <1>5

-----------------------------------------------------------------------------
(* Every transaction is on its way exactly once *)

LEMMA CopyNext == ShipInv /\ CopyOK /\ [Next]_vars => CopyOK'
<1> SUFFICES ASSUME ShipInv, CopyOK, [Next]_vars PROVE CopyOK'
  OBVIOUS
<1>1. CASE UNCHANGED <<rpc, copying>>
  BY <1>1 DEF CopyOK
<1>2. CASE UNCHANGED replVars \/ UNCHANGED vars
  BY <1>1, <1>2 DEF replVars, vars
<1>3. CASE CopyEntry \/ ReceiveReply
  BY <1>3 DEF CopyEntry, ReceiveReply, CopyOK
<1>4. CASE UNCHANGED copying /\ rpc # "copy"
  BY <1>4 DEF CopyOK
<1>5. CASE \/ AskPartition \/ PrepareDataToSend \/ SendTxnsIndividually \/ SendGroupTxns
           \/ SendStableClk \/ NextCycle
  <2>1. UNCHANGED copying /\ rpc # "copy"
    BY <1>5 DEF AskPartition, PrepareDataToSend, SendTxnsIndividually, SendGroupTxns, SendStableClk, NextCycle
  <2> QED BY <1>4, <2>1
<1>6. CASE \/ \E t \in Txns : DecideTxn(t)
           \/ \E p \in Partitions :
                 \/ \E t \in Txns : PartitionCommits(p, t)
                 \/ PartitionAnswers(p) \/ Logger(p) \/ TimerFires(p) \/ SendTimeout(p)
  <2>1. UNCHANGED replVars
    BY <1>6 DEF DecideTxn, PartitionCommits, PartitionAnswers, Logger, TimerFires, SendTimeout,
       HandleCommitLogRequest, HandleTxnLogRequest, HandleMatClkRequest, HandleClkTimeoutRequest
  <2> QED BY <1>2, <2>1
<1> QED BY <1>2, <1>3, <1>5, <1>6 DEF Next, Replicator

LEMMA DeliveryInit == Init => DeliveryInv
<1> SUFFICES ASSUME Init PROVE DeliveryInv
  OBVIOUS
<1>1. CopyOK
  BY DEF Init, CopyOK
<1>2. ASSUME NEW p \in Partitions, NEW t \in Txns PROVE OnceAt(p, t)
  <2>0. NoTxn # t
    BY ClkMessages
  <2>1. ~IsLogged(p, t)
    BY <1>2 DEF Init, LogInit, IsLogged
  <2>2. InBox(p, t) = {} /\ InLog(p, t) = {} /\ InSlice(copying, p, t) = {}
    BY DEF Init, InBox, InLog, InSlice, NoReply
  <2>3. InReplies(p, t) = {}
    <3>1. \A z : z \notin InReplies(p, t)
      BY RepliesHold DEF Init
    <3> QED BY <3>1
  <2>4. InCache(p, t) = {}
    BY <2>0 DEF Init, InCache
  <2>5. InToSend(p, t) = {} /\ InSent(p, t) = {}
    BY DEF Init, InToSend, InSent
  <2>6. PICK W : W = Places(p, t)
    OBVIOUS
  <2>7. W[1] = {} /\ W[2] = {} /\ W[3] = {} /\ W[4] = {} /\ W[5] = {} /\ W[6] = {} /\ W[7] = {}
    BY <2>2, <2>3, <2>4, <2>5, <2>6, PlacesAre
  <2>8. \A k \in 1 .. 7 : k = 1 \/ k = 2 \/ k = 3 \/ k = 4 \/ k = 5 \/ k = 6 \/ k = 7
    OBVIOUS
  <2>9. Nowhere(W)
    BY <2>7, <2>8 DEF Nowhere
  <2> QED BY <2>1, <2>6, <2>9 DEF OnceAt
<1> QED BY <1>1, <1>2 DEF DeliveryInv

LEMMA DeliveryNext == ShipInv /\ DeliveryInv /\ [Next /\ CopiedInTime]_vars => DeliveryInv'
<1> SUFFICES ASSUME ShipInv, DeliveryInv, [Next /\ CopiedInTime]_vars PROVE DeliveryInv'
  OBVIOUS
<1>1. CopyOK'
  BY CopyNext DEF DeliveryInv
<1>2. ASSUME NEW q \in Partitions, NEW t \in Txns PROVE OnceAt(q, t)'
  <2>1. CASE UNCHANGED vars
    <3>1. UNCHANGED <<inbox, log, lastSharedPos, currentTxnPos, partsChan, copying, txnCache, toSend, sent, logChan>>
      BY <2>1 DEF vars, logVars, loggerVars, replVars
    <3>2. IsLogged(q, t)' <=> IsLogged(q, t)
      BY <3>1, PlacesStay
    <3> QED BY <1>2, <3>1, <3>2, OnceInbox DEF DeliveryInv
  <2>2. CASE Next /\ CopiedInTime
    <3>1. CASE \/ \E u \in Txns : DecideTxn(u)
               \/ \E p \in Partitions : PartitionAnswers(p) \/ TimerFires(p) \/ SendTimeout(p)
               \/ AskPartition \/ NextCycle
      BY <1>2, <3>1, OnceMessages
    <3>2. ASSUME NEW p \in Partitions, NEW u \in Txns, PartitionCommits(p, u) PROVE OnceAt(q, t)'
      BY <1>2, <3>2, OncePartitionCommits
    <3>3. ASSUME NEW p \in Partitions, HandleCommitLogRequest(p) PROVE OnceAt(q, t)'
      BY <1>2, <2>2, <3>3, OnceCommitLogged
    <3>4. ASSUME NEW p \in Partitions,
                 HandleTxnLogRequest(p) \/ HandleMatClkRequest(p) \/ HandleClkTimeoutRequest(p)
          PROVE  OnceAt(q, t)'
      BY <1>2, <3>4, OnceAnswers
    <3>5. CASE ReceiveReply
      BY <1>2, <3>5, OnceReceive
    <3>6. CASE CopyEntry
      BY <1>2, <3>6, OnceCopy
    <3>7. CASE PrepareDataToSend
      BY <1>2, <3>7, OncePrepare
    <3>8. CASE SendTxnsIndividually \/ SendGroupTxns \/ SendStableClk
      BY <1>2, <3>8, OnceSends
    <3> QED BY <2>2, <3>1, <3>2, <3>3, <3>4, <3>5, <3>6, <3>7, <3>8 DEF Next, Logger, Replicator
  <2> QED BY <2>1, <2>2
<1> QED BY <1>1, <1>2 DEF DeliveryInv

\* The places are finite sets of none or one.
LEMMA DeliveryCounts ==
    ASSUME DeliveryInv
    PROVE  NothingLost
<1> SUFFICES ASSUME NEW p \in Partitions, NEW t \in Txns
             PROVE  Copies(p, t) = IF IsLogged(p, t) /\ ~InInbox(p, t) THEN 1 ELSE 0
  BY DEF NothingLost
<1>1. OnceAt(p, t)
  BY DEF DeliveryInv
<1>2. PICK W : W = Places(p, t)
  OBVIOUS
<1>3. /\ W[1] = InBox(p, t) /\ W[2] = InLog(p, t) /\ W[3] = InReplies(p, t)
      /\ W[4] = InSlice(copying, p, t) /\ W[5] = InCache(p, t)
      /\ W[6] = InToSend(p, t) /\ W[7] = InSent(p, t)
  BY <1>2, PlacesAre
<1>4. InInbox(p, t) <=> W[1] # {}
  BY <1>3 DEF InInbox, InBox
<1>5. \A S : Single(S) => Cardinality(S) = 1 /\ S # {}
  BY FS_Singleton DEF Single
<1>6. Cardinality({}) = 0
  BY FS_EmptySet
<1>7. Copies(p, t) = Cardinality(W[2]) + Cardinality(W[3]) + Cardinality(W[4])
                       + Cardinality(W[5]) + Cardinality(W[6]) + Cardinality(W[7])
  BY <1>3 DEF Copies
<1>8. CASE ~IsLogged(p, t)
  <2>1. W[2] = {} /\ W[3] = {} /\ W[4] = {} /\ W[5] = {} /\ W[6] = {} /\ W[7] = {}
    BY <1>1, <1>2, <1>8 DEF OnceAt, Nowhere
  <2> QED BY <1>6, <1>7, <1>8, <2>1
<1>9. CASE IsLogged(p, t)
  <2>1. PICK k \in 1 .. 7 : Single(W[k]) /\ \A l \in (1 .. 7) \ {k} : W[l] = {}
    BY <1>1, <1>2, <1>9 DEF OnceAt, Once
  <2>2. \A l \in 1 .. 7 : Cardinality(W[l]) = IF l = k THEN 1 ELSE 0
    BY <1>5, <1>6, <2>1
  <2>3. W[1] # {} <=> k = 1
    BY <1>5, <2>1
  <2>4. Copies(p, t) = IF k = 1 THEN 0 ELSE 1
    BY <1>7, <2>2
  <2> QED BY <1>4, <1>9, <2>3, <2>4
<1> QED BY <1>8, <1>9

\* As long as the replicator copies the slices before their slots are written again, every
\* transaction a logger has taken from its partition is on its way to the other replicas
\* exactly once, however late replies, safe clocks and timeouts are.
THEOREM DeliveredOnce == SpecInTime => []NothingLost
<1>1. [Next /\ CopiedInTime]_vars => [Next]_vars
  OBVIOUS
<1>2. SpecInTime => [](ShipInv /\ DeliveryInv)
  BY <1>1, ShipInvInit, ShipInvNext, DeliveryInit, DeliveryNext, PTL DEF SpecInTime
<1>3. DeliveryInv => NothingLost
  BY DeliveryCounts
<1> QED BY <1>2, <1>3, PTL


LEMMA WholeLogSpec ==
    ASSUME KeepWholeLog
    PROVE  Spec => SpecInTime
<1>1. Init => SlicesShared
  BY PartitionLogConstants DEF Init, SlicesShared, Slices, NoReply, Partitions
<1>2. ShipInv /\ SlicesShared /\ [Next]_vars => SlicesShared'
  BY SlicesSharedNext
<1>3. ShipInv /\ SlicesShared /\ [Next]_vars => [Next /\ CopiedInTime]_vars
  BY WholeLogInTime
<1> QED BY <1>1, <1>2, <1>3, Shipping, PTL DEF Spec, SpecInTime

\* A logger that keeps its whole log loses and repeats nothing under every scheduling.
THEOREM WholeLogDelivered ==
    ASSUME KeepWholeLog
    PROVE  Spec => []NothingLost
<1>1. Spec => SpecInTime
  BY WholeLogSpec
<1> QED BY <1>1, DeliveredOnce, PTL

-----------------------------------------------------------------------------
(* A transaction leaves as one transaction *)

\* The position of this replica orders the timestamps of its transactions, and the others
\* follow: two with the same position are equal.
TimestampsBySelf == \A c, d \in Timestamps : c[Self] <= d[Self] => IsLowerOrEqual(c, d)

\* No other transaction has the timestamp of t.
Untied(t) == \A u \in Txns \ {t} : involved[u] # {} => ~IsEqual(commitTs[u], commitTs[t])

\* An entry on the way from p is about a transaction of p, with its timestamp.
EntryOK(p, e) == e.txn \in Txns => p \in involved[e.txn] /\ e.clk = commitTs[e.txn]
AllOK(p, s) == \A i \in 1 .. Len(s) : EntryOK(p, s[i])
EntriesOK ==
    \A p \in Partitions : AllOK(p, inbox[p]) /\ AllOK(p, log[p]) /\ AllOK(p, txnCache[p])

\* A transaction that is merged has partitions of its own, and all of them unless it is tied.
PartsIn(S, t) == {p \in Partitions : [part |-> p, txn |-> t] \in S}
ItemOK(S) ==
    /\ \A p \in Partitions, t \in Txns : [part |-> p, txn |-> t] \in S => p \in involved[t]
    /\ \A t \in Txns : Untied(t) => PartsIn(S, t) \in {{}, involved[t]}
ItemsOK ==
    /\ \A i \in 1 .. Len(toSend) : ItemOK(toSend[i].upds)
    /\ \A i \in 1 .. Len(sent) : ItemOK(sent[i].upds)

LEMMA BySelfOrdered ==
    ASSUME TimestampsBySelf
    PROVE  /\ TimestampsOrdered
           /\ \A c, d \in Timestamps : IsLowerOrEqual(c, d) /\ c # d => c[Self] < d[Self]
<1>1. \A c \in Timestamps : c \in Clock /\ c[Self] \in Nat
  BY PartitionLogConstants, LogShipConstants DEF Clock
<1>2. TimestampsOrdered
  BY <1>1 DEF TimestampsBySelf, TimestampsOrdered
<1>3. ASSUME NEW c \in Timestamps, NEW d \in Timestamps, IsLowerOrEqual(c, d), c # d
      PROVE  c[Self] < d[Self]
  <2>1. c[Self] <= d[Self]
    BY <1>3, LogShipConstants DEF IsLowerOrEqual
  <2>2. ASSUME c[Self] = d[Self] PROVE FALSE
    <3>1. IsLowerOrEqual(d, c)
      BY <1>1, <2>2 DEF TimestampsBySelf
    <3>2. \A r \in Replicas : c[r] \in Nat /\ d[r] \in Nat
      BY <1>1 DEF Clock
    <3>3. ASSUME NEW r \in Replicas PROVE c[r] = d[r]
      <4>1. c[r] <= d[r] /\ d[r] <= c[r] /\ c[r] \in Nat /\ d[r] \in Nat
        BY <1>3, <3>1, <3>2 DEF IsLowerOrEqual
      <4> QED BY ONLY <4>1
    <3>4. c = d
      BY <1>1, <3>3 DEF Clock
    <3> QED BY <1>3, <3>4
  <2> QED BY <1>1, <2>1, <2>2
<1> QED BY <1>2, <1>3

\* The decisions stay.
LEMMA EntriesStay ==
    ASSUME UNCHANGED <<involved, commitTs>>,
           \A p \in Partitions : AllOK(p, inbox'[p]) /\ AllOK(p, log'[p]) /\ AllOK(p, txnCache'[p])
    PROVE  EntriesOK'
BY DEF EntriesOK, AllOK, EntryOK

LEMMA ItemsStay ==
    ASSUME UNCHANGED <<involved, commitTs>>,
           \A i \in 1 .. Len(toSend') : ItemOK(toSend'[i].upds),
           \A i \in 1 .. Len(sent') : ItemOK(sent'[i].upds)
    PROVE  ItemsOK'
BY DEF ItemsOK, ItemOK, Untied, PartsIn

\* What happens to a sequence of entries
LEMMA AllAppend ==
    ASSUME NEW S, NEW p, NEW s \in Seq(S), NEW e \in S, AllOK(p, s), EntryOK(p, e)
    PROVE  AllOK(p, Append(s, e))
<1>1. /\ Len(s) \in Nat /\ Len(Append(s, e)) = Len(s) + 1 /\ Append(s, e)[Len(s) + 1] = e
      /\ \A i \in 1 .. Len(s) : Append(s, e)[i] = s[i]
  BY AppendFacts
<1>2. \A i \in 1 .. (Len(s) + 1) : i \in 1 .. Len(s) \/ i = Len(s) + 1
  BY <1>1
<1> QED BY <1>1, <1>2 DEF AllOK

LEMMA AllTail ==
    ASSUME NEW S, NEW p, NEW s \in Seq(S), s # <<>>, AllOK(p, s)
    PROVE  AllOK(p, Tail(s)) /\ AllOK(p, WithoutLast(s)) /\ EntryOK(p, Head(s))
<1>1. /\ Len(s) \in Nat /\ Len(s) >= 1 /\ Len(Tail(s)) = Len(s) - 1 /\ Head(s) = s[1]
      /\ \A i \in 1 .. (Len(s) - 1) : Tail(s)[i] = s[i + 1] /\ i + 1 \in 1 .. Len(s)
  BY TailFacts
<1>2. /\ Len(WithoutLast(s)) = Len(s) - 1
      /\ \A i \in 1 .. (Len(s) - 1) : WithoutLast(s)[i] = s[i] /\ i \in 1 .. Len(s)
  <2>1. \A i \in 1 .. (Len(s) - 1) : i \in 1 .. Len(s)
    BY <1>1
  <2>2. Len(WithoutLast(s)) = Len(s) - 1 /\ \A i \in 1 .. (Len(s) - 1) : WithoutLast(s)[i] = s[i]
    BY WithoutLastFacts
  <2> QED BY <2>1, <2>2
<1>3. 1 \in 1 .. Len(s)
  BY <1>1
<1> QED BY <1>1, <1>2, <1>3 DEF AllOK

\* A transaction is decided once, before its updates are anywhere.
LEMMA DecideKeeps ==
    ASSUME ShipInv, EntriesOK, ItemsOK, NEW u \in Txns, DecideTxn(u)
    PROVE  EntriesOK' /\ ItemsOK'
<1>1. PICK P \in SUBSET Partitions, clk \in Timestamps : Decide(u, P, clk)
  BY DEF DecideTxn
<1>2. /\ involved \in [Txns -> SUBSET Partitions] /\ commitTs \in [Txns -> Clock] /\ involved[u] = {}
      /\ involved' = [involved EXCEPT ![u] = P] /\ commitTs' = [commitTs EXCEPT ![u] = clk]
      /\ UNCHANGED <<inbox, log, txnCache, toSend, sent>>
  BY <1>1 DEF Decide, DecideTxn, ShipInv, TypeOK, LogTypeOK, loggerVars, replVars
<1>3. \A t \in Txns \ {u} : involved'[t] = involved[t] /\ commitTs'[t] = commitTs[t]
  BY <1>2
<1>4. ASSUME NEW p, NEW e, EntryOK(p, e) PROVE EntryOK(p, e)'
  <2>1. e.txn # u \/ e.txn \notin Txns
    BY <1>2, <1>4 DEF EntryOK
  <2> QED BY <1>3, <1>4, <2>1 DEF EntryOK
<1>5. ASSUME NEW S, ItemOK(S) PROVE ItemOK(S)'
  <2>1. \A p \in Partitions, t \in Txns : [part |-> p, txn |-> t] \in S => p \in involved[t] /\ t # u
    BY <1>2, <1>5 DEF ItemOK
  <2>2. \A p \in Partitions, t \in Txns : [part |-> p, txn |-> t] \in S => p \in involved'[t]
    BY <1>3, <2>1
  <2>3. PartsIn(S, u) = {}
    BY <2>1 DEF PartsIn
  <2>4. ASSUME NEW t \in Txns \ {u}, Untied(t)' PROVE Untied(t)
    <3>1. ASSUME NEW w \in Txns \ {t}, involved[w] # {} PROVE ~IsEqual(commitTs[w], commitTs[t])
      <4>1. w \in Txns \ {u}
        BY <1>2, <3>1
      <4>2. involved'[w] # {} /\ commitTs'[w] = commitTs[w] /\ commitTs'[t] = commitTs[t]
        BY <1>3, <3>1, <4>1
      <4>3. ~IsEqual(commitTs'[w], commitTs'[t])
        BY <2>4, <3>1, <4>2 DEF Untied, IsEqual
      <4> QED BY <4>2, <4>3
    <3> QED BY <3>1 DEF Untied
  <2>5. ASSUME NEW t \in Txns, Untied(t)' PROVE PartsIn(S, t) \in {{}, involved'[t]}
    <3>1. CASE t = u
      BY <2>3, <3>1
    <3>2. CASE t # u
      <4>1. Untied(t) /\ involved'[t] = involved[t]
        BY <1>3, <2>4, <2>5, <3>2
      <4> QED BY <1>5, <4>1 DEF ItemOK
    <3> QED BY <3>1, <3>2
  <2> QED BY <2>2, <2>5 DEF ItemOK, PartsIn
<1>6. EntriesOK'
  <2>1. ASSUME NEW p \in Partitions, NEW s, AllOK(p, s) PROVE AllOK(p, s)'
    BY <1>4, <2>1 DEF AllOK
  <2>2. ASSUME NEW p \in Partitions PROVE (AllOK(p, inbox[p]) /\ AllOK(p, log[p]) /\ AllOK(p, txnCache[p]))'
    <3>1. PICK a : a = inbox[p]
      OBVIOUS
    <3>2. PICK b : b = log[p]
      OBVIOUS
    <3>3. PICK c : c = txnCache[p]
      OBVIOUS
    <3>4. AllOK(p, a) /\ AllOK(p, b) /\ AllOK(p, c)
      BY <3>1, <3>2, <3>3 DEF EntriesOK
    <3>5. AllOK(p, a)' /\ AllOK(p, b)' /\ AllOK(p, c)'
      BY <2>1, <3>4
    <3>6. a = inbox'[p] /\ b = log'[p] /\ c = txnCache'[p]
      BY <1>2, <3>1, <3>2, <3>3
    <3> QED BY <3>5, <3>6
  <2> QED BY <2>2 DEF EntriesOK
<1>7. ItemsOK'
  <2>1. ASSUME NEW i \in 1 .. Len(toSend) PROVE ItemOK(toSend[i].upds)'
    <3>1. PICK S : S = toSend[i].upds
      OBVIOUS
    <3>2. ItemOK(S)'
      BY <1>5, <3>1 DEF ItemsOK
    <3>3. S = toSend'[i].upds
      BY <1>2, <3>1
    <3> QED BY <3>2, <3>3
  <2>2. ASSUME NEW i \in 1 .. Len(sent) PROVE ItemOK(sent[i].upds)'
    <3>1. PICK S : S = sent[i].upds
      OBVIOUS
    <3>2. ItemOK(S)'
      BY <1>5, <3>1 DEF ItemsOK
    <3>3. S = sent'[i].upds
      BY <1>2, <3>1
    <3> QED BY <3>2, <3>3
  <2> QED BY <1>2, <2>1, <2>2 DEF ItemsOK
<1> QED BY <1>6, <1>7


\* The entries on the way are about transactions of their partition.
LEMMA EntriesNext ==
    ASSUME ShipInv, EntriesOK, Next, UNCHANGED <<involved, commitTs>>
    PROVE  EntriesOK'
<1>0. /\ inbox \in [Partitions -> Seq(LoggerMsg)] /\ log \in [Partitions -> Seq(Entry)]
      /\ txnCache \in [Partitions -> Seq(Entry)]
      /\ \A q \in Partitions : AllOK(q, inbox[q]) /\ AllOK(q, log[q]) /\ AllOK(q, txnCache[q])
  BY DEF ShipInv, TypeOK, EntriesOK
<1>1. CASE UNCHANGED <<inbox, log, txnCache>>
  BY <1>0, <1>1, EntriesStay
<1>2. ASSUME NEW p \in Partitions, NEW m \in LoggerMsg, EntryOK(p, m),
             inbox' = [inbox EXCEPT ![p] = Append(@, m)], UNCHANGED <<log, txnCache>>
      PROVE  EntriesOK'
  <2>1. ASSUME NEW q \in Partitions PROVE AllOK(q, inbox'[q])
    <3>1. CASE q = p
      <4>1. AllOK(q, Append(inbox[q], m)) /\ inbox'[q] = Append(inbox[q], m)
        BY <1>0, <1>2, <3>1, AllAppend
      <4> QED BY <4>1
    <3>2. CASE q # p
      BY <1>0, <1>2, <3>2
    <3> QED BY <3>1, <3>2
  <2> QED BY <1>0, <1>2, <2>1, EntriesStay
<1>3. ASSUME NEW p \in Partitions, inbox[p] # <<>>, inbox' = [inbox EXCEPT ![p] = Tail(@)]
      PROVE  EntryOK(p, Head(inbox[p])) /\ \A q \in Partitions : AllOK(q, inbox'[q])
  <2>1. AllOK(p, Tail(inbox[p])) /\ EntryOK(p, Head(inbox[p]))
    BY <1>0, <1>3, AllTail
  <2>2. ASSUME NEW q \in Partitions PROVE AllOK(q, inbox'[q])
    <3>1. CASE q = p
      BY <1>0, <1>3, <2>1, <3>1
    <3>2. CASE q # p
      BY <1>0, <1>3, <3>2
    <3> QED BY <3>1, <3>2
  <2> QED BY <2>1, <2>2
<1>4. \A q, m : m.txn = NoTxn => EntryOK(q, m)
  BY ClkMessages DEF EntryOK
<1>5. ASSUME NEW p \in Partitions, NEW t \in Txns, PartitionCommits(p, t) PROVE EntriesOK'
  <2>1. PICK m : m = CommitEntry(t)
    OBVIOUS
  <2>2. m.txn = t /\ m.clk = commitTs[t] /\ p \in involved[t] /\ commitTs[t] \in Timestamps
    BY <1>5, <2>1 DEF CommitEntry, PartitionCommits, LogCommit, Unlogged, ShipInv, DecidedOK
  <2>3. EntryOK(p, m) /\ m \in LoggerMsg
    <3>1. EntryOK(p, m)
      BY <2>2 DEF EntryOK
    <3>2. m \in LoggerMsg
      BY <2>1, <2>2, NewMessages DEF CommitEntry
    <3> QED BY <3>1, <3>2
  <2> QED BY <1>2, <1>5, <2>1, <2>3 DEF PartitionCommits, replVars
<1>6. ASSUME NEW p \in Partitions, PartitionAnswers(p) PROVE EntriesOK'
  <2>1. PICK c \in Timestamps : inbox' = [inbox EXCEPT ![p] = Append(@, ClkEntry(c))]
    BY <1>6 DEF PartitionAnswers
  <2>2. PICK m : m = ClkEntry(c)
    OBVIOUS
  <2>3. m \in LoggerMsg /\ m.txn = NoTxn
    BY <2>2, ClkMessages
  <2> QED BY <1>2, <1>4, <1>6, <2>1, <2>2, <2>3 DEF PartitionAnswers, replVars
<1>7. ASSUME NEW p \in Partitions, SendTimeout(p) PROVE EntriesOK'
  <2>1. PICK m : m = [type |-> "timeout", txn |-> NoTxn, clk |-> NewTimestamp]
    OBVIOUS
  <2>2. m \in LoggerMsg /\ m.txn = NoTxn
    BY <2>1, ClkMessages
  <2> QED BY <1>2, <1>4, <1>7, <2>1, <2>2 DEF SendTimeout, replVars
<1>8. CASE AskPartition
  <2>1. PICK m : m = [type |-> "txnLog", txn |-> NoTxn, clk |-> NewTimestamp]
    OBVIOUS
  <2>2. m \in LoggerMsg /\ m.txn = NoTxn
    BY <2>1, ClkMessages
  <2>3. asked \in Partitions
    BY <1>8, PartitionLogConstants DEF AskPartition, ShipInv, TypeOK, PhaseOK, Partitions
  <2> QED BY <1>2, <1>4, <1>8, <2>1, <2>2, <2>3 DEF AskPartition
<1>9. ASSUME NEW p \in Partitions, HandleCommitLogRequest(p) PROVE EntriesOK'
  <2>1. EntryOK(p, Head(inbox[p])) /\ \A q \in Partitions : AllOK(q, inbox'[q])
    BY <1>3, <1>9 DEF HandleCommitLogRequest, Handles
  <2>2. PICK n : n = currentTxnPos[p] + 1
    OBVIOUS
  <2>3. PICK e : e = [txn |-> Head(inbox[p]).txn, clk |-> Head(inbox[p]).clk]
    OBVIOUS
  <2>4. EntryOK(p, e)
    BY <2>1, <2>3 DEF EntryOK
  <2>5. /\ log'[p][n] = e /\ \A i \in 1 .. Len(log'[p]) : i # n => i \in 1 .. Len(log[p]) /\ log'[p][i] = log[p][i]
        /\ \A q \in Partitions \ {p} : log'[q] = log[q]
    BY <1>9, <2>2, <2>3, LogWritten
  <2>6. AllOK(p, log'[p])
    BY <1>0, <2>4, <2>5 DEF AllOK
  <2>7. \A q \in Partitions : AllOK(q, log'[q])
    BY <1>0, <2>5, <2>6
  <2>8. UNCHANGED txnCache
    BY <1>9 DEF HandleCommitLogRequest, replVars
  <2> QED BY <1>0, <2>1, <2>7, <2>8, EntriesStay
<1>10. ASSUME NEW p \in Partitions,
              HandleTxnLogRequest(p) \/ HandleMatClkRequest(p) \/ HandleClkTimeoutRequest(p)
       PROVE  EntriesOK'
  <2>1. /\ inbox[p] # <<>> /\ inbox' = [inbox EXCEPT ![p] = Tail(@)] /\ UNCHANGED <<log, txnCache>>
    BY <1>10 DEF HandleTxnLogRequest, HandleMatClkRequest, HandleClkTimeoutRequest, Handles, replVars
  <2>2. \A q \in Partitions : AllOK(q, inbox'[q])
    BY <1>3, <2>1
  <2> QED BY <1>0, <2>1, <2>2, EntriesStay
<1>11. ASSUME NEW F, txnCache' = F, UNCHANGED <<inbox, log>>, \A q \in Partitions : AllOK(q, F[q])
       PROVE  EntriesOK'
  BY <1>0, <1>11, EntriesStay
<1>12. CASE ReceiveReply
  <2>1. /\ txnCache' = [txnCache EXCEPT ![Head(partsChan).part] = WithoutLast(@)] /\ UNCHANGED <<inbox, log>>
        /\ rpc = "collect"
    BY <1>12 DEF ReceiveReply, loggerVars
  <2>2. ASSUME NEW q \in Partitions PROVE AllOK(q, txnCache'[q])
    <3>1. txnCache[q] # <<>>
      BY <2>1 DEF ShipInv, CachesOK, CacheOK
    <3>2. txnCache'[q] = txnCache[q] \/ txnCache'[q] = WithoutLast(txnCache[q])
      BY <1>0, <2>1
    <3>3. AllOK(q, WithoutLast(txnCache[q]))
      BY <1>0, <3>1, AllTail
    <3> QED BY <1>0, <3>2, <3>3
  <2> QED BY <1>11, <2>1, <2>2
<1>13. CASE CopyEntry
  <2>0. copying \in Reply /\ ReplyOK(copying) /\ UNCHANGED <<inbox, log>>
    BY <1>13 DEF CopyEntry, loggerVars, ShipInv, TypeOK, RepliesOK
  <2>1. PICK p \in Partitions : p = copying.part
    BY <2>0 DEF Reply
  <2>2. /\ copying.from \in Nat /\ copying.to \in Nat /\ copying.from <= copying.to
        /\ copying.to <= Len(log[p]) /\ Len(log[p]) \in Nat /\ copying.clk \in Clock
    BY <1>0, <2>0, <2>1 DEF Reply, ReplyOK
  <2>3. PICK e \in Entry : EntryOK(p, e) /\ txnCache' = [txnCache EXCEPT ![p] = Append(@, e)]
    <3>1. CASE copying.from < copying.to /\ txnCache' = [txnCache EXCEPT ![p] = Append(@, log[p][copying.from + 1])]
      <4>1. copying.from + 1 \in 1 .. Len(log[p])
        BY <2>2, <3>1
      <4>2. log[p][copying.from + 1] \in Entry /\ EntryOK(p, log[p][copying.from + 1])
        BY <1>0, <4>1 DEF AllOK
      <4> QED BY <3>1, <4>2
    <3>2. CASE txnCache' = [txnCache EXCEPT ![p] = Append(@, [txn |-> NoTxn, clk |-> copying.clk])]
      <4>1. PICK x : x = [txn |-> NoTxn, clk |-> copying.clk]
        OBVIOUS
      <4>2. x \in Entry /\ x.txn = NoTxn
        BY <2>2, <4>1 DEF Entry
      <4> QED BY <1>4, <3>2, <4>1, <4>2
    <3> QED BY <1>13, <2>1, <3>1, <3>2 DEF CopyEntry
  <2>4. ASSUME NEW q \in Partitions PROVE AllOK(q, txnCache'[q])
    <3>1. CASE q = p
      <4>1. AllOK(q, Append(txnCache[q], e)) /\ txnCache'[q] = Append(txnCache[q], e)
        BY <1>0, <2>3, <3>1, AllAppend
      <4> QED BY <4>1
    <3>2. CASE q # p
      BY <1>0, <2>3, <3>2
    <3> QED BY <3>1, <3>2
  <2> QED BY <1>11, <2>0, <2>4
<1>14. CASE PrepareDataToSend
  <2>1. /\ rpc = "prepare" /\ UNCHANGED <<inbox, log>>
        /\ \A q \in Partitions : txnCache'[q] = txnCache[q] \/ txnCache'[q] = Tail(txnCache[q])
    BY <1>14 DEF PrepareDataToSend, loggerVars
  <2>2. ASSUME NEW q \in Partitions PROVE AllOK(q, txnCache'[q])
    <3>1. txnCache[q] # <<>>
      BY <2>1 DEF ShipInv, CachesOK, CacheOK
    <3>2. AllOK(q, Tail(txnCache[q]))
      BY <1>0, <3>1, AllTail
    <3> QED BY <1>0, <2>1, <3>2
  <2> QED BY <1>11, <2>1, <2>2
<1>15. CASE SendTxnsIndividually \/ SendGroupTxns \/ SendStableClk \/ NextCycle
  BY <1>1, <1>15 DEF SendTxnsIndividually, SendGroupTxns, SendStableClk, NextCycle, loggerVars
<1>16. ASSUME NEW p \in Partitions, TimerFires(p) PROVE EntriesOK'
  BY <1>1, <1>16 DEF TimerFires, replVars
<1>17. ASSUME NEW t \in Txns, DecideTxn(t) PROVE EntriesOK'
  BY <1>1, <1>17 DEF DecideTxn, loggerVars, replVars
<1> QED BY <1>5, <1>6, <1>7, <1>8, <1>9, <1>10, <1>12, <1>13, <1>14, <1>15, <1>16, <1>17
         DEF Next, Logger, Replicator

\* The inner loop finds every partition whose first entry has the lowest clock.
LEMMA ScanComplete ==
    ASSUME CachesRead, KnownClks, TimestampsOrdered
    PROVE  \A p \in Partitions : txnCache[p][1].clk = Scan[NParts].min =>
               [part |-> p, txn |-> txnCache[p][1].txn] \in Scan[NParts].upds
<1> DEFINE Found(r, p) == /\ IsLowerOrEqual(r.min, txnCache[p][1].clk)
                          /\ txnCache[p][1].clk = r.min => [part |-> p, txn |-> txnCache[p][1].txn] \in r.upds
           S == {n \in 0 .. NParts : /\ FoundOK(Scan[n]) /\ Scan[n].min \in Known
                                     /\ \A p \in 0 .. (n - 1) : Found(Scan[n], p)}
<1>0. NParts \in Nat /\ NParts >= 1 /\ Partitions = 0 .. (NParts - 1)
  BY PartitionLogConstants DEF Partitions
<1>1. \A p \in Partitions : txnCache[p][1].clk \in Known
  BY DEF CachesRead, KnownClks
<1>2. 0 \in S
  <2>1. Scan[0] = ScanStart /\ FoundOK(ScanStart)
    BY ScanSteps
  <2>2. ScanStart.min \in Known
    BY <1>0, <1>1 DEF ScanStart
  <2>3. 0 .. (0 - 1) = {} /\ 0 \in 0 .. NParts
    BY <1>0
  <2> QED BY <2>1, <2>2, <2>3
<1>3. ASSUME NEW n \in 0 .. (NParts - 1), n \in S
      PROVE  n + 1 \in S
  <2>1. PICK e : e = txnCache[n][1]
    OBVIOUS
  <2>2. PICK s : s = Scan[n]
    OBVIOUS
  <2>3. PICK r : r = Scan[n + 1]
    OBVIOUS
  <2>4. /\ r = ScanEntry(s, n, e) /\ FoundOK(s) /\ s.min \in Known
        /\ n \in Partitions /\ e \in Entry /\ n + 1 \in 0 .. NParts
        /\ \A p \in 0 .. (n - 1) : Found(s, p)
    BY <1>0, <1>3, <2>1, <2>2, <2>3, ScanSteps
  <2>5. FoundOK(r)
    BY <2>1, <2>4, ScanEntryFound
  <2>6. e.clk \in Known
    BY <1>1, <2>1, <2>4
  <2>7. /\ e.clk \in Clock /\ s.min \in Clock /\ s \in ScanResult
        /\ IsLowerOrEqual(e.clk, s.min) \/ IsLowerOrEqual(s.min, e.clk)
        /\ IsLowerOrEqual(e.clk, e.clk) /\ IsLowerOrEqual(s.min, s.min)
        /\ Compare(e.clk, s.min) = "LowerTs" <=> IsLower(e.clk, s.min)
        /\ Compare(e.clk, s.min) = "EqualTs" <=> e.clk = s.min
    BY <2>4, <2>6, KnownOrdered, ClocksOrdered, CompareFacts DEF FoundOK
  <2>8. PICK u : u = [part |-> n, txn |-> e.txn]
    OBVIOUS
  <2>9. \A p \in 0 .. ((n + 1) - 1) : p = n \/ p \in 0 .. (n - 1)
    OBVIOUS
  <2>10. \A p \in 0 .. (n - 1) : p \in Partitions
    BY <1>0
  <2>11. CASE IsLower(e.clk, s.min)
    <3>1. r = [min |-> e.clk, upds |-> {u}, stop |-> e.txn = NoTxn]
      BY <2>4, <2>7, <2>8, <2>11 DEF ScanEntry
    <3>2. r.min = e.clk /\ u \in r.upds
      BY <3>1
    <3>3. ASSUME NEW p \in 0 .. (n - 1)
          PROVE  IsLowerOrEqual(e.clk, txnCache[p][1].clk) /\ txnCache[p][1].clk # e.clk
      <4>1. PICK c : c = txnCache[p][1].clk
        OBVIOUS
      <4>2. c \in Clock /\ IsLowerOrEqual(s.min, c)
        BY <1>1, <2>4, <2>10, <4>1, KnownOrdered
      <4>3. IsLowerOrEqual(e.clk, s.min)
        BY <2>11 DEF IsLower, IsLowerOrEqual
      <4>4. IsLowerOrEqual(e.clk, c)
        BY <2>7, <4>2, <4>3, ClocksOrdered
      <4>5. c # e.clk
        <5>1. PICK o \in Replicas : e.clk[o] < s.min[o]
          BY <2>11 DEF IsLower
        <5>2. s.min[o] <= c[o] /\ e.clk[o] \in Nat /\ s.min[o] \in Nat /\ c[o] \in Nat
          BY <2>7, <4>2 DEF IsLowerOrEqual, Clock
        <5> QED BY <5>1, <5>2
      <4> QED BY <4>1, <4>4, <4>5
    <3>4. \A p \in 0 .. ((n + 1) - 1) : Found(r, p)
      BY <2>1, <2>7, <2>8, <2>9, <3>2, <3>3
    <3> QED BY <2>3, <2>4, <2>5, <2>6, <3>2, <3>4
  <2>12. CASE s.min = e.clk
    <3>1. r = [s EXCEPT !.upds = @ \cup {u}, !.stop = @ \/ e.txn = NoTxn]
      <4>1. ~IsLower(e.clk, s.min)
        BY <2>7, <2>12 DEF IsLower, Clock
      <4> QED BY <2>4, <2>7, <2>8, <2>12, <4>1 DEF ScanEntry
    <3>2. r.min = s.min /\ r.upds = s.upds \cup {u}
      BY <2>7, <3>1 DEF ScanResult
    <3>3. \A p \in 0 .. ((n + 1) - 1) : Found(r, p)
      BY <2>1, <2>4, <2>7, <2>8, <2>9, <2>12, <3>2
    <3> QED BY <2>3, <2>4, <2>5, <3>2, <3>3
  <2>13. CASE ~IsLower(e.clk, s.min) /\ s.min # e.clk
    <3>1. r = s
      BY <2>4, <2>7, <2>13 DEF ScanEntry
    <3>2. IsLowerOrEqual(s.min, e.clk)
      BY <2>7, <2>13, ClocksOrdered
    <3>3. \A p \in 0 .. ((n + 1) - 1) : Found(r, p)
      BY <2>1, <2>4, <2>9, <2>13, <3>1, <3>2
    <3> QED BY <2>3, <2>4, <3>1, <3>3
  <2> QED BY <2>11, <2>12, <2>13
<1>4. NParts \in S
  <2> HIDE DEF S
  <2>1. 0 .. NParts \subseteq S
    BY <1>0, <1>2, <1>3, AllReached
  <2> QED BY <1>0, <2>1
<1> QED BY <1>0, <1>4


\* Where an update of p can be before it is merged, at or above what p's cache starts with
LEMMA BehindHead ==
    ASSUME ShipInv, WayInv, EntriesOK, rpc = "prepare", NEW q \in Partitions, NEW t \in Txns,
           q \in involved[t], txnCache[q][1].txn # t,
           ~IsLogged(q, t) \/ InBox(q, t) # {} \/ InLog(q, t) # {} \/ InReplies(q, t) # {}
             \/ InSlice(copying, q, t) # {} \/ InCache(q, t) # {}
    PROVE  At(txnCache[q][1].clk) <= At(commitTs[t])
<1>0. /\ txnCache[q] \in Seq(Entry) /\ txnCache[q] # <<>> /\ inbox[q] \in Seq(LoggerMsg)
      /\ log[q] \in Seq(Entry) /\ lastSharedPos[q] \in Nat /\ currentTxnPos[q] \in Nat
      /\ currentTxnPos[q] <= Len(log[q]) /\ Len(log[q]) \in Nat
      /\ partsChan \in Seq(Reply) /\ copying \in Reply /\ RepliesOK
      /\ AllOK(q, inbox[q]) /\ AllOK(q, log[q]) /\ AllOK(q, txnCache[q])
  BY DEF ShipInv, TypeOK, CachesOK, CacheOK, PositionsOK, EntriesOK
<1>1. PICK c : c = txnCache[q]
  OBVIOUS
<1>2. PICK h : h = At(c[1].clk)
  OBVIOUS
<1>3. PICK v : v = At(commitTs[t])
  OBVIOUS
<1>4. CacheAt(c) \subseteq Passed(q) /\ CacheRising(c) /\ Below(CacheAt(c), Ahead(q))
  BY <1>1 DEF WayInv, CacheOrder
<1>5. 1 \in 1 .. Len(c) /\ h \in CacheAt(c)
  <2>1. 1 \in 1 .. Len(c)
    BY <1>0, <1>1
  <2> QED BY <1>2, <2>1 DEF CacheAt
<1>6. v \in Ahead(q) => h <= v
  BY <1>4, <1>5 DEF Below
<1>7. CASE ~IsLogged(q, t)
  <2>1. t \in Unlogged(q)
    BY <1>7 DEF Unlogged
  <2>2. Below(Passed(q), {v})
    BY <1>3, <2>1 DEF WayInv, UnloggedAbove
  <2> QED BY <1>1, <1>2, <1>3, <1>4, <1>5, <2>2 DEF Below
<1>8. CASE InBox(q, t) # {}
  <2>1. PICK i \in 1 .. Len(inbox[q]) : inbox[q][i].txn = t
    BY <1>8 DEF InBox
  <2>2. inbox[q][i] \in LoggerMsg
    BY <1>0, <2>1
  <2>3. inbox[q][i].type = "commit"
    BY <2>1, <2>2, ClkMessages
  <2>4. inbox[q][i].clk = commitTs[t]
    BY <1>0, <2>1 DEF AllOK, EntryOK
  <2>5. v \in Commits(inbox[q])
    BY <1>3, <2>1, <2>3, <2>4 DEF Commits
  <2>6. v \in Ahead(q)
    BY <2>5 DEF Ahead, After
  <2> QED BY <1>1, <1>2, <1>3, <1>6, <2>6
<1>9. ASSUME NEW f \in Nat, NEW n \in Nat, n <= Len(log[q]), NEW i \in (f + 1) .. n, log[q][i].txn = t
      PROVE  v \in Slots(log[q], f, n)
  <2>1. i \in 1 .. Len(log[q])
    BY <1>0, <1>9
  <2>2. log[q][i].clk = commitTs[t]
    BY <1>0, <1>9, <2>1 DEF AllOK, EntryOK
  <2> QED BY <1>3, <1>9, <2>2 DEF Slots
<1>10. CASE InLog(q, t) # {}
  <2>1. PICK i \in (lastSharedPos[q] + 1) .. currentTxnPos[q] : log[q][i].txn = t
    BY <1>10 DEF InLog
  <2>2. v \in Unshared(q)
    BY <1>0, <1>9, <2>1 DEF Unshared
  <2>3. v \in Ahead(q)
    BY <2>2 DEF Ahead, After
  <2> QED BY <1>1, <1>2, <1>3, <1>6, <2>3
<1>11. CASE InReplies(q, t) # {}
  <2>1. PICK z : z \in InReplies(q, t)
    BY <1>11
  <2>2. PICK j \in 1 .. Len(partsChan) : \E x \in InSlice(partsChan[j], q, t) : z = <<x, j>>
    BY <2>1, RepliesHold
  <2>3. PICK i : i \in InSlice(partsChan[j], q, t)
    BY <2>2
  <2>4. PICK r : r = partsChan[j]
    OBVIOUS
  <2>5. r \in Reply /\ ReplyOK(r)
    BY <1>0, <2>4 DEF RepliesOK
  <2>6. i \in (r.from + 1) .. r.to /\ r.part = q /\ log[q][i].txn = t
    BY <2>3, <2>4 DEF InSlice
  <2>7. r.from \in Nat /\ r.to \in Nat /\ r.to <= Len(log[q])
    BY <2>5, <2>6 DEF Reply, ReplyOK
  <2>8. v \in Slots(log[q], r.from, r.to)
    BY <1>9, <2>6, <2>7
  <2>9. j \in RepliesAfter(q, 0)
    <3>1. j \in (0 + 1) .. Len(partsChan)
      OBVIOUS
    <3> QED BY <2>4, <2>6, <3>1 DEF RepliesAfter
  <2>10. v \in After(q, 0)
    <3>1. v \in UNION {Slots(log[q], partsChan[k].from, partsChan[k].to) : k \in RepliesAfter(q, 0)}
      BY <2>4, <2>8, <2>9
    <3> QED BY <3>1 DEF After
  <2> QED BY <1>1, <1>2, <1>3, <1>6, <2>10 DEF Ahead
<1>12. CASE InSlice(copying, q, t) # {}
  <2>1. PICK i \in (copying.from + 1) .. copying.to : copying.part = q /\ log[q][i].txn = t
    BY <1>12 DEF InSlice
  <2>2. copying.from \in Nat /\ copying.to \in Nat /\ copying.to <= Len(log[q])
    BY <1>0, <2>1 DEF Reply, RepliesOK, ReplyOK
  <2>3. v \in CopyingAt(q)
    BY <1>9, <2>1, <2>2 DEF CopyingAt
  <2> QED BY <1>1, <1>2, <1>3, <1>6, <2>3 DEF Ahead
<1>13. CASE InCache(q, t) # {}
  <2>1. PICK i \in 1 .. Len(c) : c[i].txn = t
    BY <1>1, <1>13 DEF InCache
  <2>2. i # 1 /\ c[i].txn # NoTxn /\ c[i].clk = commitTs[t]
    BY <1>0, <1>1, <2>1, ClkMessages DEF AllOK, EntryOK
  <2>3. 1 < i
    BY <2>1, <2>2
  <2>4. h <= At(c[i].clk)
    BY <1>2, <1>4, <1>5, <2>1, <2>2, <2>3 DEF CacheRising
  <2> QED BY <1>1, <1>2, <1>3, <2>2, <2>4
<1> QED BY <1>7, <1>8, <1>10, <1>11, <1>12, <1>13

\* What is in a place is in no other.
LEMMA OnePlace ==
    ASSUME NEW p, NEW t, OnceAt(p, t), InCache(p, t) # {}
    PROVE  InToSend(p, t) = {} /\ InSent(p, t) = {}
<1>1. PICK W : W = Places(p, t)
  OBVIOUS
<1>2. W[5] = InCache(p, t) /\ W[6] = InToSend(p, t) /\ W[7] = InSent(p, t)
  BY <1>1, PlacesAre
<1>3. 5 \in 1 .. 7 /\ 6 \in 1 .. 7 /\ 7 \in 1 .. 7
  OBVIOUS
<1>4. ~Nowhere(W)
  BY <1>2, <1>3 DEF Nowhere
<1>5. Once(W)
  BY <1>1, <1>4 DEF OnceAt
<1>6. PICK k \in 1 .. 7 : \A l \in (1 .. 7) \ {k} : W[l] = {}
  BY <1>5 DEF Once
<1>7. k = 5
  BY <1>2, <1>3, <1>6
<1>8. W[6] = {} /\ W[7] = {}
  BY <1>3, <1>6, <1>7
<1> QED BY <1>2, <1>8

\* What is logged and not yet merged is somewhere before it.
LEMMA SomePlace ==
    ASSUME NEW p, NEW t, OnceAt(p, t), InToSend(p, t) = {}, InSent(p, t) = {}
    PROVE  ~IsLogged(p, t) \/ InBox(p, t) # {} \/ InLog(p, t) # {} \/ InReplies(p, t) # {}
             \/ InSlice(copying, p, t) # {} \/ InCache(p, t) # {}
<1> SUFFICES ASSUME IsLogged(p, t)
             PROVE  InBox(p, t) # {} \/ InLog(p, t) # {} \/ InReplies(p, t) # {}
                      \/ InSlice(copying, p, t) # {} \/ InCache(p, t) # {}
  OBVIOUS
<1>1. PICK W : W = Places(p, t)
  OBVIOUS
<1>2. /\ W[1] = InBox(p, t) /\ W[2] = InLog(p, t) /\ W[3] = InReplies(p, t)
      /\ W[4] = InSlice(copying, p, t) /\ W[5] = InCache(p, t)
      /\ W[6] = {} /\ W[7] = {}
  BY <1>1, PlacesAre
<1>3. PICK k \in 1 .. 7 : Single(W[k])
  BY <1>1 DEF OnceAt, Once
<1>4. k = 1 \/ k = 2 \/ k = 3 \/ k = 4 \/ k = 5 \/ k = 6 \/ k = 7
  OBVIOUS
<1>5. W[k] # {}
  BY <1>3 DEF Single
<1> QED BY <1>2, <1>4, <1>5

\* The inner loop finds all the partitions of an untied transaction, or none.
LEMMA MergedWhole ==
    ASSUME TimestampsBySelf, ShipInv, KnownClks, WayInv, DeliveryInv, EntriesOK, ItemsOK,
           rpc = "prepare", ~Scan[NParts].stop
    PROVE  ItemOK(Scan[NParts].upds)
<1>0. CachesRead /\ TimestampsOrdered
  BY BySelfOrdered DEF ShipInv, TypeOK, CachesOK, CacheOK, CachesRead
<1>1. PICK s : s = Scan[NParts]
  OBVIOUS
<1>2. /\ s.min \in Clock /\ s.upds \in SUBSET Upd /\ FoundOK(s) /\ ~s.stop
      /\ \A u \in s.upds : /\ u.part \in Partitions /\ txnCache[u.part][1].txn \in Txns
                           /\ s.min = txnCache[u.part][1].clk
  BY <1>0, <1>1, MergeFacts, ScanFound
<1>3. \A p \in Partitions : /\ IsLowerOrEqual(s.min, txnCache[p][1].clk)
                            /\ txnCache[p][1].clk = s.min => [part |-> p, txn |-> txnCache[p][1].txn] \in s.upds
  BY <1>0, <1>1, ScanLowest, ScanComplete
<1>4. ASSUME NEW p \in Partitions
      PROVE  /\ EntryOK(p, txnCache[p][1]) /\ txnCache[p][1].clk \in Known
             /\ txnCache[p][1].clk \in Clock /\ 1 \in 1 .. Len(txnCache[p])
  <2>1. 1 \in 1 .. Len(txnCache[p])
    BY <1>0 DEF CachesRead
  <2>2. EntryOK(p, txnCache[p][1]) /\ txnCache[p][1].clk \in Known
    BY <2>1 DEF EntriesOK, AllOK, KnownClks
  <2> QED BY <1>0, <2>1, <2>2, KnownOrdered
<1>5. ASSUME NEW p \in Partitions, NEW t \in Txns, [part |-> p, txn |-> t] \in s.upds
      PROVE  /\ p \in involved[t] /\ txnCache[p][1].txn = t
             /\ s.min = commitTs[t] /\ commitTs[t] \in Timestamps
  <2>1. PICK u \in s.upds : u.part = p /\ u.txn = t
    <3>1. [part |-> p, txn |-> t].part = p /\ [part |-> p, txn |-> t].txn = t
      OBVIOUS
    <3> QED BY <1>5, <3>1
  <2>2. txnCache[p][1].txn = t /\ s.min = txnCache[p][1].clk
    BY <1>2, <2>1 DEF FoundOK
  <2>3. p \in involved[t] /\ s.min = commitTs[t]
    BY <1>4, <2>2 DEF EntryOK
  <2> QED BY <2>2, <2>3 DEF ShipInv, DecidedOK
<1>6. ASSUME NEW t \in Txns, Untied(t), NEW p \in Partitions, [part |-> p, txn |-> t] \in s.upds,
             NEW q \in Partitions, q \in involved[t], [part |-> q, txn |-> t] \notin s.upds
      PROVE  FALSE
  <2>1. /\ txnCache[p][1].txn = t /\ s.min = commitTs[t] /\ commitTs[t] \in Timestamps
        /\ p \in involved[t]
    BY <1>5, <1>6
  <2>2. PICK e : e = txnCache[q][1]
    OBVIOUS
  <2>3. e.clk # s.min
    <3> SUFFICES ASSUME e.clk = s.min PROVE FALSE
      OBVIOUS
    <3>1. PICK u : u = [part |-> q, txn |-> e.txn]
      OBVIOUS
    <3>2. u \in s.upds /\ u.part = q /\ u.txn = e.txn
      BY <1>3, <2>2, <3>1
    <3>3. e.txn \in Txns /\ e.txn # t
      BY <1>2, <1>6, <2>2, <3>1, <3>2
    <3>4. q \in involved[e.txn] /\ e.clk = commitTs[e.txn]
      BY <1>4, <2>2, <3>3 DEF EntryOK
    <3>5. IsEqual(commitTs[e.txn], commitTs[t])
      BY <2>1, <3>4 DEF IsEqual
    <3> QED BY <1>6, <3>3, <3>4, <3>5 DEF Untied
  <2>4. e.clk \in Timestamps
    <3>1. e.clk \in Known /\ e.clk \in Clock /\ IsLowerOrEqual(s.min, e.clk)
      BY <1>3, <1>4, <2>2
    <3>2. ASSUME e.clk = NewTimestamp PROVE FALSE
      <4>1. \A r \in Replicas : s.min[r] \in Nat /\ e.clk[r] = 0 /\ s.min[r] <= e.clk[r]
        BY <1>2, <3>1, <3>2 DEF Clock, NewTimestamp, IsLowerOrEqual
      <4>2. ASSUME NEW r \in Replicas PROVE s.min[r] = e.clk[r]
        <5>1. s.min[r] \in Nat /\ e.clk[r] = 0 /\ s.min[r] <= e.clk[r]
          BY <4>1
        <5> QED BY ONLY <5>1
      <4>3. s.min = e.clk
        BY <1>2, <3>1, <4>2 DEF Clock
      <4> QED BY <2>3, <4>3
    <3> QED BY <3>1, <3>2 DEF Known
  <2>5. At(commitTs[t]) < At(e.clk) /\ At(commitTs[t]) \in Nat /\ At(e.clk) \in Nat
    <3>1. IsLowerOrEqual(commitTs[t], e.clk) /\ commitTs[t] # e.clk
      BY <1>3, <2>1, <2>2, <2>3
    <3>2. commitTs[t][Self] < e.clk[Self]
      BY <2>1, <2>4, <3>1, BySelfOrdered
    <3>3. commitTs[t] \in Clock /\ e.clk \in Clock
      BY <2>1, <2>4, PartitionLogConstants
    <3> QED BY <3>2, <3>3, AtOrdered DEF At
  <2>6. e.txn # t
    <3>1. e.txn = t => e.clk = commitTs[t]
      BY <1>4, <2>2 DEF EntryOK
    <3> QED BY <2>1, <2>3, <3>1
  <2>7. OnceAt(p, t) /\ OnceAt(q, t)
    BY DEF DeliveryInv
  <2>8. InCache(p, t) # {}
    BY <1>4, <2>1 DEF InCache
  <2>9. InToSend(p, t) = {} /\ InSent(p, t) = {}
    BY <2>7, <2>8, OnePlace
  <2>10. ASSUME NEW S, ItemOK(S), [part |-> q, txn |-> t] \in S PROVE [part |-> p, txn |-> t] \in S
    <3>1. q \in PartsIn(S, t)
      BY <2>10 DEF PartsIn
    <3>2. PartsIn(S, t) = involved[t]
      BY <1>6, <2>10, <3>1 DEF ItemOK
    <3> QED BY <2>1, <3>2 DEF PartsIn
  <2>11. InToSend(q, t) = {} /\ InSent(q, t) = {}
    <3>1. ASSUME NEW i \in 1 .. Len(toSend), [part |-> q, txn |-> t] \in toSend[i].upds PROVE FALSE
      <4>1. [part |-> p, txn |-> t] \in toSend[i].upds
        BY <2>10, <3>1 DEF ItemsOK
      <4> QED BY <2>9, <3>1, <4>1 DEF InToSend
    <3>2. ASSUME NEW i \in 1 .. Len(sent), [part |-> q, txn |-> t] \in sent[i].upds PROVE FALSE
      <4>1. [part |-> p, txn |-> t] \in sent[i].upds
        BY <2>10, <3>2 DEF ItemsOK
      <4> QED BY <2>9, <3>2, <4>1 DEF InSent
    <3> QED BY <3>1, <3>2 DEF InToSend, InSent
  <2>12. ~IsLogged(q, t) \/ InBox(q, t) # {} \/ InLog(q, t) # {} \/ InReplies(q, t) # {}
           \/ InSlice(copying, q, t) # {} \/ InCache(q, t) # {}
    BY <2>7, <2>11, SomePlace
  <2>13. At(e.clk) <= At(commitTs[t])
    BY <1>6, <2>2, <2>6, <2>12, BehindHead
  <2> QED BY <2>5, <2>13
<1>7. ASSUME NEW t \in Txns, Untied(t), PartsIn(s.upds, t) # {} PROVE PartsIn(s.upds, t) = involved[t]
  <2>1. PICK p \in Partitions : [part |-> p, txn |-> t] \in s.upds
    BY <1>7 DEF PartsIn
  <2>2. involved[t] \in SUBSET Partitions
    BY DEF ShipInv, TypeOK, LogTypeOK
  <2>3. \A q \in involved[t] : [part |-> q, txn |-> t] \in s.upds
    BY <1>6, <1>7, <2>1, <2>2
  <2> QED BY <1>5, <2>2, <2>3 DEF PartsIn
<1>8. ItemOK(s.upds)
  BY <1>5, <1>7 DEF ItemOK
<1> QED BY <1>1, <1>8


LEMMA ItemsNext ==
    ASSUME TimestampsBySelf, ShipInv, KnownClks, WayInv, DeliveryInv, EntriesOK, ItemsOK, Next,
           UNCHANGED <<involved, commitTs>>
    PROVE  ItemsOK'
<1>0. /\ toSend \in Seq(RemoteTxn) /\ sent \in Seq(SentItem)
      /\ \A i \in 1 .. Len(toSend) : ItemOK(toSend[i].upds)
      /\ \A i \in 1 .. Len(sent) : ItemOK(sent[i].upds)
  BY DEF ShipInv, TypeOK, ItemsOK
<1>1. CASE UNCHANGED <<toSend, sent>>
  BY <1>0, <1>1, ItemsStay
<1>2. CASE PrepareDataToSend
  <2>1. UNCHANGED sent /\ rpc = "prepare"
    BY <1>2 DEF PrepareDataToSend
  <2>2. CASE Scan[NParts].stop
    BY <1>1, <1>2, <2>1, <2>2 DEF PrepareDataToSend
  <2>3. CASE ~Scan[NParts].stop
    <3>1. PICK x : x = [clk |-> Scan[NParts].min, upds |-> Scan[NParts].upds]
      OBVIOUS
    <3>2. x.upds = Scan[NParts].upds /\ x \in RemoteTxn
      BY <2>1, <2>3, <3>1, MergeFacts DEF RemoteTxn
    <3>3. ItemOK(x.upds)
      BY <2>1, <2>3, <3>2, MergedWhole
    <3>4. toSend' = Append(toSend, x)
      BY <1>2, <2>3, <3>1 DEF PrepareDataToSend
    <3>5. /\ Len(toSend) \in Nat /\ Len(toSend') = Len(toSend) + 1 /\ toSend'[Len(toSend) + 1] = x
          /\ \A i \in 1 .. Len(toSend) : toSend'[i] = toSend[i]
          /\ \A i \in 1 .. Len(toSend') : i \in 1 .. Len(toSend) \/ i = Len(toSend) + 1
      BY <1>0, <3>2, <3>4, AppendFacts
    <3>6. \A i \in 1 .. Len(toSend') : ItemOK(toSend'[i].upds)
      BY <1>0, <3>3, <3>5
    <3> QED BY <1>0, <2>1, <3>6, ItemsStay
  <2> QED BY <2>2, <2>3
<1>3. CASE SendTxnsIndividually \/ SendGroupTxns
  <2>1. PICK k, m : SendShape(k, m)
    BY <1>3, SendSteps
  <2>2. /\ k \in 0 .. Len(toSend) /\ m \in Seq(SentItem) /\ Len(m) = k
        /\ \A i \in 1 .. k : m[i].upds = toSend[i].upds
        /\ sent' = sent \o m /\ Len(toSend) \in Nat
        /\ Len(toSend') = Len(toSend) - k /\ \A i \in 1 .. (Len(toSend) - k) : toSend'[i] = toSend[i + k]
    BY <1>0, <2>1 DEF SendShape
  <2>3. ASSUME NEW i \in 1 .. Len(toSend') PROVE ItemOK(toSend'[i].upds)
    <3>1. i + k \in 1 .. Len(toSend) /\ toSend'[i] = toSend[i + k]
      BY <2>2
    <3> QED BY <1>0, <3>1
  <2>4. PICK v : v = sent
    OBVIOUS
  <2>5. v \in Seq(SentItem) /\ m \in Seq(SentItem)
    BY <1>0, <2>2, <2>4
  <2>6. /\ \A i \in 1 .. Len(v) : (v \o m)[i] = v[i]
        /\ \A i \in 1 .. Len(m) : (v \o m)[Len(v) + i] = m[i]
        /\ \A i \in 1 .. Len(v \o m) : i \in 1 .. Len(v) \/ \E j \in 1 .. Len(m) : i = Len(v) + j
    BY ONLY <2>5, ConcatFacts
  <2>7. \A i \in 1 .. Len(m) : ItemOK(m[i].upds)
    <3> SUFFICES ASSUME NEW i \in 1 .. Len(m) PROVE ItemOK(m[i].upds)
      OBVIOUS
    <3>1. i \in 1 .. Len(toSend) /\ i \in 1 .. k
      BY <2>2
    <3>2. m[i].upds = toSend[i].upds
      BY <2>2, <3>1
    <3> QED BY <1>0, <3>1, <3>2
  <2>8. ASSUME NEW i \in 1 .. Len(sent') PROVE ItemOK(sent'[i].upds)
    <3>1. sent' = v \o m
      BY <2>2, <2>4
    <3>2. CASE i \in 1 .. Len(v)
      BY <1>0, <2>4, <2>6, <3>1, <3>2
    <3>3. CASE \E j \in 1 .. Len(m) : i = Len(v) + j
      BY <2>6, <2>7, <3>1, <3>3
    <3> QED BY <2>6, <3>1, <3>2, <3>3
  <2> QED BY <2>3, <2>8, ItemsStay
<1>4. CASE SendStableClk
  <2>1. PICK e \in SentItem : sent' = Append(sent, e) /\ e.upds = {}
    <3>1. sent # <<>> /\ nMsgs \in Nat
      BY <1>4 DEF SendStableClk, ShipInv, TypeOK, PhaseOK
    <3>2. Len(sent) \in 1 .. Len(sent)
      BY <1>0, <3>1
    <3>3. sent[Len(sent)].clk \in Clock
      <4>1. sent[Len(sent)] \in SentItem
        BY <1>0, <3>2
      <4> QED BY <4>1 DEF SentItem
    <3>4. PICK ts : ts = UpdateForcedPos(NewTimestamp, Self, sent[Len(sent)].clk[Self])
      OBVIOUS
    <3>5. ts \in Clock
      <4>1. sent[Len(sent)].clk[Self] \in Nat
        BY <3>3, LogShipConstants DEF Clock
      <4> QED BY <3>4, <4>1, LogShipConstants DEF UpdateForcedPos, NewTimestamp, Clock
    <3>6. [kind |-> "clk", msg |-> nMsgs + 1, clk |-> ts, upds |-> {}] \in SentItem
      BY <3>1, <3>5 DEF SentItem
    <3> QED BY <1>4, <3>4, <3>6 DEF SendStableClk
  <2>2. ItemOK({})
    BY DEF ItemOK, PartsIn
  <2>3. /\ Len(sent) \in Nat /\ Len(sent') = Len(sent) + 1 /\ sent'[Len(sent) + 1] = e
        /\ \A i \in 1 .. Len(sent) : sent'[i] = sent[i]
        /\ \A i \in 1 .. Len(sent') : i \in 1 .. Len(sent) \/ i = Len(sent) + 1
    BY <1>0, <2>1, AppendFacts
  <2>4. \A i \in 1 .. Len(sent') : ItemOK(sent'[i].upds)
    BY <1>0, <2>1, <2>2, <2>3
  <2>5. UNCHANGED toSend
    BY <1>4 DEF SendStableClk
  <2> QED BY <1>0, <2>4, <2>5, ItemsStay
<1>5. CASE AskPartition \/ ReceiveReply \/ CopyEntry \/ NextCycle
  BY <1>1, <1>5 DEF AskPartition, ReceiveReply, CopyEntry, NextCycle
<1>6. CASE \/ \E t \in Txns : DecideTxn(t)
           \/ \E p \in Partitions :
                 \/ \E t \in Txns : PartitionCommits(p, t)
                 \/ PartitionAnswers(p) \/ Logger(p) \/ TimerFires(p) \/ SendTimeout(p)
  <2>1. UNCHANGED replVars
    BY <1>6 DEF DecideTxn, PartitionCommits, PartitionAnswers, Logger, TimerFires, SendTimeout,
       HandleCommitLogRequest, HandleTxnLogRequest, HandleMatClkRequest, HandleClkTimeoutRequest
  <2> QED BY <1>1, <2>1 DEF replVars
<1> QED BY <1>2, <1>3, <1>4, <1>5, <1>6 DEF Next, Replicator

LEMMA WholeInit == Init => EntriesOK /\ ItemsOK
<1> SUFFICES ASSUME Init PROVE EntriesOK /\ ItemsOK
  OBVIOUS
<1>1. ItemsOK
  BY DEF Init, ItemsOK
<1>2. ASSUME NEW p \in Partitions
      PROVE  AllOK(p, inbox[p]) /\ AllOK(p, log[p]) /\ AllOK(p, txnCache[p])
  <2>1. inbox[p] = <<>> /\ log[p] = <<>> /\ txnCache[p] = <<[txn |-> NoTxn, clk |-> NewTimestamp]>>
    BY DEF Init
  <2>2. AllOK(p, inbox[p]) /\ AllOK(p, log[p])
    BY <2>1 DEF AllOK
  <2>3. \A i \in 1 .. Len(txnCache[p]) : txnCache[p][i].txn = NoTxn
    BY <2>1
  <2>4. AllOK(p, txnCache[p])
    BY <2>3, ClkMessages DEF AllOK, EntryOK
  <2> QED BY <2>2, <2>4
<1> QED BY <1>1, <1>2 DEF EntriesOK

LEMMA WholeNext ==
    ASSUME TimestampsBySelf
    PROVE  ShipInv /\ KnownClks /\ WayInv /\ DeliveryInv /\ EntriesOK /\ ItemsOK /\ [Next]_vars
             => EntriesOK' /\ ItemsOK'
<1> SUFFICES ASSUME ShipInv, KnownClks, WayInv, DeliveryInv, EntriesOK, ItemsOK, [Next]_vars
             PROVE  EntriesOK' /\ ItemsOK'
  OBVIOUS
<1>1. CASE UNCHANGED vars
  <2>1. UNCHANGED <<involved, commitTs, inbox, log, txnCache, toSend, sent>>
    BY <1>1 DEF vars, logVars, loggerVars, replVars
  <2>2. EntriesOK'
    BY <2>1, EntriesStay DEF EntriesOK
  <2>3. ItemsOK'
    BY <2>1, ItemsStay DEF ItemsOK
  <2> QED BY <2>2, <2>3
<1>2. ASSUME NEW t \in Txns, DecideTxn(t) PROVE EntriesOK' /\ ItemsOK'
  BY <1>2, DecideKeeps
<1>3. CASE Next /\ UNCHANGED <<involved, commitTs>>
  BY <1>3, EntriesNext, ItemsNext
<1>4. Next => (\E t \in Txns : DecideTxn(t)) \/ UNCHANGED <<involved, commitTs>>
  BY ZenonT(60) DEF Next, PartitionCommits, LogCommit, PartitionAnswers, AnnounceClk, Logger, TimerFires, SendTimeout,
         HandleCommitLogRequest, HandleMatClkRequest, HandleClkTimeoutRequest, HandleTxnLogRequest,
         Replicator, AskPartition, ReceiveReply, CopyEntry, PrepareDataToSend, SendTxnsIndividually,
         SendGroupTxns, SendStableClk, NextCycle, logVars
<1> QED BY <1>1, <1>2, <1>3, <1>4

\* A transaction whose timestamp no other has leaves as one transaction with all its
\* partitions, however the loggers' replies interleave and however late safe clocks are
\* (preparateDataToSend, replicator.go), as long as the slices are copied in time.
THEOREM LeavesWhole ==
    ASSUME TimestampsBySelf
    PROVE  SpecInTime => []WholeUnlessTied
<1>0. TimestampsOrdered
  BY BySelfOrdered
<1>1. [Next /\ CopiedInTime]_vars => [Next]_vars
  OBVIOUS
<1>2. SpecInTime => [](ShipInv /\ KnownClks /\ DeliveryInv)
  BY <1>1, ShipInvInit, ShipInvNext, KnownInit, KnownNext, DeliveryInit, DeliveryNext, PTL DEF SpecInTime
<1>3. ShipInv /\ KnownClks /\ WayInv /\ [Next /\ CopiedInTime]_vars => WayInv'
  BY <1>0, WayNext
<1>4. SpecInTime => []WayInv
  BY <1>2, <1>3, WayInit, PTL DEF SpecInTime
<1>5. ShipInv /\ KnownClks /\ WayInv /\ DeliveryInv /\ EntriesOK /\ ItemsOK /\ [Next]_vars
        => EntriesOK' /\ ItemsOK'
  BY WholeNext
<1>6. SpecInTime => [](EntriesOK /\ ItemsOK)
  BY <1>1, <1>2, <1>4, <1>5, WholeInit, PTL DEF SpecInTime
<1>7. ItemsOK => WholeUnlessTied
  BY DEF ItemsOK, ItemOK, Untied, PartsIn, WholeUnlessTied, ShippedParts
<1> QED BY <1>6, <1>7, PTL

\* So does it with the whole log kept, under every scheduling.
THEOREM WholeLogLeavesWhole ==
    ASSUME TimestampsBySelf, KeepWholeLog
    PROVE  Spec => []WholeUnlessTied
<1>1. Spec => SpecInTime
  BY WholeLogSpec
<1> QED BY <1>1, LeavesWhole, PTL

=============================================================================
