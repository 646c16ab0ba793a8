--------------------------- MODULE BoundedCounter ---------------------------
(***************************************************************************)
(* BoundedCounterCrdt (boundedCounter.go) and the sharing of permissions:  *)
(* bcManager.go, bcInfo and handleMatPermsTxn of a partition,              *)
(* handleTMBCPerms of the transaction manager.                             *)
(*                                                                         *)
(* A counter may be decremented at a replica as far as the replica holds   *)
(* permissions.  A timer asks the replica with the most for some of them;  *)
(* that replica commits a transfer, which is replicated like any update.   *)
(* Updates arrive in causal order.                                         *)
(***************************************************************************)
EXTENDS Integers, Sequences, FiniteSets, FiniteSetsExt, TLC

CONSTANTS
    Replicas,       \* replica IDs, naturals above 0
    Keys,           \* keys of counters, all in one partition
    KeySlots,       \* the size bcKeys is made with
    Bound,          \* of the SetCounterBound that makes a counter
    InitialValue,
    CompEq,
    LaterBounds,    \* the SetCounterBounds clients send afterwards
    Amounts,        \* of increments and decrements
    Joiners,        \* replicas that may start from a snapshot
    MaxOps,         \* bound: replicated updates
    MaxAsks         \* bound: requests for permissions

ASSUME ReplicasAssumption == Replicas \subseteq Nat \ {0} /\ IsFiniteSet(Replicas)

VARIABLES
    db,         \* the counter of each replica and key
    bcKeys,     \* the keys a replica's partition keeps track of
    ops,        \* the replicated updates, in order of creation
    seen,       \* the updates applied at each replica
    asks,       \* requests for permissions on their way
    nAsks       \* how many there were

vars == <<db, bcKeys, ops, seen, asks, nAsks>>

\* Division and remainder of Go: towards zero.
Quo(a, b) == IF a >= 0 THEN a \div b ELSE 0 - ((0 - a) \div b)
Rem(a, b) == a - b * Quo(a, b)

-----------------------------------------------------------------------------
(* The CRDT. *)

New(r) == [perms |-> [i \in Replicas |-> 0], value |-> 0, limit |-> 0, rep |-> r]

\* A missing entry of permissions reads as zero.
Perm(c, i) == IF i \in DOMAIN c.perms THEN c.perms[i] ELSE 0
Give(c, i, n) == [c EXCEPT !.perms = [j \in DOMAIN @ \cup {i} |-> Perm(c, j) + (IF j = i THEN n ELSE 0)]]

GetValue(c) == c.value

\* The server decodes an amount of zero as a SetCounterBound.
FromUpdateObject(u) ==
    CASE u.op = "bound" -> u
      [] u.op # "bound" /\ u.n = 0 -> [op |-> "bound", bound |-> 0, initial |-> 0, compEq |-> FALSE]
      [] OTHER -> u

\* Update: the downstream arguments, or "noop".
Refused == [op |-> "noop"]
Update(c, u) ==
    CASE u.op \in {"inc", "dec"} -> [op |-> u.op, n |-> u.n, rep |-> c.rep]
      [] u.op = "bound"    -> u
      [] u.op = "transfer" -> IF u.n > Quo(Perm(c, c.rep), 2) THEN Refused ELSE u

\* The four downstreams: the counter after it, and whether it is replicated.
Increment(c, d) == [c |-> [Give(c, d.rep, d.n) EXCEPT !.value = @ + d.n], sent |-> TRUE]

\* Mutant: the permissions are not looked at.
DecrementUnchecked(c, d) == [c |-> [Give(c, d.rep, 0 - d.n) EXCEPT !.value = @ - d.n], sent |-> TRUE]

Decrement(c, d) ==
    IF d.n > Perm(c, d.rep) THEN [c |-> c, sent |-> FALSE]
    ELSE [c |-> [Give(c, d.rep, 0 - d.n) EXCEPT !.value = @ - d.n], sent |-> TRUE]

\* The permissions are what lies above the bound, in equal parts, and one
\* more for the first ones.
Place(i) == Cardinality({j \in Replicas : j < i})
CounterInitOp(c, d) ==
    LET n     == Cardinality(Replicas)
        above == d.initial - d.bound
        share(i) == Quo(above, n) + (IF Place(i) < Rem(above, n) THEN 1 ELSE 0)
    IN [c |-> [c EXCEPT !.limit = IF d.compEq THEN d.bound ELSE d.bound + 1,
                        !.value = d.initial,
                        !.perms = [i \in DOMAIN @ |-> @[i] + (IF i \in Replicas THEN share(i) ELSE 0)]],
        sent |-> TRUE]

\* Mutant: each side of a transfer does its own half.
TransferOneSide(c, d) ==
    [c |-> IF d.from = c.rep THEN Give(c, d.from, 0 - d.n) ELSE Give(c, d.to, d.n), sent |-> TRUE]

Transfer(c, d) ==
    IF d.from = c.rep /\ d.n > Quo(Perm(c, d.from), 2) THEN [c |-> c, sent |-> FALSE]
    ELSE [c |-> Give(Give(c, d.from, 0 - d.n), d.to, d.n), sent |-> TRUE]

ApplyDownstream(c, d) ==
    CASE d.op = "inc"      -> Increment(c, d)
      [] d.op = "dec"      -> Decrement(c, d)
      [] d.op = "bound"    -> CounterInitOp(c, d)
      [] d.op = "transfer" -> Transfer(c, d)

\* What a replica asks for, and whom: nothing with enough of its own; the
\* replica 0 when no replica has any.
RequestTransfer(c) ==
    LET own  == Perm(c, c.rep)
        most == Max({c.perms[i] : i \in DOMAIN c.perms} \cup {0})
        ids  == IF most = 0 THEN {0} ELSE {i \in DOMAIN c.perms : c.perms[i] = most}
    IN IF own < Quo(Quo(c.value, Cardinality(DOMAIN c.perms)), 2)
       THEN {[n |-> Min({Quo(Perm(c, i) - own, 2), c.value - own}), of |-> i] : i \in ids}
       ELSE {[n |-> -1, of |-> -1]}

\* The wire formats keep every field.  A snapshot does not have the replica.
FromReplicatorObj(d) == d
FromProtoState(c) == [c EXCEPT !.rep = 0]

-----------------------------------------------------------------------------
(* The partition. *)

\* bcInfo.addKey: nothing is counted when the slots are full, and the next
\* key takes the place of the one that was appended.
AddKey(b, k) ==
    IF b.n = b.len THEN [b EXCEPT !.keys = Append(@, k), !.len = @ + 1]
    ELSE [b EXCEPT !.keys = IF b.n < Len(@) THEN [@ EXCEPT ![b.n + 1] = k] ELSE Append(@, k),
                   !.n = @ + 1]
NoKeys == [keys |-> <<>>, n |-> 0, len |-> KeySlots]
Tracked(r) == {bcKeys[r].keys[i] : i \in 1..bcKeys[r].n}

\* Every replica has made its counters, in some order, and applied the
\* SetCounterBound of each.
TheBound == [op |-> "bound", bound |-> Bound, initial |-> InitialValue, compEq |-> CompEq]
Init ==
    /\ db = [r \in Replicas |-> [k \in Keys |-> CounterInitOp(New(r), TheBound).c]]
    /\ \E order \in [1..Cardinality(Keys) -> Keys] :
        /\ \A i, j \in DOMAIN order : i # j => order[i] # order[j]
        /\ bcKeys = [r \in Replicas |->
             LET added[i \in 0..Cardinality(Keys)] ==
                    IF i = 0 THEN NoKeys ELSE AddKey(added[i - 1], order[i])
             IN added[Cardinality(Keys)]]
    /\ ops = <<>>
    /\ seen = [r \in Replicas |-> {}]
    /\ asks = {}
    /\ nAsks = 0

\* applyUpdates and applyBCPermsUpds for the updates U[k] of some keys: what
\* is replicated of them is one transaction.
Effects(r, U) ==
    [k \in DOMAIN U |->
        LET d == Update(db[r][k], U[k])
        IN IF d = Refused THEN [c |-> db[r][k], sent |-> FALSE, down |-> d]
           ELSE [down |-> d] @@ ApplyDownstream(db[r][k], d)]
Perform(r, U) ==
    LET e    == Effects(r, U)
        sent == {k \in DOMAIN U : e[k].sent}
    IN /\ Len(ops) < MaxOps
       /\ db' = [db EXCEPT ![r] = [k \in Keys |-> IF k \in DOMAIN U THEN e[k].c ELSE @[k]]]
       /\ IF sent = {} THEN UNCHANGED <<ops, seen>>
          ELSE /\ ops' = Append(ops, [from |-> r, deps |-> seen[r], upds |-> [k \in sent |-> e[k].down]])
               /\ seen' = [seen EXCEPT ![r] = @ \cup {Len(ops) + 1}]

\* A client's update.
Submit(r, k, u) ==
    /\ Perform(r, (k :> FromUpdateObject(u)))
    /\ UNCHANGED <<bcKeys, asks, nAsks>>

\* The next transaction of another replica.
\* Mutant: in any order.
ReadyAnyway(r, i) == i \notin seen[r]
Ready(r, i) == i \notin seen[r] /\ ops[i].deps \subseteq seen[r]
Deliver(r, i) ==
    /\ Ready(r, i)
    /\ db' = [db EXCEPT ![r] = [k \in Keys |->
                IF k \in DOMAIN ops[i].upds
                THEN ApplyDownstream(@[k], FromReplicatorObj(ops[i].upds[k])).c ELSE @[k]]]
    /\ seen' = [seen EXCEPT ![r] = @ \cup {i}]
    /\ UNCHANGED <<bcKeys, ops, asks, nAsks>>

\* updatePermissions for the counters the partition keeps track of, and the
\* requests StartBCTimer sends.  A map for replica 0 does not exist.
Wanted(r) ==
    {w \in [Tracked(r) -> UNION {RequestTransfer(db[r][k]) : k \in Tracked(r)}] :
        \A k \in Tracked(r) : w[k] \in RequestTransfer(db[r][k])}
UpdatePermissions(r) ==
    \E w \in Wanted(r) :
        LET wants == {k \in Tracked(r) : w[k].n # -1}
            of    == {w[k].of : k \in wants}
            from(i) == {k \in wants : w[k].of = i}
        IN /\ nAsks < MaxAsks
           /\ wants # {}
           /\ 0 \notin of
           /\ asks' = asks \cup {[to |-> i, for |-> r, nr |-> nAsks + 1,
                                  vals |-> [k \in from(i) |-> w[k].n]] : i \in of}
           /\ nAsks' = nAsks + 1
           /\ UNCHANGED <<db, bcKeys, ops, seen>>

\* handleTMBCPerms and handleMatPermsTxn: a transaction of transfers.
HandleMatPermsTxn(a) ==
    /\ a \in asks
    /\ Perform(a.to, [k \in DOMAIN a.vals |->
            [op |-> "transfer", n |-> a.vals[k], from |-> a.to, to |-> a.for]])
    /\ asks' = asks \ {a}
    /\ UNCHANGED <<bcKeys, nAsks>>

\* A request is lost with the connection it was sent on.
Lose(a) == a \in asks /\ asks' = asks \ {a} /\ UNCHANGED <<db, bcKeys, ops, seen, nAsks>>

\* A replica that has applied nothing takes the counters of another one, as
\* handleTMGetSnapshot and handleTMApplySnapshot hand them over.
Join(r, s) ==
    /\ r \in Joiners
    /\ seen[r] = {} /\ seen[s] # {}
    /\ db' = [db EXCEPT ![r] = [k \in Keys |-> FromProtoState(db[s][k])]]
    /\ seen' = [seen EXCEPT ![r] = seen[s]]
    /\ UNCHANGED <<bcKeys, ops, asks, nAsks>>

ClientUpdates == [op : {"inc", "dec"}, n : Amounts] \cup LaterBounds

Next ==
    \/ \E r \in Replicas, k \in Keys, u \in ClientUpdates : Submit(r, k, u)
    \/ \E r \in Replicas, i \in DOMAIN ops : Deliver(r, i)
    \/ \E r \in Replicas : UpdatePermissions(r)
    \/ \E a \in asks : HandleMatPermsTxn(a)
    \/ \E a \in asks : Lose(a)
    \/ \E r, s \in Replicas : Join(r, s)

Spec == Init /\ [][Next]_vars

-----------------------------------------------------------------------------

Change(d) == CASE d.op = "inc" -> d.n [] d.op = "dec" -> 0 - d.n [] OTHER -> 0
Total(k) ==
    InitialValue + MapThenSumSet(LAMBDA i : IF k \in DOMAIN ops[i].upds THEN Change(ops[i].upds[k]) ELSE 0,
                                 DOMAIN ops)

\* What all replicas together have accepted keeps the bound, although no
\* replica knows it all: a decrement is accepted only out of permissions that
\* no other replica can use as well (decrement and transfer of the counter).
BoundKept == \A k \in Keys : Total(k) >= Bound /\ \A r \in Replicas : GetValue(db[r][k]) >= Bound

\* At every replica and for every counter no permission is overdrawn, and all
\* of them together are exactly what lies between the value and the bound.
PermissionsMatchValue ==
    \A r \in Replicas, k \in Keys :
        LET c == db[r][k]
        IN /\ \A i \in DOMAIN c.perms : c.perms[i] >= 0
           /\ MapThenSumSet(LAMBDA i : c.perms[i], DOMAIN c.perms) = c.value - Bound

\* Replicas that applied the same transactions hold the same counters, even
\* though every one of them decides again whether a decrement or transfer it
\* receives is covered.
SameCounters ==
    \A r, s \in Replicas, k \in Keys :
        seen[r] = seen[s] => /\ db[r][k].value = db[s][k].value
                             /\ \A i \in Replicas \cup {0} : Perm(db[r][k], i) = Perm(db[s][k], i)

=============================================================================
