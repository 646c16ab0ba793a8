--------------------------- MODULE CrdtReplication ---------------------------
(***************************************************************************)
(* One object of one CRDT type on the replicas of its bucket.  An update   *)
(* of a client is decoded by its replica's server, turned into downstream  *)
(* arguments by Update and applied there (partition.applyUpdates); every   *)
(* other replica decodes and applies it (applyRemoteUpds) once it has      *)
(* applied what its origin had applied before it: transactions arrive in   *)
(* causal order.  A replica may start from a snapshot of another one.      *)
(*                                                                         *)
(* The type is a parameter: its operations are the operators below.        *)
(***************************************************************************)
EXTENDS Integers, FiniteSets, SequencesExt

CONSTANTS
    Replicas,               \* numbers, as the replica IDs of the code
    Types,                  \* the CRDT types of the instance
    Hosts,                  \* for each type the replicas of its object's bucket
    MaxOps,                 \* bound: updates submitted in all, for each type
    MaxGenerated,           \* bound: downstreams generated in all
    Joiner,                 \* the replicas that may start from a snapshot, with
                            \* the types they may do so for
    CNew(_, _),             \* the object InitializeCrdt makes at a replica
    CUpdates(_),            \* the updates clients submit
    CEnvs(_),               \* clock readings and random numbers
    CApi(_, _),             \* the update the server decodes
    CUpdate(_, _, _, _),    \* CRDT.Update: object and downstream arguments
    CApply(_, _, _),        \* Downstream: object, effect, and two downstreams:
                            \* the one generated and the one to replicate
    CFits(_, _, _),         \* Downstream does not panic
    CUndo(_, _, _),         \* undoEffect
    CWire(_, _),            \* the downstream arguments another replica decodes
    CSnap(_, _, _),         \* the objects a replica may build from a snapshot
    CPeek(_, _),            \* the object after a read that fills its buffer
    CRead(_, _, _),         \* CRDT.Read with pending updates
    CView(_, _),            \* the part of an object all replicas agree on
    CReference(_, _)        \* the value the updates of a set must have

VARIABLES
    ty,         \* the type of the object
    obj,        \* the object at each replica
    seen,       \* the updates applied at each replica
    ops         \* the updates that were replicated, in order of creation

vars == <<ty, obj, seen, ops>>

Nothing == [op |-> "noop"]
Crash   == [op |-> "panic"]

Init ==
    /\ ty \in Types
    /\ obj = [r \in Replicas |-> CNew(ty, r)]
    /\ seen = [r \in Replicas |-> {}]
    /\ ops = <<>>

\* The update u of a client has been applied at r with outcome a: what must be
\* replicated goes to the log.  What Downstream generates here is not used.
Applied(r, u, a) ==
    /\ obj' = [obj EXCEPT ![r] = a.st]
    /\ seen' = [seen EXCEPT ![r] = @ \cup {Len(ops) + 1}]
    /\ ops' = Append(ops, [from |-> r, deps |-> seen[r], asked |-> u, down |-> a.sent])

\* applyUpdates for one update: Update, then Downstream unless there is
\* nothing to do.
Submit(r, u, e) ==
    /\ Len(ops) < MaxOps[ty]
    /\ UNCHANGED ty
    /\ \E up \in {CUpdate(ty, obj[r], CApi(ty, u), e)} :
          /\ up.down # Crash
          /\ IF up.down = Nothing
             THEN obj' = [obj EXCEPT ![r] = up.st] /\ UNCHANGED <<seen, ops>>
             ELSE /\ CFits(ty, up.st, up.down)
                  /\ Applied(r, u, CApply(ty, up.st, up.down))

\* applyRemoteUpds for one update that is next in causal order at r.  What it
\* generates is committed at r as an update of its own, already applied there
\* (handleDownstreamGeneratedOps), and replicated.
Deliverable(r, i) ==
    /\ i \in DOMAIN ops
    /\ ops[i].down # Nothing
    /\ i \notin seen[r]
    /\ \A j \in ops[i].deps : j \in seen[r] \/ ops[j].down = Nothing
    /\ CWire(ty, ops[i].down) # Crash
    /\ CFits(ty, obj[r], CWire(ty, ops[i].down))

Deliver(r, i) ==
    /\ Deliverable(r, i)
    /\ UNCHANGED ty
    /\ \E a \in {CApply(ty, obj[r], CWire(ty, ops[i].down))} :
          /\ obj' = [obj EXCEPT ![r] = a.st]
          /\ IF a.gen = Nothing
             THEN seen' = [seen EXCEPT ![r] = @ \cup {i}] /\ UNCHANGED ops
             ELSE /\ Len(ops) < MaxOps[ty] + MaxGenerated
                  /\ seen' = [seen EXCEPT ![r] = @ \cup {i, Len(ops) + 1}]
                  /\ ops' = Append(ops, [from |-> r, deps |-> seen[r] \cup {i},
                                         asked |-> Nothing, down |-> a.gen])

\* A replica that has nothing yet takes the object of another one as
\* handleTMGetSnapshot and handleTMApplySnapshot hand it over: ToProtoState at
\* s, StateProtoToCrdt at r.  The partitions' part of it is the library's
\* conversion only: handleRequest has no case for the two requests yet.
Join(r, s) ==
    /\ <<r, ty>> \in Joiner
    /\ seen[r] = {}
    /\ seen[s] # {}
    /\ \E o \in CSnap(ty, obj[s], r) : obj' = [obj EXCEPT ![r] = o]
    /\ seen' = [seen EXCEPT ![r] = seen[s]]
    /\ UNCHANGED <<ty, ops>>

\* A read that sorts the entries of a top keeps them for the next one.
Peek(r) ==
    /\ CPeek(ty, obj[r]) # obj[r]
    /\ obj' = [obj EXCEPT ![r] = CPeek(ty, @)]
    /\ UNCHANGED <<ty, seen, ops>>

Next ==
    \E r \in Hosts[ty] :
        \/ \E u \in CUpdates(ty), e \in CEnvs(ty) : Submit(r, u, e)
        \/ \E i \in 1..(MaxOps[ty] + MaxGenerated) : Deliver(r, i)
        \/ \E s \in Hosts[ty] \ {r} : Join(r, s)
        \/ Peek(r)

Spec == Init /\ [][Next]_vars

-----------------------------------------------------------------------------

\* What a replica has applied of the updates that are replicated.
Shared(r) == {i \in seen[r] : ops[i].down # Nothing}

\* Replicas that have applied the same replicated updates, in whatever order,
\* show the same object: every pair of concurrent downstreams commutes, also
\* with a snapshot in between and with what the wire formats make of them, and
\* what a replica keeps to itself cannot be seen.
Convergence ==
    \A r, s \in Hosts[ty] :
        Shared(r) = Shared(s) => CView(ty, obj[r]) = CView(ty, obj[s])

\* What a replica reads is the meaning of the updates it has applied, told by
\* the clients' requests and their causal order alone: nothing that was asked
\* for is lost, doubled or distorted between the client and a remote replica.
ReadsAreMeant ==
    \A r \in Hosts[ty] :
        CRead(ty, obj[r], <<>>) =
            CReference(ty, {[id |-> i, from |-> ops[i].from, deps |-> ops[i].deps,
                             asked |-> ops[i].asked, down |-> ops[i].down] :
                                i \in {j \in seen[r] : ops[j].asked # Nothing}})

\* undoEffect takes back exactly what applyDownstream did, for every update
\* that can arrive next: the way old versions are rebuilt.
UndoIsInverse ==
    \A r \in Hosts[ty], i \in DOMAIN ops :
        Deliverable(r, i) =>
            LET Undone(a) == CUndo(ty, a.st, a.eff)
            IN CView(ty, Undone(CApply(ty, obj[r], CWire(ty, ops[i].down)))) = CView(ty, obj[r])

\* A read inside a transaction, which passes the transaction's updates along,
\* returns what a read after applying these updates returns.
PendingReadsExact ==
    LET After(up) == IF up.down \in {Nothing, Crash} THEN up.st
                     ELSE CApply(ty, up.st, up.down).st
        Pending == UNION {[1..n -> CUpdates(ty)] : n \in {1, 2}}
    IN \A r \in Hosts[ty], upds \in Pending, e \in CEnvs(ty) :
          CRead(ty, obj[r], [i \in DOMAIN upds |-> CApi(ty, upds[i])]) =
             CRead(ty, FoldLeft(LAMBDA s, u : After(CUpdate(ty, s, CApi(ty, u), e)), obj[r], upds),
                   <<>>)

=============================================================================
