------------------------------ MODULE MCCrdts ------------------------------
(***************************************************************************)
(* The CRDT types replicated by CrdtReplication.                           *)
(***************************************************************************)
EXTENDS CrdtRemoteReads, CrdtReplication

\* Every replica creates its object in a second of its own.
OwnSecond == [r \in Replicas |-> r]

\* Two updates meet in every order; the types whose updates refer to earlier
\* ones have three.
UpdatesOf == [t \in Types |-> IF t \in {"ew", "dw", "max", "min", "set"} THEN 3
                             ELSE IF t = "topkrmv" THEN 4 ELSE 2]

\* Two replicas for the types with the most updates, three for the others.
TwoReplicas == {"topk", "topkrmv", "topsum", "regs", "carray", "embmap"}
BucketOf == [t \in Types |-> IF t \in TwoReplicas THEN {1, 2} ELSE Replicas]

\* Remote reads: two replicas and two updates of every type.
EveryReplica == [t \in Types |-> Replicas]
TwoUpdates == [t \in Types |-> 2]
PlusMinusOne == {-1, 1}

\* The types an object of which can be rebuilt from a snapshot.
JoinLast ==
    {3} \X {"counter", "float", "pair", "avg", "max", "min", "ew", "dw", "lwwflag", "lwwreg",
            "set", "map", "cincs"} \cup {<<2, "carray">>}

-----------------------------------------------------------------------------
(* What holds of which types.  The tops do not converge, and undoing and    *)
(* reading inside a transaction work for few types only: see the README.   *)

Tops         == {"topk", "topkrmv", "topsum"}
MisreadTypes == Tops \cup {"pair", "carray"}
UndoneTypes  == {"counter", "float", "avg", "ew", "lwwflag", "lwwreg", "set", "cincs"}
PendingTypes == {"counter", "float", "ew", "set"}

\* Two replicas that have applied the same replicated updates hold the same
\* object, for every type but the tops: concurrent downstreams commute, also
\* through the wire formats and with a snapshot in between.
UniformTypesConverge == ty \notin Tops => Convergence

\* What a read returns is what the clients' updates mean in their causal
\* order: enabling, adding and removing win as their types promise, no update
\* is lost, doubled or distorted on its way through the API and the wire.
ReadsMeanUpdates == ty \notin MisreadTypes => ReadsAreMeant

\* undoEffect gives back the object from before applyDownstream, for the
\* types whose effects are complete.
UndoTakesBack == ty \in UndoneTypes => UndoIsInverse

\* A read with pending updates is a read after these updates; looked at where
\* at most one update was made before.
PendingReadsAhead == ty \in PendingTypes /\ Len(ops) < 2 => PendingReadsExact

\* The entries of a top, without their timestamps.
TopEntries(s) == {[id |-> e.id, sc |-> e.sc] : e \in s.elems}

\* An entry shown by a top was added by a client, in an update that no remove
\* applied at this replica has seen: what is hidden, promoted and sent again by
\* other replicas never brings back a removed entry.
NoResurrection ==
    ty \in {"topk", "topkrmv"} =>
        \A r \in Hosts[ty] : \A e \in TopEntries(obj[r]) :
            \E i \in DOMAIN ops :
                /\ ops[i].asked # Nothing
                /\ ops[i].asked.op = "add"
                /\ e \in Range(ops[i].asked.scores)
                /\ ~\E j \in seen[r] : /\ ops[j].asked # Nothing
                                       /\ ops[j].asked.op = "rem"
                                       /\ e.id \in Range(ops[j].asked.ids)
                                       /\ i \in ops[j].deps

Arrives(st, answer) == answer = (IF st = NilState THEN NoAnswer ELSE st)

\* A read sent to the server that holds the object returns what that server
\* read: arguments and answers survive the wire formats, and the requester
\* picks the decoder of the state that was encoded.  A read that finds nothing
\* has no answer.
RemoteReadsArrive ==
    \A r \in Hosts[ty] : \A q \in ReadArgs(ty, obj[r]) :
        Distorted(ty, obj[r], q) \/ Arrives(ReadState(ty, obj[r], q), RemoteRead(ty, obj[r], q))

=============================================================================
