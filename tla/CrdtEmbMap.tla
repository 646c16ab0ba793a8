----------------------------- MODULE CrdtEmbMap -----------------------------
(***************************************************************************)
(* RWEmbMapCrdt, the remove-wins map whose values are CRDTs; the embedded  *)
(* type is the counter.                                                    *)
(*                                                                         *)
(* entries is a function from keys to counters and removes a set of        *)
(* [key, rep, ts], the last remove of a key from each replica.  The marks  *)
(* of the removes are written and tested only to set further marks, and    *)
(* are left out.                                                           *)
(***************************************************************************)
EXTENDS CrdtCounterArray

\* An update is on a Go map (form "map", each key once) or on a list of pairs.
EmbMapUpdates(K, U) ==
    {[op |-> "upd", form |-> f, upds |-> <<[key |-> k, upd |-> u]>>] :
        f \in {"map", "array"}, k \in K, u \in U} \cup
    {[op |-> "upd", form |-> "map", upds |-> <<[key |-> k, upd |-> u], [key |-> j, upd |-> u]>>] :
        <<k, j, u>> \in {<<k, j, u>> \in K \X K \X U : k < j}} \cup
    {[op |-> "upd", form |-> "array", upds |-> <<[key |-> k, upd |-> u], [key |-> k, upd |-> u]>>] :
        k \in K, u \in U} \cup
    {[op |-> "rem", keys |-> D] : D \in (SUBSET K) \ {{}}}
KeysOf(u) == IF u.op = "rem" THEN u.keys ELSE {p.key : p \in Range(u.upds)}

EmbMapInit(r) == [entries |-> <<>>, removes |-> {}, rmvClock |-> ZeroClk, rep |-> r]

\* getOrCreateEmbCrdt
GetOrCreate(entries, k) == IF k \in DOMAIN entries THEN entries[k] ELSE CounterInit

\* The last remove of each replica among those of the given keys.
RmvEntries(s, K) ==
    [r \in ReplicaIDs |-> Max({0} \cup {m.ts : m \in {x \in s.removes : x.rep = r /\ x.key \in K}})]

\* A counter turns every update into a downstream that must be replicated,
\* so an update is never a NoOp; a remove of keys that are not there is.
GetUpdateAllDownstreamArgs(s, u) ==
    [op |-> "upd", form |-> u.form, upds |-> u.upds, rmv |-> RmvEntries(s, KeysOf(u)), rep |-> s.rep]
GetRemoveAllDownstreamArgs(s, keys) ==
    LET here == keys \cap DOMAIN s.entries
    IN IF here = {} THEN NoOp
       ELSE [op |-> "rem", keys |-> here, rep |-> s.rep, ts |-> s.rmvClock[s.rep] + 1]
EmbMapUpdate(s, u) ==
    IF u.op = "rem" THEN GetRemoveAllDownstreamArgs(s, u.keys) ELSE GetUpdateAllDownstreamArgs(s, u)

\* An update of a key passes if it has seen every remove of it known here.
CanAdd(s, k, rmv) == \A m \in s.removes : m.key = k => m.ts <= rmv[m.rep]

ApplyUpdateAll(s, d) ==
    LET in == SelectSeq(d.upds, LAMBDA p : CanAdd(s, p.key, d.rmv))
        put(entries, p) == (p.key :> CounterApply(GetOrCreate(entries, p.key), p.upd).st) @@ entries
    IN [st  |-> [s EXCEPT !.entries = FoldLeft(put, @, in)],
        eff |-> [eff |-> "updates", keys |-> {p.key : p \in Range(in)}]]

ApplyRemoveAll(s, d) ==
    [st  |-> [s EXCEPT !.rmvClock[d.rep] = IF d.ts > @ THEN d.ts ELSE @,
                       !.removes = {m \in @ : m.rep # d.rep \/ m.key \notin d.keys}
                                   \cup {[key |-> k, rep |-> d.rep, ts |-> d.ts] : k \in d.keys},
                       !.entries = [k \in DOMAIN @ \ d.keys |-> @[k]]],
     eff |-> [eff |-> "removes", clk |-> s.rmvClock[d.rep], rep |-> d.rep,
              removed |-> [k \in d.keys \cap DOMAIN s.entries |-> s.entries[k]]]]

EmbMapApply(s, d) == IF d.op = "rem" THEN ApplyRemoveAll(s, d) ELSE ApplyUpdateAll(s, d)

\* The effects are stored as pointers and the switch of undoEffect looks for
\* values: no case matches.
EmbMapUndo(s, eff) == s

-----------------------------------------------------------------------------
(* Read *)

\* A value that is not a counter's: the state of another type, or a panic.
NotCounter == NoNumber
Absent == NoNumber - 1

\* prepareApplyByCRDTMap: the pending updates of each key since its last
\* remove, which leaves a NoOp in front.  Of a list of pairs the pair itself
\* is kept, not the update in it.
PairUpdate == [op |-> "pair"]
PrepareApplyByCRDTMap(upds) ==
    LET of(u, k) == [i \in DOMAIN SelectSeq(u.upds, LAMBDA p : p.key = k) |->
                        IF u.form = "array" THEN PairUpdate
                        ELSE SelectSeq(u.upds, LAMBDA p : p.key = k)[i].upd]
        step(k, q, u) == CASE k \notin KeysOf(u) -> q
                           [] u.op = "rem" -> <<NoOp>>
                           [] OTHER -> q \o of(u, k)
    IN [k \in UNION {KeysOf(u) : u \in Range(upds)} |->
            FoldLeft(LAMBDA q, u : step(k, q, u), <<>>, upds)]

\* A pair names the type of the map, so what is created for it is a map.
ReadNew(q) == IF q[1] = PairUpdate THEN NotCounter ELSE CounterRead(CounterInit, q)
ReadKey(s, pending, k) ==
    CASE k \in DOMAIN pending /\ pending[k][1] = NoOp ->
            IF Len(pending[k]) > 1 THEN ReadNew(Tail(pending[k])) ELSE Absent
      [] k \in DOMAIN pending /\ pending[k][1] # NoOp ->
            IF k \in DOMAIN s.entries THEN CounterRead(s.entries[k], pending[k]) ELSE ReadNew(pending[k])
      [] k \notin DOMAIN pending -> IF k \in DOMAIN s.entries THEN s.entries[k] ELSE Absent

\* The states of those of the keys K that the map has.
KnownKeys(s, upds) == DOMAIN s.entries \cup DOMAIN PrepareApplyByCRDTMap(upds)
StatesOf(s, upds, K) ==
    LET pending == PrepareApplyByCRDTMap(upds)
        known == {k \in K \cap KnownKeys(s, upds) : ReadKey(s, pending, k) # Absent}
    IN [k \in known |-> ReadKey(s, pending, k)]

GetEmbState(s, upds)             == StatesOf(s, upds, KnownKeys(s, upds))
GetAllPartialState(s, upds)      == StatesOf(s, upds, KnownKeys(s, upds))
GetValues(s, upds, K)            == StatesOf(s, upds, K)
GetPartialState(s, upds, K)      == StatesOf(s, upds, K)
GetAllExcept(s, upds, K)         == StatesOf(s, upds, KnownKeys(s, upds) \ K)
GetExceptSingleState(s, upds, e) == StatesOf(s, upds, KnownKeys(s, upds) \ {e})

\* getStateIfCondition with a comparison of integers (intCompareHelper).
IntCompareHelper(c, v) == v # NotCounter /\ CheckIntComparison(c.cmp, v, c.n)
Passing(f, c) == Restrict(f, {k \in DOMAIN f : IntCompareHelper(c, f[k])})

GetAllCondState(s, upds, c)             == Passing(GetAllPartialState(s, upds), c)
GetCondState(s, upds, K, c)             == Passing(GetPartialState(s, upds, K), c)
GetExceptCondState(s, upds, K, c)       == Passing(GetAllExcept(s, upds, K), c)
GetExceptCondSingleState(s, upds, e, c) == Passing(GetExceptSingleState(s, upds, e), c)

\* Aggregates of a function from keys to values: the sum, the number, and
\* the extremes (NotCounter stands for the extreme floats they start from).
AggregateProcessStates(f) ==
    LET V == {f[k] : k \in DOMAIN f} \ {NotCounter}
    IN [sum |-> MapThenSumSet(LAMBDA k : IF f[k] = NotCounter THEN 0 ELSE f[k], DOMAIN f),
        count |-> Cardinality(DOMAIN f),
        max |-> IF V = {} THEN NotCounter ELSE Max(V), min |-> IF V = {} THEN NotCounter ELSE Min(V)]

\* With a condition, keys with pending updates are read with the updates of
\* the map, which mean nothing to the counter, instead of their own.
CondStates(s, upds, K, c) ==
    LET pending == PrepareApplyByCRDTMap(upds)
        kept(k) == k \in DOMAIN pending /\ pending[k][1] # NoOp
        value(k) == IF kept(k) THEN IF k \in DOMAIN s.entries THEN s.entries[k]
                                    ELSE IF pending[k][1] = PairUpdate THEN NotCounter ELSE CounterInit
                    ELSE ReadKey(s, pending, k)
        all == {k \in K \cap KnownKeys(s, upds) : value(k) # Absent}
    IN Passing([k \in all |-> value(k)], c)

GetAggregateStateByReadArgs(s, upds) == AggregateProcessStates(GetAllPartialState(s, upds))
GetAggregateStateByReadArgsByKeys(s, upds, K) == AggregateProcessStates(GetPartialState(s, upds, K))
GetAggregateStateByCompArgs(s, upds, c) == 
    AggregateProcessStates(CondStates(s, upds, KnownKeys(s, upds), c))
GetAggregateStateByCompArgsByKeys(s, upds, K, c) ==
    AggregateProcessStates(CondStates(s, upds, K, c))

\* getKeys sizes its answer by the numbers of entries, adds and removes, like
\* the getKeys of the observed-remove map (MapGetKeys).
GetKeys(s, upds) ==
    LET last(k) == CHOOSE i \in DOMAIN upds : k \in KeysOf(upds[i])
                        /\ \A j \in DOMAIN upds : k \in KeysOf(upds[j]) => j <= i
        named == UNION {KeysOf(u) : u \in Range(upds)}
        adds == {k \in named : upds[last(k)].op = "upd"}
        keys == (DOMAIN s.entries \ (named \ adds)) \cup adds
        size == Cardinality(DOMAIN s.entries) + Cardinality(adds) - Cardinality(named \ adds)
    IN IF size < Cardinality(keys) THEN {NotCounter}
       ELSE IF size > Cardinality(keys) THEN keys \cup {0} ELSE keys

HasKey(s, upds, k) ==
    LET I == {i \in DOMAIN upds : k \in KeysOf(upds[i])}
    IN IF I = {} THEN k \in DOMAIN s.entries ELSE upds[Max(I)].op = "upd"

\* getValue with pending updates puts them behind as many nils, reads a new
\* counter with the updates since the last remove, and panics when the second
\* element of the list is missing or nil.
GetValue(s, upds, k) ==
    LET nil == [op |-> "nil"]
        of(u) == SelectSeq(u.upds, LAMBDA p : p.key = k)
        step(q, u) == CASE k \notin KeysOf(u) -> q
                        [] u.op = "rem" -> <<NoOp>>
                        [] OTHER -> q \o [i \in DOMAIN of(u) |-> of(u)[i].upd]
        q == FoldLeft(step, [i \in DOMAIN upds |-> nil], upds)
    IN IF upds = <<>> THEN IF k \in DOMAIN s.entries THEN s.entries[k] ELSE Absent
       ELSE IF Len(q) < 2 \/ q[2] = nil THEN NotCounter ELSE CounterRead(CounterInit, q)

\* Every read, for keys up to k and one comparison.
EmbMapRead(s, upds, K, c) ==
    [state |-> GetEmbState(s, upds), onAll |-> GetAllPartialState(s, upds),
     values |-> [k \in K |-> GetValues(s, upds, {k})], partial |-> GetPartialState(s, upds, K),
     except |-> [k \in K |-> GetExceptSingleState(s, upds, k)], exceptAll |-> GetAllExcept(s, upds, K),
     condAll |-> GetAllCondState(s, upds, c), cond |-> GetCondState(s, upds, K, c),
     condExcept |-> [k \in K |-> GetExceptCondSingleState(s, upds, k, c)],
     condNone |-> GetExceptCondState(s, upds, K, c),
     aggr |-> <<GetAggregateStateByReadArgs(s, upds), GetAggregateStateByReadArgsByKeys(s, upds, K)>>,
     condAggr |-> <<GetAggregateStateByCompArgs(s, upds, c),
                    GetAggregateStateByCompArgsByKeys(s, upds, K, c)>>,
     keys |-> GetKeys(s, upds), has |-> [k \in K |-> HasKey(s, upds, k)],
     value |-> [k \in K |-> GetValue(s, upds, k)]]

-----------------------------------------------------------------------------
(* Codecs *)

\* The updates inside are encoded like those of their own type; a message
\* with updates is one of updates.
EmbMapApi(u) ==
    IF u.op = "rem" THEN u
    ELSE [u EXCEPT !.upds = [i \in DOMAIN @ |-> [key |-> @[i].key, upd |-> CounterApi(@[i].upd)]]]
EmbMapWire(d) ==
    IF d.op = "rem" THEN d
    ELSE [d EXCEPT !.upds = [i \in DOMAIN @ |-> [key |-> @[i].key, upd |-> CounterWire(@[i].upd)]]]

\* The snapshot holds addresses of loop variables: all entries carry the last
\* key and all but one are lost.  The index of a key's removes is not set back
\* to 0 for the next key: with two removed keys there is no snapshot.
EmbMapSnap(s, r) ==
    LET kept == IF DOMAIN s.entries = {} THEN {{}} ELSE {{k} : k \in DOMAIN s.entries}
    IN IF Cardinality({m.key : m \in s.removes}) > 1 THEN {}
       ELSE {[s EXCEPT !.entries = [k \in D |-> CounterSnap(@[k])], !.rep = r] : D \in kept}

=============================================================================
