------------------------------ MODULE CrdtTypes ------------------------------
(***************************************************************************)
(* The dispatch on the CRDT type: InitializeCrdt (commonTools.go), the     *)
(* decoders of crdtProtoLib.go, and the reference every type is checked    *)
(* against, written from the updates' causal order and not from the code.  *)
(***************************************************************************)
EXTENDS CrdtEmbMap

CONSTANTS
    Numbers,     \* amounts and values of updates
    Elements,    \* elements of sets and values of maps, naturals above 0
    Keys,        \* keys of maps, naturals above 0
    Times,       \* readings of a replica's wall clock, naturals above 0
    TopIds,      \* IDs of the entries of tops, naturals above 0
    TopScores,   \* their scores, naturals above 0
    Positions,   \* positions of arrays, naturals above 0
    RangeKinds   \* the arrays of a MultiArrayCrdt that are updated by ranges

\* The types made of a MultiArrayCrdt, one for each of its arrays, and the
\* array of each; "marray" has updates of several arrays.
ArrayTypes == {"ints", "floats", "regs", "avgs", "marray"}
KindOf(ty) ==
    CASE ty \in {"ints", "marray"} -> "int"
      [] ty = "floats" -> "float"
      [] ty = "regs"   -> "data"
      [] ty = "avgs"   -> "avg"

InitializeCrdt(ty, r) ==
    CASE ty = "counter" -> CounterInit
      [] ty = "float"   -> CounterInit
      [] ty = "pair"    -> PairInit
      [] ty = "avg"     -> AvgInit
      [] ty \in {"max", "min"} -> MaxMinInit
      [] ty = "ew"      -> EwInit(r)
      [] ty = "dw"      -> DwInit(r)
      [] ty = "lwwflag" -> LwwFlagInit(r)
      [] ty = "lwwreg"  -> LwwRegInit(r)
      [] ty = "set"     -> SetInit(r)
      [] ty = "map"     -> MapInit(r)
      [] ty = "topk"    -> TopkInit
      [] ty = "topkrmv" -> TopkRmvInit(r)
      [] ty = "topsum"  -> TopsInit(r)
      [] ty \in ArrayTypes -> MArrayInit(r)
      [] ty \in {"carray", "cincs"} -> CArrayInit
      [] ty = "embmap"  -> EmbMapInit(r)

TypeUpdates(ty) ==
    CASE ty \in {"counter", "float"} -> CounterUpdates(Numbers)
      [] ty = "pair"    -> PairUpdates(Numbers)
      [] ty = "avg"     -> AvgUpdates(Numbers)
      [] ty \in {"max", "min"} -> MaxMinUpdates(ty, Numbers)
      [] ty \in {"ew", "dw", "lwwflag"} -> FlagUpdates
      [] ty = "lwwreg"  -> RegisterUpdates(Elements)
      [] ty = "set"     -> SetUpdates(Elements)
      [] ty = "map"     -> MapUpdates(Keys, Elements)
      [] ty = "topk"    ->
            TopUpdates(TopIds, TopScores) \cup TopAddAlls(TopIds, TopScores) \cup TopInits({2})
      [] ty = "topkrmv" -> TopUpdates(TopIds, TopScores) \cup TopkRmvUpdates(TopIds)
      [] ty = "topsum"  -> TopUpdates(TopIds, TopScores \cup {-1}) \cup TopInits({2})
      [] ty = "marray"  -> MArrayAlls(Numbers) \cup MArraySizes({2})
      [] ty \in ArrayTypes \ {"marray"} ->
            LET k == KindOf(ty)
                V == IF k = "avg" THEN [sum : Numbers, n : {1}] ELSE Numbers
            IN {u \in MArrayUpdates(k, Positions, V) : u.op # "range" \/ k \in RangeKinds}
               \cup MArraySizes({2})
      [] ty = "carray"  -> CArrayUpdates(Positions, Numbers)
      [] ty = "cincs"   -> {u \in CArrayUpdates(Positions, Numbers) : u.op # "dec"}
      [] ty = "embmap"  -> EmbMapUpdates(Keys, CounterUpdates(Numbers))

\* Only the last-writer-wins types and the arrays of registers read the clock.
Environments(ty) ==
    IF ty \in {"lwwflag", "lwwreg"} THEN [now : Times, rand : {0, 1}]
    ELSE IF ty \in {"regs", "marray"} THEN [now : Times, rand : {0}]
    ELSE {[now |-> 0, rand |-> 0]}

UpdateProtoToAntidoteUpdate(ty, u) ==
    CASE ty = "counter" -> CounterApi(u)
      [] ty = "float"   -> FloatApi(u)
      [] ty = "pair"    -> PairApi(u)
      [] ty = "avg"     -> AvgApi(u)
      [] ty \in {"max", "min"} -> MaxMinApi(u)
      [] ty \in {"ew", "dw", "lwwflag"} -> FlagApi(u)
      [] ty = "lwwreg"  -> RegisterApi(u)
      [] ty = "set"     -> SetApi(u)
      [] ty = "map"     -> MapApi(u)
      [] ty = "topk"    -> TopkApi(u)
      [] ty = "topkrmv" -> TopkRmvApi(u)
      [] ty = "topsum"  -> TopsApi(u)
      [] ty \in ArrayTypes -> MArrayApi(u)
      [] ty \in {"carray", "cincs"} -> CArrayApi(u)
      [] ty = "embmap"  -> EmbMapApi(u)

\* Types whose Update does not change the object.
Pure(s, down) == [st |-> s, down |-> down]

TypeUpdate(ty, s, u, e) ==
    CASE ty \in {"counter", "float", "pair"} -> Pure(s, u)
      [] ty = "avg"     -> Pure(s, AvgUpdate(u))
      [] ty \in {"max", "min"} -> Pure(s, MaxMinUpdate(s, u))
      [] ty = "ew"      -> EwUpdate(s, u)
      [] ty = "dw"      -> DwUpdate(s, u)
      [] ty = "lwwflag" -> Pure(s, LwwFlagUpdate(s, u, e))
      [] ty = "lwwreg"  -> Pure(s, LwwRegUpdate(s, u, e))
      [] ty = "set"     -> SetUpdate(s, u)
      [] ty = "map"     -> MapUpdate(s, u)
      [] ty = "topk"    -> Pure(s, TopkUpdate(s, u))
      [] ty = "topkrmv" -> TopkRmvUpdate(s, u)
      [] ty = "topsum"  -> Pure(s, TopsUpdate(s, u))
      [] ty \in ArrayTypes -> Pure(s, MArrayUpdate(s, u, e))
      [] ty \in {"carray", "cincs"} -> Pure(s, CArrayUpdate(s, u))
      [] ty = "embmap"  -> Pure(s, EmbMapUpdate(s, u))

\* The uniform types replicate what they apply and generate nothing.
UniformApply(ty, s, d) ==
    CASE ty = "counter" -> CounterApply(s, d)
      [] ty = "float"   -> FloatApply(s, d)
      [] ty = "pair"    -> PairApply(s, d)
      [] ty = "avg"     -> AvgApply(s, d)
      [] ty \in {"max", "min"} -> MaxMinApply(s, d)
      [] ty = "ew"      -> EwApply(s, d)
      [] ty = "dw"      -> DwApply(s, d)
      [] ty = "lwwflag" -> LwwFlagApply(s, d)
      [] ty = "lwwreg"  -> LwwRegApply(s, d)
      [] ty = "set"     -> SetApply(s, d)
      [] ty = "map"     -> MapApply(s, d)
      [] ty \in ArrayTypes -> MArrayApply(s, d)
      [] ty \in {"carray", "cincs"} -> CArrayApply(s, d)
      [] ty = "embmap"  -> EmbMapApply(s, d)

TypeApply(ty, s, d) ==
    LET Uniform(a) == Outcome(a.st, a.eff, NoOp, d)
    IN CASE ty = "topk"    -> TopkApply(s, d)
         [] ty = "topkrmv" -> TopkRmvApply(s, d)
         [] ty = "topsum"  -> TopsApply(s, d)
         [] OTHER -> Uniform(UniformApply(ty, s, d))

\* Only the arrays of a MultiArrayCrdt can be left by a downstream.
TypeFits(ty, s, d) == ty \in ArrayTypes => MArrayFits(s, d)

TypeUndo(ty, s, eff) ==
    CASE ty = "counter" -> CounterUndo(s, eff)
      [] ty = "float"   -> FloatUndo(s, eff)
      [] ty = "pair"    -> PairUndo(s, eff)
      [] ty = "avg"     -> AvgUndo(s, eff)
      [] ty \in {"max", "min"} -> MaxMinUndo(s, eff)
      [] ty = "ew"      -> EwUndo(s, eff)
      [] ty = "dw"      -> DwUndo(s, eff)
      [] ty = "lwwflag" -> LwwUndo(s, eff)
      [] ty = "lwwreg"  -> LwwRegUndo(s, eff)
      [] ty = "set"     -> SetUndo(s, eff)
      [] ty = "map"     -> MapUndo(s, eff)
      [] ty = "topk"    -> TopkUndo(s, eff)
      [] ty = "topkrmv" -> TopkRmvUndo(s, eff)
      [] ty \in ArrayTypes -> MArrayUndo(s, eff)
      [] ty \in {"carray", "cincs"} -> CArrayUndo(s, eff)
      [] ty = "embmap"  -> EmbMapUndo(s, eff)

DownstreamProtoToAntidoteDownstream(ty, d) ==
    CASE ty = "counter" -> CounterWire(d)
      [] ty = "float"   -> FloatWire(d)
      [] ty = "pair"    -> PairWire(d)
      [] ty = "avg"     -> AvgWire(d)
      [] ty \in {"max", "min"} -> MaxMinWire(d)
      [] ty = "ew"      -> EwWire(d)
      [] ty = "dw"      -> DwWire(d)
      [] ty = "lwwflag" -> LwwFlagWire(d)
      [] ty = "lwwreg"  -> LwwRegWire(d)
      [] ty = "set"     -> SetWire(d)
      [] ty = "map"     -> MapWire(d)
      [] ty = "topk"    -> TopkWire(d)
      [] ty = "topkrmv" -> TopkRmvWire(d)
      [] ty = "topsum"  -> TopsWire(d)
      [] ty \in ArrayTypes -> MArrayWire(d)
      [] ty \in {"carray", "cincs"} -> CArrayWire(d)
      [] ty = "embmap"  -> EmbMapWire(d)

StateProtoToCrdt(ty, s, r) ==
    CASE ty = "counter" -> {CounterSnap(s)}
      [] ty = "float"   -> {FloatSnap(s)}
      [] ty = "pair"    -> {PairSnap(s)}
      [] ty = "avg"     -> {AvgSnap(s)}
      [] ty \in {"max", "min"} -> {MaxMinSnap(s)}
      [] ty = "ew"      -> {EwSnap(s, r)}
      [] ty = "dw"      -> {DwSnap(s)}
      [] ty = "lwwflag" -> {LwwFlagSnap(s, r)}
      [] ty = "lwwreg"  -> {LwwRegSnap(s, r)}
      [] ty = "set"     -> {SetSnap(s, r)}
      [] ty = "map"     -> {MapSnap(s, r)}
      [] ty = "topk"    -> TopkSnap(s)
      [] ty = "topkrmv" -> TopkRmvSnap(s, r)
      [] ty = "topsum"  -> TopsSnap(s)
      [] ty \in ArrayTypes -> {MArraySnap(s)}
      [] ty \in {"carray", "cincs"} -> {CArraySnap(s)}
      [] ty = "embmap"  -> EmbMapSnap(s, r)

\* The condition of the reads that have one: above zero.
Condition == [cmp |-> "H", n |-> 0]

TypeRead(ty, s, upds) ==
    CASE ty = "counter" -> CounterRead(s, upds)
      [] ty = "float"   -> FloatRead(s, upds)
      [] ty = "pair"    -> PairRead(s, upds)
      [] ty = "avg"     -> AvgRead(s, upds)
      [] ty \in {"max", "min"} -> MaxMinRead(s, upds)
      [] ty = "ew"      -> EwRead(s, upds)
      [] ty = "dw"      -> DwRead(s, upds)
      [] ty = "lwwflag" -> LwwFlagRead(s, upds)
      [] ty = "lwwreg"  -> LwwRegRead(s, upds)
      [] ty = "set"     -> SetRead(s, upds, Elements)
      [] ty = "map"     -> MapRead(s, upds, Keys)
      [] ty = "topk"    -> TopkRead(s, TopScores)
      [] ty = "topkrmv" -> TopkRmvRead(s, TopScores)
      [] ty = "topsum"  -> TopsRead(s, TopScores)
      [] ty \in ArrayTypes ->
            MArrayRead(s, upds, KindOf(ty), Positions, Condition.cmp, Condition.n)
      [] ty \in {"carray", "cincs"} -> CArrayRead(s, upds)
      [] ty = "embmap"  -> EmbMapRead(s, upds, Keys, Condition)

\* getTopN keeps the sorted entries of a top.
TypePeek(ty, s) ==
    CASE ty = "topk"    -> TopCached(s, TopkState(s))
      [] ty = "topkrmv" -> TopCached(s, Shown(s.elems))
      [] ty = "topsum"  -> TopCached(s, s.elems)
      [] OTHER -> s

\* What replicas agree on: everything but the random source and the replica
\* an object lives at (and, before the first write, the replica it names).
View(ty, s) ==
    CASE ty \in {"counter", "float", "pair", "avg"} -> s
      [] ty \in {"max", "min"} -> s
      [] ty = "ew"  -> s.enables
      [] ty = "dw"  -> s.disables
      [] ty \in {"lwwflag", "lwwreg"} -> <<s.val, s.ts, IF s.ts = 0 THEN 0 ELSE s.rep>>
      [] ty = "set" -> s.elems
      [] ty = "map" -> s.entries
      [] ty = "topk" -> TopkState(s)
      [] ty = "topkrmv" -> Shown(s.elems)
      [] ty = "topsum" -> s.elems
      [] ty \in ArrayTypes -> <<s.int, s.float, s.data, s.ts, s.avg>>
      [] ty \in {"carray", "cincs"} -> s
      [] ty = "embmap" -> <<s.entries, s.removes, s.rmvClock>>

-----------------------------------------------------------------------------
(* The references.  S is a set of updates [id, from, deps, asked, down].   *)

Signed(op, n) == IF op = "inc" THEN n ELSE 0 - n

SumOver(S, F(_)) == MapThenSumSet(F, S)

\* Updates of the given kind that no later update of another kind overrides.
Standing(S, kind, other) ==
    {a \in S : a.asked.op = kind /\ ~\E b \in S : b.asked.op = other /\ a.id \in b.deps}

\* The winner of a last-writer-wins type: highest (ts, replica), and of one
\* replica's ties the first.
LwwWinner(S) ==
    CHOOSE w \in S : \A o \in S :
        \/ o.down.ts < w.down.ts
        \/ o.down.ts = w.down.ts /\ o.down.rep < w.down.rep
        \/ o.down.ts = w.down.ts /\ o.down.rep = w.down.rep /\ o.id >= w.id

SetReference(S) ==
    {e \in Elements :
        \E a \in S : /\ a.asked.op = "add"
                     /\ e \in a.asked.elems
                     /\ ~\E b \in S : /\ b.asked.op = "rem"
                                      /\ e \in b.asked.elems
                                      /\ a.id \in b.deps}

\* The adds of key k that no later update of k overrides.
MapStanding(S, k) ==
    {a \in S : /\ a.asked.op = "add"
               /\ k \in DOMAIN a.asked.vals
               /\ ~\E b \in S : Names(b.asked, k) /\ a.id \in b.deps}
MapReference(S) ==
    LET keys == {k \in Keys : MapStanding(S, k) # {}}
    IN [k \in keys |-> Min({a.asked.vals[k] : a \in MapStanding(S, k)})]

\* Of a table of entries, those with fewer than the top's size before them.
Before(a, b) == a.sc > b.sc \/ (a.sc = b.sc /\ a.id > b.id)
TopOf(E) == {e \in E : Cardinality({x \in E : Before(x, e)}) < DefaultTopSize}
TiedTopOf(E) == {e \in E : Cardinality({x \in E : x.sc > e.sc}) < DefaultTopSize}
AddsOf(S, id) ==
    UNION {{a.asked.scores[i].sc : i \in {j \in DOMAIN a.asked.scores : a.asked.scores[j].id = id}} :
              a \in {x \in S : x.asked.op = "add"}}
BestOf(S) ==
    {[id |-> i, sc |-> Max(AddsOf(S, i))] : i \in {j \in TopIds : AddsOf(S, j) # {}}}
Unremoved(S) ==
    {a \in S : ~\E b \in S : b.asked.op = "rem" /\ a.asked.op = "add" /\ a.id \in b.deps
                             /\ b.asked.ids[1] = a.asked.scores[1].id}
SumsOf(S) ==
    {[id |-> i, sc |-> SumOver({a \in S : a.asked.scores[1].id = i}, LAMBDA o : o.asked.scores[1].sc)] :
        i \in {a.asked.scores[1].id : a \in S}}
TopReads(E) == [state |-> E, topN |-> E, above |-> [m \in TopScores |-> {e \in E : e.sc >= m}]]

\* The array of kind k: as long as some update reaches, and at a position the
\* sum of what was added, or the register written last.
PartOf(u, k) ==
    CASE u.op = "sizes" -> <<>>
      [] u.op = "all"   -> Changes([op |-> "full", vals |-> u.vals[k]])
      [] OTHER -> IF u.kind = k THEN Changes(u) ELSE <<>>
LengthOf(u, k) ==
    IF u.op = "sizes" THEN u.size[k] ELSE Max({0} \cup {c.at : c \in Range(PartOf(u, k))})
ArrayOf(S, k) ==
    LET at(o, p) == SelectSeq(PartOf(o.asked, k), LAMBDA c : c.at = p)
        total(p, F(_)) == SumOver(S, LAMBDA o : FoldLeft(LAMBDA x, c : x + F(c.val), 0, at(o, p)))
        writes(p) == {o \in S : at(o, p) # <<>>}
        last(p) == CHOOSE w \in writes(p) : \A o \in writes(p) :
                        o.down.ts < w.down.ts \/ (o.down.ts = w.down.ts /\ o.id >= w.id)
    IN [p \in 1..Max({0} \cup {LengthOf(o.asked, k) : o \in S}) |->
            CASE k = "int"   -> Wrap(total(p, LAMBDA v : v))
              [] k = "float" -> total(p, LAMBDA v : v)
              [] k = "avg"   -> [sum |-> total(p, LAMBDA v : v.sum), n |-> total(p, LAMBDA v : v.n)]
              [] k = "data"  -> IF writes(p) = {} THEN NoRegister ELSE at(last(p), p)[1].val]
ReadsOfArray(A, D, k) ==
    LET top == Max(Positions)
        val(p) == IF p <= Len(A) THEN A[p] ELSE Zero(k)
        ok(p) == CASE k = "data" -> TRUE
                   [] k = "avg"  -> val(p).sum > 0
                   [] OTHER -> val(p) > 0
        list == SetToSortSeq(Positions, LAMBDA p, q : p < q)
        known == SubSeq(A, 1, Min({top, Len(A)}))
        number(p) == IF k = "data" THEN 0 ELSE val(p)
    IN [state |-> A, full |-> A, pos |-> [p \in Positions |-> val(p)],
        sub |-> [i \in DOMAIN list |-> val(list[i])], range |-> known, types |-> A,
        subs |-> [i \in DOMAIN list |-> val(list[i])], single |-> [p \in Positions |-> val(p)],
        cond |-> [p \in Positions |->
                    [found |-> ok(p), val |-> number(p), data |-> IF ok(p) THEN D ELSE <<>>]],
        custom |-> IF k = "avg" THEN <<>>
                   ELSE [f \in {<<>>, <<-1>>, <<0, top>>, <<top - 1, 0>>} |->
                            CASE f = <<>> -> <<>>
                              [] f = <<-1>> -> A
                              [] f = <<0, top>> -> known
                              [] OTHER -> <<val(top), val(1)>>]]
ArrayReads(S, k) == ReadsOfArray(ArrayOf(S, k), ArrayOf(S, "data"), k)

\* A counter array: what was asked for, position by position.
CountsOf(S) ==
    LET len == Max({1} \cup {IF o.asked.op = "size" THEN o.asked.n ELSE LastPosition(o.asked) : o \in S})
        zero == [i \in 1..len |-> 0]
        add(o) == AddAll(zero, CChanges(o.asked, o.asked.op, zero))
    IN [p \in 1..len |-> Wrap(SumOver({o \in S : o.asked.op # "size"}, LAMBDA o : add(o)[p]))]
CountReads(A) ==
    [state |-> A, single |-> A, sub |-> A,
     except |-> [p \in DOMAIN A |-> SubSeq(A, 1, p - 1) \o SubSeq(A, p + 1, Len(A))],
     range  |-> [p \in DOMAIN A |-> SubSeq(A, p + 1, Len(A))]]

\* An update of a key counts if it comes after every remove of that key.
Surviving(S, k) ==
    {a \in S : /\ a.asked.op = "upd"
               /\ k \in KeysOf(a.asked)
               /\ \A b \in S : b.asked.op = "rem" /\ k \in b.down.keys => b.id \in a.deps}
CountersOf(S) ==
    LET changes(a, k) == SelectSeq(a.asked.upds, LAMBDA p : p.key = k)
        total(a, k) == FoldLeft(LAMBDA x, p : x + Signed(p.upd.op, p.upd.n), 0, changes(a, k))
    IN [k \in {j \in Keys : Surviving(S, j) # {}} |->
            Wrap(SumOver(Surviving(S, k), LAMBDA a : total(a, k)))]
EmbMapReads(R) ==
    LET only(K) == [k \in K \cap DOMAIN R |-> R[k]]
        positive == {k \in DOMAIN R : R[k] > 0}
        aggr(f) == [sum |-> SumOver(DOMAIN f, LAMBDA k : f[k]), count |-> Cardinality(DOMAIN f),
                    max |-> IF DOMAIN f = {} THEN NotCounter ELSE Max({f[k] : k \in DOMAIN f}),
                    min |-> IF DOMAIN f = {} THEN NotCounter ELSE Min({f[k] : k \in DOMAIN f})]
    IN [state |-> R, onAll |-> R, values |-> [k \in Keys |-> only({k})], partial |-> R,
        except |-> [k \in Keys |-> only(Keys \ {k})], exceptAll |-> only({}),
        condAll |-> only(positive), cond |-> only(positive),
        condExcept |-> [k \in Keys |-> only(positive \ {k})], condNone |-> only({}),
        aggr |-> <<aggr(R), aggr(R)>>, condAggr |-> <<aggr(only(positive)), aggr(only(positive))>>,
        keys |-> DOMAIN R, has |-> [k \in Keys |-> k \in DOMAIN R],
        value |-> [k \in Keys |-> IF k \in DOMAIN R THEN R[k] ELSE Absent]]

Reference(ty, S) ==
    CASE ty = "counter" -> Wrap(SumOver(S, LAMBDA o : Signed(o.asked.op, o.asked.n)))
      [] ty = "float"   -> SumOver(S, LAMBDA o : Signed(o.asked.op, o.asked.n))
      [] ty = "pair"    ->
            [first |-> Wrap(SumOver(S, LAMBDA o : Signed(o.asked.op, o.asked.a))),
             second |-> SumOver(S, LAMBDA o : Signed(o.asked.op, o.asked.b))]
      [] ty = "avg"     ->
            [sum |-> SumOver(S, LAMBDA o : IF o.asked.op = "add" THEN o.asked.n ELSE o.asked.sum),
             nAdds |-> SumOver(S, LAMBDA o : IF o.asked.op = "add" THEN 1 ELSE o.asked.k)]
      [] ty = "max"     -> IF S = {} THEN MaxInt64 ELSE Max({o.asked.n : o \in S})
      [] ty = "min"     -> IF S = {} THEN MaxInt64 ELSE Min({o.asked.n : o \in S})
      [] ty = "ew"      -> Standing(S, "enable", "disable") # {}
      [] ty = "dw"      -> Standing(S, "disable", "enable") = {}
      [] ty = "lwwflag" -> S # {} /\ LwwWinner(S).asked.op = "enable"
      [] ty = "lwwreg"  -> IF S = {} THEN NoValue ELSE LwwWinner(S).asked.v
      [] ty = "set"     ->
            LET R == SetReference(S)
            IN [elems |-> R, has |-> [e \in Elements |-> e \in R], n |-> Cardinality(R)]
      [] ty = "map"     ->
            LET R == MapReference(S)
                Val(k) == IF k \in DOMAIN R THEN R[k] ELSE 0
            IN [state |-> R, values |-> R, keys |-> DOMAIN R,
                value |-> [k \in Keys |-> Val(k)], has |-> [k \in Keys |-> k \in DOMAIN R]]
      [] ty = "topk"    -> TopReads(TiedTopOf(BestOf(S)))
      [] ty = "topkrmv" -> TopReads(TopOf(BestOf(Unremoved(S))))
      [] ty = "topsum"  -> TopReads(TopOf(SumsOf(S)))
      [] ty \in ArrayTypes -> ArrayReads(S, KindOf(ty))
      [] ty \in {"carray", "cincs"} -> CountReads(CountsOf(S))
      [] ty = "embmap"  -> EmbMapReads(CountersOf(S))

=============================================================================
