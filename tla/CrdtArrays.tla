----------------------------- MODULE CrdtArrays -----------------------------
(***************************************************************************)
(* MultiArrayCrdt: four arrays in one object, of integers, of floats, of   *)
(* last-writer-wins registers and of averages, which grow as far as an     *)
(* update reaches.                                                         *)
(*                                                                         *)
(* Positions count from 1 (from 0 in the code).  An update is on one       *)
(* position, on the first ones, on a list of positions or on a range, of   *)
(* one kind; on the first positions of all kinds; or sets the sizes.  An   *)
(* access outside an array ends the process: such a downstream does not    *)
(* fit the object.                                                         *)
(***************************************************************************)
EXTENDS CrdtTops

MultiArrayKinds == {"int", "float", "data", "avg"}
NoRegister == 0                          \* nil
Zero(k) == IF k = "avg" THEN [sum |-> 0, n |-> 0] ELSE 0
NoNumber == 0 - 2^IntBits                \* no value of the arrays: a panic
NoReply(k) == IF k = "avg" THEN [sum |-> NoNumber, n |-> NoNumber] ELSE NoNumber

\* What a change makes of the value at a position, and what takes it back.
Put(k, old, v) ==
    CASE k = "int"   -> Wrap(old + v)
      [] k = "float" -> old + v
      [] k = "data"  -> v
      [] k = "avg"   -> [sum |-> old.sum + v.sum, n |-> old.n + v.n]
Negated(k, v) == IF k = "avg" THEN [sum |-> 0 - v.sum, n |-> 0 - v.n] ELSE 0 - v

\* make and copy: a longer array is padded, and a longer one is cut.
Resized(x, n, z) ==
    IF n <= Len(x) THEN SubSeq(x, 1, n) ELSE x \o [i \in 1..(n - Len(x)) |-> z]
Grown(x, n, z) == IF n > Len(x) THEN Resized(x, n, z) ELSE x

\* The object of a replica; ts is dataTsId, vm tells that it has a CRDTVM.
MArrayInit(r) ==
    [int |-> <<>>, float |-> <<>>, data |-> <<>>, ts |-> <<>>, avg |-> <<>>,
     rep |-> r, vm |-> TRUE]

ExpandInt(s, n)   == [s EXCEPT !.int = Resized(@, n, 0)]
ExpandFloat(s, n) == [s EXCEPT !.float = Resized(@, n, 0)]
ExpandData(s, n)  == [s EXCEPT !.data = Resized(@, n, NoRegister), !.ts = Resized(@, n, 0)]
ExpandAvg(s, n)   == [s EXCEPT !.avg = Resized(@, n, Zero("avg"))]
Expand(k, s, n) ==
    CASE k = "int"   -> ExpandInt(s, n)
      [] k = "float" -> ExpandFloat(s, n)
      [] k = "data"  -> ExpandData(s, n)
      [] k = "avg"   -> ExpandAvg(s, n)

\* The requests of clients on the array of kind k.
MArrayUpdates(k, P, V) ==
    [op : {"single"}, kind : {k}, pos : P, val : V] \cup
    [op : {"full"}, kind : {k}, vals : {<<v, w>> : v \in V, w \in V}] \cup
    {[op |-> "positions", kind |-> k, pos |-> <<p, q>>, vals |-> x] :
        <<p, q, x>> \in {<<p, q, x>> \in P \X P \X {<<v>> : v \in V} : p < q}} \cup
    {[op |-> "range", kind |-> k, from |-> p, to |-> q, val |-> v] :
        <<p, q, v>> \in {<<p, q, v>> \in P \X P \X V : p < q}}
MArraySizes(N) == {[op |-> "sizes", size |-> [k \in MultiArrayKinds |-> n]] : n \in N}
MArrayAlls(V) ==
    {[op |-> "all", vals |-> [k \in MultiArrayKinds |->
        IF k \in K THEN <<IF k = "avg" THEN [sum |-> v, n |-> 1] ELSE v>> ELSE <<>>]] :
        K \in {{"int", "avg"}, {"float", "data"}}, v \in V}

\* The changes an update makes, in order, and the last position it needs.
Changes(u) ==
    CASE u.op = "single"    -> <<[at |-> u.pos, val |-> u.val]>>
      [] u.op = "full"      -> [i \in DOMAIN u.vals |-> [at |-> i, val |-> u.vals[i]]]
      [] u.op = "positions" ->
            [i \in DOMAIN u.pos |->
                [at |-> u.pos[i], val |-> IF Len(u.vals) = 1 THEN u.vals[1] ELSE u.vals[i]]]
      [] u.op = "range"     ->
            [i \in 1..(u.to - u.from + 1) |-> [at |-> u.from + i - 1, val |-> u.val]]
Reach(u) == Max({c.at : c \in Range(Changes(u))})

\* Update: registers get a timestamp, the clock before the replica's ID;
\* a SetSizes below three of the sizes does nothing.
Generate64BitTsAndId(s, e) == 16 * e.now + s.rep
MArrayUpdate(s, u, e) ==
    CASE u.op = "sizes" ->
            IF \A k \in {"int", "float", "data"} : u.size[k] < Len(s[k]) THEN NoOp ELSE u
      [] u.op = "all" ->
            u @@ [ts |-> IF u.vals["data"] # <<>> THEN Generate64BitTsAndId(s, e) ELSE 0]
      [] OTHER ->
            IF u.kind = "data" THEN u @@ [ts |-> Generate64BitTsAndId(s, e)] ELSE u

-----------------------------------------------------------------------------
(* applyDownstream. *)

\* The effects: sizes to return to (-1 for an array left alone), changes to
\* take back with the size to return to, and registers to put back.
SizesEff(n) == [eff |-> "sizes", n |-> n]
OnlySize(k, n) == SizesEff([j \in MultiArrayKinds |-> IF j = k THEN n ELSE 0])
TakeBack(k, changes, old) == [eff |-> "inc", kind |-> k, changes |-> changes, old |-> old]

Bumped(s, k, changes) ==
    [s EXCEPT ![k] = FoldLeft(LAMBDA x, c : [x EXCEPT ![c.at] = Put(k, @, c.val)], @, changes)]
SizeFor(k, s, n) == IF n > Len(s[k]) THEN Expand(k, s, n) ELSE s

\* The single form makes a size effect that names one array and has the
\* others at zero; of the rest, undoEffect only knows the growing full form.
ApplyInt(s, d) ==
    LET grows == Reach(d) > Len(s.int)
    IN [st |-> Bumped(SizeFor("int", s, Reach(d)), "int", Changes(d)),
        eff |-> CASE grows /\ d.op = "single" -> OnlySize("int", Len(s.int))
                  [] grows /\ d.op = "full"   -> TakeBack("int", Changes(d), Len(s.int))
                  [] OTHER -> NoEffect]

\* A range tests and grows the integers in place of the floats.
ApplyFloat(s, d) ==
    LET grows == Reach(d) > Len(s.float)
        sized == IF d.op # "range" THEN SizeFor("float", s, Reach(d))
                 ELSE IF d.to > Len(s.int) THEN ExpandInt(s, d.to) ELSE s
    IN [st |-> Bumped(sized, "float", Changes(d)),
        eff |-> CASE d.op = "range" -> NoEffect
                  [] grows /\ d.op = "single" -> OnlySize("float", Len(s.float))
                  [] OTHER -> TakeBack("float", Changes(d), IF grows THEN Len(s.float) ELSE -1)]

\* A range tests the integers and then resizes the averages, which may cut
\* them.  A growing full form leaves the size behind when it is undone.
ApplyAvg(s, d) ==
    LET grows == Reach(d) > Len(s.avg)
        sized == IF d.op # "range" THEN SizeFor("avg", s, Reach(d))
                 ELSE IF d.to > Len(s.int) THEN ExpandAvg(s, d.to) ELSE s
    IN [st |-> Bumped(sized, "avg", Changes(d)),
        eff |-> CASE d.op = "range" -> NoEffect
                  [] grows /\ d.op = "single" -> OnlySize("avg", Len(s.avg))
                  [] OTHER -> TakeBack("avg", Changes(d),
                                       IF grows /\ d.op = "positions" THEN Len(s.avg) ELSE -1)]

\* Registers: a change is made where its timestamp is higher.
Written(s, d) == {c \in Range(Changes(d)) : d.ts > s.ts[c.at]}
WriteData(s, d) ==
    LET at == {c.at : c \in Written(s, d)}
        val(p) == (CHOOSE c \in Range(Changes(d)) : c.at = p).val
    IN [s EXCEPT !.data = [p \in DOMAIN @ |-> IF p \in at THEN val(p) ELSE @[p]],
                 !.ts = [p \in DOMAIN @ |-> IF p \in at THEN d.ts ELSE @[p]]]
PutBack(pos, data, ts, old, oldTs) ==
    [eff |-> "data", pos |-> pos, data |-> data, ts |-> ts, old |-> old, oldTs |-> oldTs]

ApplyData(s, d) ==
    LET n     == Len(s.data)
        grows == Reach(d) > n
        sized == IF d.op # "range" THEN SizeFor("data", s, Reach(d))
                 ELSE IF d.to > Len(s.int) THEN ExpandData(s, d.to) ELSE s
        fresh == WriteData(sized, d)
        inside == SelectSeq(Changes(d), LAMBDA c : c.at <= n /\ s.data[c.at] # NoRegister
                                                             /\ d.ts > s.ts[c.at])
    IN [st |-> fresh,
        eff |->
            CASE d.op = "range" \/ Written(sized, d) = {} -> NoEffect
              [] d.op = "single" /\ grows -> OnlySize("data", n)
              [] d.op \in {"single", "full"} ->
                    PutBack(IF d.op = "single" THEN {d.pos} ELSE 1..n, s.data, s.ts,
                            IF grows THEN n ELSE -1, IF grows THEN n ELSE -1)
              [] d.op = "positions" ->
                    PutBack({c.at : c \in Range(inside)}, s.data, s.ts,
                            IF grows THEN n ELSE -1, -1)]

\* UpdateAll: every array with changes in turn.  The effect is that of the
\* one array changed, or of all: then the registers are never put back, and
\* the size to return to is -1 for an array without changes.
AllPart(d, k) == [op |-> "full", kind |-> k, vals |-> d.vals[k], ts |-> d.ts]
MultiEffect(s, d, data, done) ==
    LET old(k) == IF k \in done THEN Len(s[k]) ELSE -1
        Only(k, c) == TakeBack(k, c, IF Len(c) > Len(s[k]) /\ k # "avg" THEN Len(s[k]) ELSE -1)
        Alone(k) == Only(k, Changes(AllPart(d, k)))
    IN CASE done = {} -> NoEffect
         [] done = {"data"} -> data.eff
         [] Cardinality(done) = 1 /\ done # {"data"} -> Alone(CHOOSE k \in done : TRUE)
         [] OTHER -> [eff |-> "all", vals |-> d.vals,
                      cut |-> \E k \in MultiArrayKinds : old(k) # Len(data.st[k]),
                      old |-> [k \in MultiArrayKinds |-> old(k)]]
ApplyMulti(s, d) ==
    LET kinds == {k \in MultiArrayKinds : d.vals[k] # <<>>}
        put(st, k) == Bumped(SizeFor(k, st, Len(d.vals[k])), k, Changes(AllPart(d, k)))
        Done(data) ==
            [st |-> data.st,
             eff |-> MultiEffect(s, d, data, {k \in kinds : k # "data" \/ data.eff # NoEffect})]
        Data(st) == IF "data" \in kinds THEN ApplyData(st, AllPart(d, "data"))
                    ELSE [st |-> st, eff |-> NoEffect]
    IN Done(Data(FoldLeft(put, s, SetToSeq(kinds \ {"data"}))))

\* SetSizes: arrays only grow; the old size kept for the registers is the
\* one of the floats.
ApplySize(s, d) ==
    LET bigger == {k \in MultiArrayKinds : d.size[k] > Len(s[k])}
        grow(st, k) == Expand(k, st, d.size[k])
        floats == IF "float" \in bigger THEN d.size["float"] ELSE Len(s.float)
    IN [st |-> FoldLeft(grow, s, SetToSeq(bigger)),
        eff |-> IF bigger = {} THEN NoEffect
                ELSE SizesEff([k \in MultiArrayKinds |->
                        IF k \notin bigger THEN -1
                        ELSE IF k = "data" THEN floats ELSE Len(s[k])])]

MArrayApply(s, d) ==
    CASE d.op = "sizes" -> ApplySize(s, d)
      [] d.op = "all"   -> ApplyMulti(s, d)
      [] d.kind = "int" -> ApplyInt(s, d)
      [] d.kind = "float" -> ApplyFloat(s, d)
      [] d.kind = "data"  -> ApplyData(s, d)
      [] d.kind = "avg"   -> ApplyAvg(s, d)

\* The positions a downstream touches exist when it gets there, and the object
\* has a CRDTVM to tell.  A register may be without a timestamp after an undo.
MArrayFits(s, d) ==
    CASE ~s.vm -> FALSE
      [] d.op = "sizes" -> TRUE
      [] s.vm /\ d.op = "all" -> Len(d.vals["data"]) > Len(s.data) \/ Len(d.vals["data"]) <= Len(s.ts)
      [] d.op = "range" /\ d.kind \in {"float", "avg", "data"} ->
            /\ d.to <= Len(s[d.kind]) \/ (d.kind # "float" /\ d.to > Len(s.int))
            /\ d.kind = "data" => d.to > Len(s.int) \/ d.to <= Len(s.ts)
      [] d.kind = "data" ->
            \A c \in Range(Changes(d)) : c.at > Len(s.data) \/ c.at <= Len(s.ts)
      [] OTHER -> TRUE

\* undoEffect.  Slicing to a negative size panics.
Cut(x, n) == IF n < 0 THEN <<NoNumber>> ELSE SubSeq(x, 1, n)
CutTo(x, n) == IF n < 0 THEN x ELSE SubSeq(x, 1, n)
UndoAll(s, e) ==
    LET unbump(k) ==
            FoldLeft(LAMBDA x, i : [x EXCEPT ![i] = Put(k, @, Negated(k, e.vals[k][i]))],
                     s[k], [i \in DOMAIN e.vals[k] |-> i])
        after(k) == IF s[k] = <<>> THEN <<>>
                    ELSE IF e.cut THEN Cut(unbump(k), e.old[k]) ELSE unbump(k)
    IN [s EXCEPT !.int = after("int"), !.float = after("float"), !.avg = after("avg")]
MArrayUndo(s, e) ==
    CASE e.eff = "none" -> s
      [] e.eff = "all"  -> UndoAll(s, e)
      [] e.eff = "inc"  ->
            LET back == Bumped(s, e.kind, [i \in DOMAIN e.changes |->
                            [at |-> e.changes[i].at, val |-> Negated(e.kind, e.changes[i].val)]])
            IN [back EXCEPT ![e.kind] = CutTo(@, e.old)]
      [] e.eff = "data" ->
            LET back(p) == p \in e.pos /\ p <= Len(e.ts) /\ s.ts[p] > e.ts[p]
            IN [s EXCEPT
                 !.data = CutTo([p \in DOMAIN @ |-> IF back(p) THEN e.data[p] ELSE @[p]], e.old),
                 !.ts = CutTo([p \in DOMAIN @ |-> IF back(p) THEN e.ts[p] ELSE @[p]], e.oldTs)]
      [] e.eff = "sizes" ->
            [s EXCEPT !.int = CutTo(@, e.n["int"]), !.float = CutTo(@, e.n["float"]),
                      !.data = CutTo(@, e.n["data"]), !.avg = CutTo(@, e.n["avg"])]

-----------------------------------------------------------------------------
(* Read, with the updates of the transaction. *)

\* A list of positions with one value for all of them: understood for the
\* integers, and only with a single position for the others.
OneForAll(k, u) == IF k = "int" THEN Len(u.vals) = 1 ELSE Len(u.pos) = 1
Listed(k, u) == u.op # "positions" \/ Len(u.vals) = Len(u.pos) \/ OneForAll(k, u)

TmpSlice(k, x, u) ==
    IF ~Listed(k, u) THEN [i \in DOMAIN x |-> NoReply(k)]
    ELSE FoldLeft(LAMBDA y, c : [Grown(y, c.at, Zero(k)) EXCEPT ![c.at] = Put(k, @, c.val)],
                  Grown(x, Reach(u), Zero(k)), Changes(u))
ApplyIntUpdToTmpSlice(x, u)   == TmpSlice("int", x, u)
ApplyFloatUpdToTmpSlice(x, u) == TmpSlice("float", x, u)
ApplyDataUpdToTmpSlice(x, u)  == TmpSlice("data", x, u)
ApplyAvgUpdToTmpSlice(x, u)   == TmpSlice("avg", x, u)
ToTmpSlice(k, x, u) ==
    CASE k = "int"   -> ApplyIntUpdToTmpSlice(x, u)
      [] k = "float" -> ApplyFloatUpdToTmpSlice(x, u)
      [] k = "data"  -> ApplyDataUpdToTmpSlice(x, u)
      [] k = "avg"   -> ApplyAvgUpdToTmpSlice(x, u)

\* A SetSizes of the transaction: the array is copied from the object again,
\* which drops what the updates before it did, and the averages look at the
\* size of the integers.
ApplySizeUpdHelper(k, s, x, u) ==
    LET n == u.size[IF k = "avg" THEN "int" ELSE k]
    IN IF n > Len(x) THEN Resized(s[k], n, Zero(k)) ELSE x
OfKind(u, k) == u.op \notin {"sizes", "all"} /\ u.kind = k
ApplyPendingUpdatesFull(k, s, x, upds) ==
    LET one(y, u) == CASE OfKind(u, k)    -> ToTmpSlice(k, y, u)
                       [] u.op = "sizes"  -> ApplySizeUpdHelper(k, s, y, u)
                       [] OTHER -> y
    IN FoldLeft(one, x, upds)

GetFullStateOfType(k, s, upds) == ApplyPendingUpdatesFull(k, s, s[k], upds)

\* getState returns an unset result when there are pending updates.
GetState(s, upds) ==
    [k \in MultiArrayKinds |-> IF upds = <<>> THEN s[k] ELSE <<>>]

GetPositionOfSlice(p, x, z) == IF p <= Len(x) THEN x[p] ELSE z
GetSubSlice(x, P, z) == [i \in DOMAIN P |-> GetPositionOfSlice(P[i], x, z)]
\* The averages read are always those of the object.
GetSubStateOfType(k, s, upds, P) ==
    GetSubSlice(IF upds = <<>> \/ k = "avg" THEN s[k] ELSE GetFullStateOfType(k, s, upds), P, Zero(k))

\* One position: a list with one value for several positions is indexed by
\* the place of the position in it.
SingleValue(k, v, p, u) ==
    LET hit == SelectSeq(Changes(u), LAMBDA c : c.at = p)
        i == CHOOSE j \in DOMAIN Changes(u) : Changes(u)[j].at = p
    IN IF hit = <<>> THEN v
       ELSE IF u.op = "positions" /\ i > Len(u.vals) THEN NoReply(k)
       ELSE Put(k, v, hit[1].val)
ApplyIntUpdToSingleValue(v, p, u)   == SingleValue("int", v, p, u)
ApplyFloatUpdToSingleValue(v, p, u) == SingleValue("float", v, p, u)
ApplyDataUpdToSingleValue(v, p, u)  == SingleValue("data", v, p, u)
ApplyAvgUpdToSingleValue(v, p, u)   == SingleValue("avg", v, p, u)
ToSingleValue(k, v, p, u) ==
    CASE k = "int"   -> ApplyIntUpdToSingleValue(v, p, u)
      [] k = "float" -> ApplyFloatUpdToSingleValue(v, p, u)
      [] k = "data"  -> ApplyDataUpdToSingleValue(v, p, u)
      [] k = "avg"   -> ApplyAvgUpdToSingleValue(v, p, u)
GetPosStateOfType(k, s, upds, p) ==
    FoldLeft(LAMBDA v, u : IF OfKind(u, k) THEN ToSingleValue(k, v, p, u) ELSE v,
             GetPositionOfSlice(p, s[k], Zero(k)), upds)

\* A range [from, to), counted from 0 as in the code.  getRangeOfSlice returns
\* a part of the object's own array, in which the updates of the transaction
\* are written until one of them makes a copy: w.x is the slice, w.base the
\* array of the object, w.own tells that the slice is a copy.
GetRangeOfSlice(x, from, to) ==
    IF from > Len(x) THEN <<>> ELSE SubSeq(x, from + 1, IF to > Len(x) THEN Len(x) ELSE to)
Copied(k, w, n) == [w EXCEPT !.x = Resized(@, n, Zero(k)), !.own = TRUE]
Touch(k, w, from, c) ==
    IF c.at > Len(w.x) THEN [w EXCEPT !.ok = FALSE]
    ELSE [w EXCEPT !.x = [@ EXCEPT ![c.at] = Put(k, @, c.val)],
                   !.base = IF w.own THEN @ ELSE [@ EXCEPT ![from + c.at] = Put(k, @, c.val)]]

RangeSlice(k, w, u, from, to) ==
    LET all(v, cs) == FoldLeft(LAMBDA y, c : Touch(k, y, from, c), v, cs)
        n    == Len(u.vals)
        grow == n > Len(w.x) /\ Len(w.x) < to
        cap  == IF grow /\ n <= to THEN n ELSE to
        count(p) == IF k = "avg" THEN [u.vals[p] EXCEPT !.n = u.vals[p - from].n] ELSE u.vals[p]
        lo   == IF from > u.from - 1 THEN from ELSE u.from - 1
        hi   == IF to < u.to - 1 THEN to ELSE u.to - 1
        off  == IF from > u.from - 1 THEN from - u.from + 1 ELSE 0
    IN CASE u.op = "single" ->
              IF u.pos > to \/ u.pos <= from THEN w
              ELSE all(IF u.pos > Len(w.x) + 1 THEN Copied(k, w, u.pos) ELSE w, Changes(u))
         [] u.op = "full" ->
              LET v == IF grow THEN Copied(k, w, cap) ELSE w
              IN IF from >= cap THEN v
                 ELSE IF cap > n THEN [v EXCEPT !.ok = FALSE]
                 ELSE all(v, [i \in 1..(cap - from) |-> [at |-> from + i, val |-> count(from + i)]])
         [] u.op = "positions" ->
              IF ~Listed(k, u) THEN [w EXCEPT !.ok = FALSE]
              ELSE FoldLeft(LAMBDA y, c : Touch(k, IF c.at > Len(y.x) THEN Copied(k, y, c.at) ELSE y,
                                                from, c),
                            w, SelectSeq(Changes(u), LAMBDA c : c.at > from /\ c.at <= to))
         [] u.op = "range" ->
              IF u.to <= from \/ u.from > to + 1 THEN w
              ELSE all(IF u.to > Len(w.x) THEN Copied(k, w, u.to) ELSE w,
                       [i \in 1..(hi - lo + 1) |-> [at |-> lo + i + off, val |-> u.val]])
ApplyIntUpdToRangeSlice(w, u, from, to)   == RangeSlice("int", w, u, from, to)
ApplyFloatUpdToRangeSlice(w, u, from, to) == RangeSlice("float", w, u, from, to)
ApplyDataUpdToRangeSlice(w, u, from, to)  == RangeSlice("data", w, u, from, to)
ApplyAvgUpdToRangeSlice(w, u, from, to)   == RangeSlice("avg", w, u, from, to)
ToRangeSlice(k, w, u, from, to) ==
    CASE k = "int"   -> ApplyIntUpdToRangeSlice(w, u, from, to)
      [] k = "float" -> ApplyFloatUpdToRangeSlice(w, u, from, to)
      [] k = "data"  -> ApplyDataUpdToRangeSlice(w, u, from, to)
      [] k = "avg"   -> ApplyAvgUpdToRangeSlice(w, u, from, to)

RangeWork(k, s, upds, from, to) ==
    LET one(w, u) ==
            CASE ~w.ok -> w
              [] w.ok /\ OfKind(u, k) -> ToRangeSlice(k, w, u, from, to)
              [] w.ok /\ u.op = "sizes" ->
                    LET x == ApplySizeUpdHelper(k, s, w.x, u)
                    IN IF x = w.x THEN w ELSE [w EXCEPT !.x = x, !.own = TRUE]
              [] OTHER -> w
    IN FoldLeft(one, [x |-> GetRangeOfSlice(s[k], from, to), base |-> s[k],
                      own |-> FALSE, ok |-> TRUE], upds)
GetRangeStateOfType(k, s, upds, from, to) ==
    LET w == RangeWork(k, s, upds, from, to) IN IF w.ok THEN w.x ELSE <<NoReply(k)>>
\* The object after the read.
AfterRangeRead(k, s, upds, from, to) == [s EXCEPT ![k] = RangeWork(k, s, upds, from, to).base]

-----------------------------------------------------------------------------
(* Reads of several arrays, with a condition, and with a form per array. *)

\* The same with the size applied to the copy.
ApplySizeUpdHelperState(k, x, u) ==
    Grown(x, u.size[IF k = "avg" THEN "int" ELSE k], Zero(k))
MultiApplyPendingUpdatesFull(x, K, upds) ==
    LET one(st, u) == [k \in K |->
            CASE OfKind(u, k)   -> ToTmpSlice(k, st[k], u)
              [] u.op = "sizes" -> ApplySizeUpdHelperState(k, st[k], u)
              [] OTHER -> st[k]]
    IN FoldLeft(one, x, upds)
MultiCopySlices(s, K) == [k \in K |-> s[k]]
GetFullStateOfMultipleTypes(s, upds, K) ==
    MultiApplyPendingUpdatesFull(MultiCopySlices(s, K), K, upds)
GetPosStateOfMultipleTypes(s, upds, K, p) == [k \in K |-> GetPosStateOfType(k, s, upds, p)]
GetSubStateOfMultipleTypes(s, upds, K, P) ==
    LET x == GetFullStateOfMultipleTypes(s, upds, K)
    IN [k \in K |-> GetSubSlice(x[k], P, Zero(k))]

\* The comparisons; of an average, its quotient (NaN without a count).
CheckIntComparison(cmp, v, n) ==
    CASE cmp = "EQ"  -> v = n
      [] cmp = "NEQ" -> v # n
      [] cmp = "LEQ" -> v <= n
      [] cmp = "L"   -> v < n
      [] cmp = "H"   -> v > n
      [] cmp = "HEQ" -> v >= n
CheckFloatComparison(cmp, v, n, by) ==
    IF by = 0 /\ v = 0 THEN cmp = "NEQ" ELSE CheckIntComparison(cmp, v, n * by)

\* The registers, if the value at a position passes: nil when it does not.
DataIf(ok, s, upds, v) ==
    [found |-> ok, val |-> v, data |-> IF ok THEN
        FoldLeft(LAMBDA x, u : IF OfKind(u, "data") THEN ToTmpSlice("data", x, u) ELSE x,
                 s.data, upds) ELSE <<>>]
GetDataIntState(s, upds, p) == DataIf(TRUE, s, upds, GetPosStateOfType("int", s, upds, p))
GetDataIntComparableState(s, upds, p, cmp, n) ==
    LET v == GetPosStateOfType("int", s, upds, p)
    IN DataIf(CheckIntComparison(cmp, v, n), s, upds, v)
GetDataFloatComparableState(s, upds, p, cmp, n) ==
    LET v == GetPosStateOfType("float", s, upds, p)
    IN DataIf(CheckFloatComparison(cmp, v, n, 1), s, upds, v)
GetDataAvgComparableState(s, upds, p, cmp, n) ==
    LET v == GetPosStateOfType("avg", s, upds, p)
    IN DataIf(CheckFloatComparison(cmp, v.sum, n, v.n), s, upds, v)

\* getMultiArrayCustomType: the form of a read is told by its positions
\* (from 0; -1 asks for everything).
CustomType(P) ==
    CASE P = <<>> -> "ignore"
      [] Len(P) = 1 -> IF P[1] >= 0 THEN "single" ELSE "full"
      [] Len(P) = 2 -> IF P[2] > P[1] THEN "range" ELSE "sub"
      [] OTHER -> "sub"
\* getCustomState for the integers, floats or registers.  Only updates of the
\* one kind are looked at, not sizes.
GetCustomState(k, s, upds, P) ==
    LET own == SelectSeq(upds, LAMBDA u : OfKind(u, k))
        full == FoldLeft(LAMBDA x, u : ToTmpSlice(k, x, u), s[k], own)
    IN CASE CustomType(P) = "ignore" -> <<>>
         [] CustomType(P) = "full"   -> full
         [] CustomType(P) = "single" ->
                IF P[1] < Len(s[k]) THEN <<GetPosStateOfType(k, s, own, P[1] + 1)>>
                ELSE <<NoReply(k)>>
         [] CustomType(P) = "range"  -> GetRangeStateOfType(k, s, own, P[1], P[2])
         [] CustomType(P) = "sub"    ->
                GetSubSlice(full, [i \in DOMAIN P |-> P[i] + 1], Zero(k))

\* The reads of the array of kind k: whole, at positions, a list, a range,
\* among all kinds, with the registers if a condition holds, and by the form
\* of the positions asked for.
MArrayRead(s, upds, k, P, cmp, n) ==
    LET list == SetToSortSeq(P, LAMBDA p, q : p < q)
        top  == Max(P)
    IN [state |-> GetState(s, upds)[k],
        full  |-> GetFullStateOfType(k, s, upds),
        pos   |-> [p \in P |-> GetPosStateOfType(k, s, upds, p)],
        sub   |-> GetSubStateOfType(k, s, upds, list),
        range |-> GetRangeStateOfType(k, s, upds, 0, top),
        types |-> GetFullStateOfMultipleTypes(s, upds, {k})[k],
        subs  |-> GetSubStateOfMultipleTypes(s, upds, {k}, list)[k],
        single |-> [p \in P |-> GetPosStateOfMultipleTypes(s, upds, {k}, p)[k]],
        cond  |-> [p \in P |->
            CASE k = "int"   -> GetDataIntComparableState(s, upds, p, cmp, n)
              [] k = "float" -> GetDataFloatComparableState(s, upds, p, cmp, n)
              [] k = "avg"   -> GetDataAvgComparableState(s, upds, p, cmp, n)
              [] k = "data"  -> GetDataIntState(s, upds, p)],
        custom |-> IF k = "avg" THEN <<>>
                   ELSE [f \in {<<>>, <<-1>>, <<0, top>>, <<top - 1, 0>>} |-> GetCustomState(k, s, upds, f)]]

-----------------------------------------------------------------------------
(* Codecs. *)

\* The request for a range of registers is decoded as one for the first of
\* the integers, with no change; the rest arrives as sent.
MArrayApi(u) ==
    IF u.op = "range" /\ u.kind = "data"
    THEN [op |-> "range", kind |-> "int", from |-> 1, to |-> 1, val |-> 0]
    ELSE u
MArrayWire(d) == d

\* A snapshot has no timestamps and no replica, and the object made of it has
\* no CRDTVM: initializeFromSnapshot is not called.
MArraySnap(s) == [s EXCEPT !.ts = <<>>, !.rep = 0, !.vm = FALSE]

=============================================================================
