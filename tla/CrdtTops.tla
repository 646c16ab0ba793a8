------------------------------ MODULE CrdtTops ------------------------------
(***************************************************************************)
(* The three leaderboards: TopKCrdt (only adds), TopKRmvCrdt (adds and     *)
(* removes) and TopSumCrdt (sums of scores).  The last two are not         *)
(* uniform: an update that cannot be seen in the top is not replicated,    *)
(* and applying a remote update may generate a new downstream.             *)
(*                                                                         *)
(* XApply(s, d) is [st, eff, gen, sent]: the object, the effect, the       *)
(* downstream generated, and the downstream that is replicated (NoOp for   *)
(* none).  An entry of a top is [id, sc]; the payload of an entry is left  *)
(* out.  IDs and scores are not zero, so NoScore is the empty struct.      *)
(***************************************************************************)
EXTENDS CrdtSets, SequencesExt

CONSTANT DefaultTopSize      \* the size of a new top (100 in the code)

NoScore == [id |-> 0, sc |-> 0]
WithId(E, id) == {e \in E : e.id = id}
Without(E, id) == {e \in E : e.id # id}
HasId(E, id) == WithId(E, id) # {}
EntryOf(E, id) == CHOOSE e \in E : e.id = id

\* The buffer sortedElems: empty (nil) or the entries as of the first getTopN.
NoCache == [has |-> FALSE, elems |-> {}]
Cache(E) == [has |-> TRUE, elems |-> E]

\* getTopN for a number beyond the top's size, on an object whose buffer may
\* be older than its entries; and the object after it.
TopN(s, E) == IF s.cache.has THEN s.cache.elems ELSE E
TopCached(s, E) == IF s.cache.has THEN s ELSE [s EXCEPT !.cache = Cache(E)]

Outcome(st, eff, gen, sent) == [st |-> st, eff |-> eff, gen |-> gen, sent |-> sent]

\* Adds of one entry, adds of several, and an Init that sets the size.
TopUpdates(Ids, Scores) ==
    {[op |-> "add", scores |-> <<[id |-> i, sc |-> x]>>] : i \in Ids, x \in Scores}
TopAddAlls(Ids, Scores) ==
    {[op |-> "add", scores |-> <<[id |-> i, sc |-> x], [id |-> j, sc |-> x]>>] :
        i \in Ids, j \in Ids, x \in Scores}
TopInits(Sizes) == {[op |-> "init", size |-> n] : n \in Sizes}

-----------------------------------------------------------------------------
(* TopKCrdt *)

TopkInit == [max |-> DefaultTopSize, small |-> NoScore, elems |-> {}, tied |-> {},
             cache |-> NoCache]

\* isHigherScore compares the ID of one entry with the score of the other.
IsHigherScore(a, b) ==
    b = NoScore \/ a.sc > b.sc \/ (a.sc = b.sc /\ a.id > b.sc)
IsLowerScore(a, b) ==
    b = NoScore \/ a.sc < b.sc \/ (a.sc = b.sc /\ a.id < b.id)

\* findAndUpdateMin
TopkMin(E) ==
    IF E = {} THEN NoScore ELSE CHOOSE e \in E : \A x \in E \ {e} : IsLowerScore(e, x)

\* getState: the top and, with it, what is tied with its last entry.
TopkState(s) == s.elems \cup s.tied

\* getTopKAboveValue: room for as many answers as the top has entries.  The
\* buffer holds the tied ones too and may not fit (a panic, {NoScore}).
TopkAbove(s, m) ==
    LET hits == {e \in s.cache.elems : e.sc >= m}
    IN IF ~s.cache.has THEN {e \in s.elems : e.sc >= m}
       ELSE IF Cardinality(hits) > Cardinality(s.elems) THEN {NoScore} ELSE hits

TopkRead(s, Scores) ==
    [state |-> TopkState(s), topN |-> TopN(s, TopkState(s)),
     above |-> [m \in Scores |-> TopkAbove(s, m)]]

\* Entries that cannot enter the top, nor tie with its last one, are dropped.
TopkPasses(s, e) ==
    /\ ~(HasId(s.elems, e.id) /\ EntryOf(s.elems, e.id).sc >= e.sc)
    /\ \/ HasId(s.elems, e.id)
       \/ Cardinality(s.elems) < s.max
       \/ IsHigherScore(e, s.small)
       \/ s.small.sc = e.sc

TopkUpdate(s, u) ==
    IF u.op = "init" THEN u
    ELSE LET kept == SelectSeq(u.scores, LAMBDA e : TopkPasses(s, e))
         IN IF kept = <<>> THEN NoOp ELSE [op |-> "add", scores |-> kept]

\* One entry of applyAdd, and of applyAddAll when all is TRUE.  The two differ
\* when the entry beats the last one: only applyAdd keeps the old last entry
\* among the tied ones when the new last entry has the same score.
TopkAddOne(s, e, all) ==
    LET beaten == Without(s.elems, s.small.id) \cup {e}
        newMin == TopkMin(beaten)
        same == [s EXCEPT !.elems = beaten, !.tied = Without(@, s.small.id) \cup {s.small},
                          !.small = IF e.sc = s.small.sc THEN e ELSE newMin]
        kind(k, old, min) == [eff |-> k, new |-> e, old |-> old, oldMin |-> min, tied |-> s.tied]
    IN IF HasId(s.elems, e.id) /\ EntryOf(s.elems, e.id).sc > e.sc
       THEN [st |-> s, eff |-> NoEffect]
       ELSE IF HasId(s.elems, e.id)
       THEN LET now == Without(s.elems, e.id) \cup {e}
            IN [st |-> [s EXCEPT !.elems = now,
                                 !.small = IF @.id = e.id THEN TopkMin(now) ELSE @],
                eff |-> kind("replace", EntryOf(s.elems, e.id), s.small)]
       ELSE IF Cardinality(s.elems) < s.max
       THEN [st |-> [s EXCEPT !.elems = @ \cup {e},
                              !.small = IF IsLowerScore(e, @) THEN e ELSE @],
             eff |-> IF IsLowerScore(e, s.small) THEN kind("replace", NoScore, s.small)
                     ELSE kind("add", NoScore, NoScore)]
       ELSE IF IsHigherScore(e, s.small) /\ e.sc = s.small.sc
       THEN [st |-> same, eff |-> kind("tied", s.small, s.small)]
       ELSE IF IsHigherScore(e, s.small) /\ ~all /\ newMin.sc = s.small.sc
       THEN [st |-> same, eff |-> kind("tied", newMin, newMin)]
       ELSE IF IsHigherScore(e, s.small)
       THEN LET old == IF all THEN s.small ELSE newMin
            IN [st |-> [s EXCEPT !.elems = beaten, !.tied = {}, !.small = newMin],
                eff |-> kind("clean", old, old)]
       ELSE IF s.small.sc = e.sc
       THEN [st |-> [s EXCEPT !.tied = Without(@, e.id) \cup {e}],
             eff |-> kind("add", NoScore, NoScore)]
       ELSE [st |-> s, eff |-> NoEffect]

TopkAddAll(s, scores) ==
    LET Then(a, one) == [st |-> one.st,
                         effs |-> IF one.eff = NoEffect THEN a.effs ELSE Append(a.effs, one.eff)]
    IN FoldLeft(LAMBDA a, e : Then(a, TopkAddOne(a.st, e, Len(scores) > 1)),
                [st |-> s, effs |-> <<>>], scores)

\* Everything is replicated, also what changed nothing.
TopkApply(s, d) ==
    LET Done(a) == Outcome(a.st, a.effs, NoOp, d)
    IN IF d.op = "init" THEN Outcome([s EXCEPT !.max = d.size], <<>>, NoOp, d)
       ELSE Done(TopkAddAll(s, d.scores))

TopkUndoOne(s, f) ==
    LET gone == Without(s.elems, f.new.id)
        back == IF f.old = NoScore THEN gone ELSE Without(gone, f.old.id) \cup {f.old}
    IN CASE f.eff = "add" ->
              [s EXCEPT !.elems = gone,
                        !.tied = IF s.small.sc = f.new.sc THEN Without(@, f.new.id) ELSE @]
         [] f.eff = "replace" -> [s EXCEPT !.elems = back, !.small = f.oldMin]
         [] f.eff = "tied" ->
              [s EXCEPT !.elems = back, !.tied = Without(@, f.oldMin.id), !.small = f.oldMin]
         [] f.eff = "clean" -> [s EXCEPT !.elems = back, !.tied = f.tied, !.small = f.oldMin]

\* The effects of an add of several are undone first to last.
TopkUndo(s, effs) ==
    FoldLeft(TopkUndoOne, s, effs)

TopkApi(u) == IF u.op = "init" THEN u ELSE [op |-> "add", scores |-> u.scores]

TopkWire(d) == IF d.op = "init" THEN d ELSE [op |-> "add", scores |-> d.scores]

\* ToProtoState takes the addresses of its loop variables: every entry is sent
\* as the one the loop ended with.  The tied entries all go to index 0, and
\* the other places decode as the entry 0.
TopkSnap(s) ==
    LET ends(E) == IF E = {} THEN {NoScore} ELSE E
        tied(t) == IF s.tied = {} THEN {}
                   ELSE IF Cardinality(s.tied) = 1 THEN {t} ELSE {t, NoScore}
    IN {[s EXCEPT !.elems = IF @ = {} THEN {} ELSE {e}, !.tied = tied(t), !.cache = NoCache] :
            e \in ends(s.elems), t \in ends(s.tied)}

-----------------------------------------------------------------------------
(* TopKRmvCrdt: an entry also has a timestamp and the replica it is from.  *)

ReplicaIDs == DOMAIN SeedOf
ZeroClk == [r \in ReplicaIDs |-> 0]
NoElement == [id |-> 0, sc |-> 0, ts |-> 0, rep |-> 0]

TopkRmvInit(r) ==
    [max |-> DefaultTopSize, small |-> NoElement, elems |-> {}, notInTop |-> {},
     rems |-> {}, vc |-> ZeroClk, rep |-> r, cache |-> NoCache]

IsHigher(a, b) ==
    \/ b = NoElement
    \/ a.sc > b.sc
    \/ a.sc = b.sc /\ (a.id > b.id \/ (a.id = b.id /\ a.ts > b.ts))
IsSmaller(a, b) == b = NoElement \/ IsHigher(b, a)

\* findAndUpdateMin, and the loops that look for the highest hidden entry.
TopkRmvMin(E) ==
    IF E = {} THEN NoElement ELSE CHOOSE e \in E : \A x \in E \ {e} : IsSmaller(e, x)
TopkRmvMax(E) ==
    IF E = {} THEN NoElement ELSE CHOOSE e \in E : \A x \in E \ {e} : ~IsHigher(x, e)

Shown(E) == {[id |-> e.id, sc |-> e.sc] : e \in E}

\* Mutant: removes are forgotten once applied.
NeverRemoved(s, id) == ZeroClk

\* rems: pairs of an ID and its clock.  An ID without one has never been removed.
RemovedAt(s, id) ==
    LET P == {p \in s.rems : p.id = id}
    IN IF P = {} THEN ZeroClk ELSE (CHOOSE p \in P : TRUE).vc
Covers(vc, e) == e.ts <= vc[e.rep]

TopkRmvRead(s, S) ==
    LET top == TopN(s, Shown(s.elems))
    IN [state |-> Shown(s.elems), topN |-> top,
        above |-> [m \in S |-> {e \in top : e.sc >= m}]]

\* An entry that cannot be seen in the top is only applied here.  The test
\* against the smallest score does not ask whether the top is full.
TopkRmvIsVisible(s, e) ==
    IF HasId(s.elems, e.id) THEN EntryOf(s.elems, e.id).sc <= e.sc ELSE IsHigher(e, s.small)

TopkRmvUpdates(Ids) == {[op |-> "rem", ids |-> <<i>>] : i \in Ids}

\* The object's clock advances with the update.  A remove carries the clock;
\* one of IDs outside the top stays here, and one of unknown IDs is dropped.
TopkRmvUpdate(s, u) ==
    LET vc == [s.vc EXCEPT ![s.rep] = @ + 1]
        mine == [i \in DOMAIN u.scores |-> [id |-> u.scores[i].id, sc |-> u.scores[i].sc,
                                            ts |-> vc[s.rep], rep |-> s.rep]]
        top == SelectSeq(u.ids, LAMBDA i : HasId(s.elems, i))
        hidden == SelectSeq(u.ids, LAMBDA i : ~HasId(s.elems, i) /\ HasId(s.notInTop, i))
    IN CASE u.op = "init" -> [st |-> s, down |-> u]
         [] u.op = "add" ->
              [st |-> [s EXCEPT !.vc = vc],
               down |-> [op |-> "add",
                         adds |-> SelectSeq(mine, LAMBDA e : TopkRmvIsVisible(s, e)),
                         opts |-> SelectSeq(mine, LAMBDA e : ~TopkRmvIsVisible(s, e))]]
         [] u.op = "rem" ->
              [st |-> s,
               down |-> IF top \o hidden = <<>> THEN NoOp
                        ELSE [op |-> "rem", ids |-> top, opts |-> hidden, vcs |-> <<s.vc>>]]

\* One entry of applyAdd (and applyAddAll): already removed, better or worse
\* than what the top has of its ID, or new to the top.
TopkRmvAddOne(s, e) ==
    LET old == EntryOf(s.elems, e.id)
        swapped == Without(s.elems, e.id) \cup {e}
        beaten == Without(s.elems, s.small.id) \cup {e}
        eff(k, o, m) == [eff |-> k, new |-> e, old |-> o, oldMin |-> m, oldTs |-> s.vc[e.rep]]
        clk == [s EXCEPT !.vc[e.rep] = IF @ < e.ts THEN e.ts ELSE @]
        Out(st, f) == [st |-> st, eff |-> f, rems |-> <<>>]
    IN IF Covers(RemovedAt(s, e.id), e)
       THEN [st |-> clk, eff |-> NoEffect, rems |-> <<[id |-> e.id, vc |-> RemovedAt(s, e.id)]>>]
       ELSE IF HasId(s.elems, e.id) /\ IsHigher(e, old)
       THEN Out([clk EXCEPT !.elems = swapped,
                            !.notInTop = IF old.rep # e.rep THEN @ \cup {old} ELSE @,
                            !.small = IF @ = old THEN TopkRmvMin(swapped) ELSE @,
                            !.cache = NoCache], eff("replace", old, s.small))
       ELSE IF ~HasId(s.elems, e.id) /\ Cardinality(s.elems) < s.max
       THEN LET lower == s.small = NoElement \/ IsHigher(s.small, e)
            IN Out([clk EXCEPT !.elems = @ \cup {e}, !.small = IF lower THEN e ELSE @,
                               !.cache = NoCache],
                   IF lower THEN eff("replace", NoElement, s.small)
                   ELSE eff("add", NoElement, NoElement))
       ELSE IF ~HasId(s.elems, e.id) /\ IsHigher(e, s.small)
       THEN Out([clk EXCEPT !.elems = beaten, !.notInTop = @ \cup {s.small},
                            !.small = TopkRmvMin(beaten), !.cache = NoCache],
                eff("replace", s.small, s.small))
       ELSE Out([clk EXCEPT !.notInTop = @ \cup {e}], eff("hide", NoElement, NoElement))

\* One ID of applyRemove (and applyRemoveAll).  A top that was full takes the
\* highest hidden entry of any other ID, one that was not takes the highest
\* hidden entry of the removed ID; either is announced to all replicas.
TopkRmvRemoveOne(s, id, vc) ==
    LET before == RemovedAt(s, id)
        merged == [r \in ReplicaIDs |-> IF before[r] > vc[r] THEN before[r] ELSE vc[r]]
        dead == {e \in s.notInTop : e.id = id /\ Covers(vc, e)}
        hidden == s.notInTop \ dead
        old == EntryOf(s.elems, id)
        hit == HasId(s.elems, id) /\ Covers(vc, old)
        left == Without(s.elems, id)
        full == Cardinality(left) = s.max - 1
        up == TopkRmvMax(IF full THEN {e \in hidden : ~HasId(left, e.id)} ELSE WithId(hidden, id))
        base == [s EXCEPT !.rems = {p \in @ : p.id # id} \cup {[id |-> id, vc |-> merged]},
                          !.notInTop = hidden]
        eff(o, m, p) == [eff |-> "rem", id |-> id, vc |-> before, dead |-> dead, old |-> o,
                         oldMin |-> m, promoted |-> p]
    IN IF ~hit THEN [st |-> base, eff |-> eff(NoElement, NoElement, FALSE), adds |-> <<>>]
       ELSE IF up # NoElement
       THEN [st |-> [base EXCEPT !.elems = left \cup {up}, !.notInTop = @ \ {up},
                                 !.small = IF full \/ old = @ THEN up ELSE @,
                                 !.cache = NoCache],
             eff |-> eff(old, s.small, full), adds |-> <<up>>]
       ELSE [st |-> [base EXCEPT !.elems = left,
                                 !.small = IF @ = old THEN TopkRmvMin(left) ELSE @,
                                 !.cache = NoCache],
             eff |-> eff(old, s.small, FALSE), adds |-> <<>>]

\* Adds, then the adds that were not replicated; removes likewise.  A remove
\* of several IDs has one clock, or as many as IDs when an add generated it.
TopkRmvAdds(s, es) ==
    LET Then(a, one) == [st |-> one.st, effs |-> Append(a.effs, one.eff),
                         rems |-> a.rems \o one.rems]
    IN FoldLeft(LAMBDA a, e : Then(a, TopkRmvAddOne(a.st, e)),
                [st |-> s, effs |-> <<>>, rems |-> <<>>], es)
TopkRmvRemoves(s, ids, vcs) ==
    LET clk(i) == vcs[((i - 1) % Len(vcs)) + 1]
        Then(a, one) == [st |-> one.st, effs |-> Append(a.effs, one.eff),
                         adds |-> a.adds \o one.adds]
    IN FoldLeft(LAMBDA a, i : Then(a, TopkRmvRemoveOne(a.st, ids[i], clk(i))),
                [st |-> s, effs |-> <<>>, adds |-> <<>>], [i \in DOMAIN ids |-> i])

\* What an add that was removed already, and a remove that promotes a hidden
\* entry, tell the other replicas.
TopkRmvTellRems(rems) ==
    IF rems = <<>> THEN NoOp
    ELSE [op |-> "rem", ids |-> [i \in DOMAIN rems |-> rems[i].id], opts |-> <<>>,
          vcs |-> [i \in DOMAIN rems |-> rems[i].vc]]
TopkRmvTellAdds(adds) ==
    IF adds = <<>> THEN NoOp ELSE [op |-> "add", adds |-> adds, opts |-> <<>>]

TopkRmvApply(s, d) ==
    LET Added(a) == Outcome(a.st, a.effs, TopkRmvTellRems(a.rems),
                            IF d.adds = <<>> THEN NoOp ELSE d)
        Removed(a) == Outcome(a.st, a.effs, TopkRmvTellAdds(a.adds),
                              IF d.ids = <<>> THEN NoOp ELSE d)
    IN CASE d.op = "init" -> Outcome([s EXCEPT !.max = d.size], <<>>, NoOp, d)
         [] d.op = "add"  -> Added(TopkRmvAdds(s, d.adds \o d.opts))
         [] d.op = "rem"  -> Removed(TopkRmvRemoves(s, d.ids \o d.opts, d.vcs))

TopkRmvUndoOne(s, f) ==
    LET gone == Without(s.elems, f.new.id)
        clk == [s EXCEPT !.vc[f.new.rep] = f.oldTs]
        back == Without(s.elems, f.id) \cup {f.old}
    IN CASE f.eff = "none" -> s
         [] f.eff = "add"  -> [clk EXCEPT !.elems = gone]
         [] f.eff = "hide" -> [clk EXCEPT !.notInTop = @ \ {f.new}]
         [] f.eff = "replace" ->
              [clk EXCEPT !.elems = IF f.old = NoElement THEN gone
                                    ELSE Without(gone, f.old.id) \cup {f.old},
                          !.notInTop = @ \ {f.old}, !.small = f.oldMin]
         [] f.eff = "rem" ->
              [s EXCEPT !.rems = {p \in @ : p.id # f.id}
                                 \cup (IF f.vc = ZeroClk THEN {} ELSE {[id |-> f.id, vc |-> f.vc]}),
                        !.notInTop = @ \cup f.dead
                            \cup (IF f.old # NoElement THEN WithId(s.elems, f.id) ELSE {})
                            \cup (IF f.promoted THEN {s.small} ELSE {}),
                        !.elems = IF f.old = NoElement THEN @
                                  ELSE IF f.promoted THEN Without(back, s.small.id) ELSE back,
                        !.small = IF f.old = NoElement THEN @ ELSE f.oldMin]

\* The effects of an add or remove of several are undone first to last.
TopkRmvUndo(s, effs) ==
    FoldLeft(TopkRmvUndoOne, s, effs)

TopkRmvApi(u) ==
    CASE u.op = "init" -> u
      [] u.op = "add" -> [op |-> "add", scores |-> u.scores, ids |-> <<>>]
      [] u.op = "rem" -> [op |-> "rem", scores |-> <<>>, ids |-> u.ids]

\* What is for this replica only is not sent.
TopkRmvWire(d) == IF d.op = "init" THEN d ELSE [d EXCEPT !.opts = <<>>]

\* ToProtoState takes the addresses of its loop variables (see TopkSnap); the
\* clock and the replica of an entry or a remove are copied.
TopkRmvSnap(s, r) ==
    LET as(e, x) == [e EXCEPT !.id = x.id, !.sc = x.sc, !.ts = x.ts]
        ends(E) == IF E = {} THEN {NoElement} ELSE E
        endIds == IF s.rems = {} THEN {0} ELSE {p.id : p \in s.rems}
        vcs == {p.vc : p \in s.rems}
    IN {[s EXCEPT !.elems = IF @ = {} THEN {} ELSE {as(y, x)},
                  !.notInTop = {as(e, h) : e \in @},
                  !.rems = IF @ = {} THEN {} ELSE {[id |-> i, vc |-> c]},
                  !.rep = r, !.cache = NoCache] :
            x \in ends(s.elems), y \in ends(s.elems), h \in ends(s.notInTop), i \in endIds,
            c \in IF vcs = {} THEN {ZeroClk} ELSE vcs}

-----------------------------------------------------------------------------
(* TopSumCrdt.  notInTop is keyed: its entries are [key, id, sc].  small is *)
(* a pointer: to an entry of elems when alias holds, else to a copy.  src  *)
(* is the replica of a downstream; -1 stands for the wire's MinInt16.      *)

TopsInit(r) ==
    [max |-> DefaultTopSize, small |-> [id |-> 0, sc |-> 0, alias |-> FALSE], elems |-> {},
     notInTop |-> {}, notPropagated |-> {}, rep |-> r, cache |-> NoCache]

\* isHigher compares the ID of one entry with the score of the other.
IsHigherSum(a, b) == a.sc > b.sc \/ (a.sc = b.sc /\ a.id > b.sc)

Pointer(e) == [id |-> e.id, sc |-> e.sc, alias |-> TRUE]
Smallest(s) ==
    IF s.small.alias /\ HasId(s.elems, s.small.id) THEN EntryOf(s.elems, s.small.id)
    ELSE [id |-> s.small.id, sc |-> s.small.sc]

\* findAndUpdateMin copies.  Of several entries with the lowest score the code
\* takes one by the order of its map; the model the one with the lowest ID.
TopsMin(E) ==
    LET low == {e \in E : \A x \in E : e.sc <= x.sc}
        min == CHOOSE e \in low : \A x \in low : e.id <= x.id
    IN [id |-> min.id, sc |-> min.sc, alias |-> FALSE]

Plus(E, id, n) == {IF e.id = id THEN [e EXCEPT !.sc = @ + n] ELSE e : e \in E}
Keyed(k, e) == [key |-> k, id |-> e.id, sc |-> e.sc]
Plain(t) == [id |-> t.id, sc |-> t.sc]
AtKey(N, k) == {t \in N : t.key = k}
SetKey(N, k, e) == {t \in N : t.key # k} \cup {Keyed(k, e)}

\* Would the score reach the top if every replica held back as much?
ShouldReplicate(s, existing, held) ==
    held * Cardinality(ReplicaIDs) > Smallest(s).sc - existing

TopsRead(s, S) ==
    LET top == TopN(s, s.elems)
    IN [state |-> s.elems, topN |-> top,
        above |-> [m \in S |-> {e \in top : e.sc >= m}]]

TopsUpdate(s, u) ==
    IF u.op = "init" THEN u
    ELSE [op |-> u.op, scores |-> u.scores, src |-> s.rep, all |-> u.all]

\* An add whose ID is in the top, or finds room there.
TopsAddToTop(s, e) ==
    IF s.elems = {} THEN [s EXCEPT !.elems = {e}, !.small = Pointer(e)]
    ELSE IF HasId(s.elems, e.id)
    THEN LET now == Plus(s.elems, e.id, e.sc)
         IN [s EXCEPT !.elems = now, !.small = IF @.id = e.id THEN TopsMin(now) ELSE @]
    ELSE [s EXCEPT !.elems = @ \cup {e},
                   !.small = IF IsHigherSum(Smallest(s), e) THEN Pointer(e) ELSE @]

\* The entry x takes the place of the smallest one.
TopsEnter(s, x) ==
    LET now == Without(s.elems, s.small.id) \cup {x}
    IN [s EXCEPT !.elems = now, !.small = TopsMin(now),
                 !.notInTop = {t \in SetKey(@, s.small.id, Smallest(s)) : t.key # x.id}]

\* applyTopSAddDownstreamArgs, and one entry of applyTopSAddAllDownstreamArgs
\* when all is TRUE: the object, the score generated for other replicas (0 for
\* none) and whether the add is replicated.  The downstream is passed by
\* value: what was held back is added to a copy of it, and lost.
TopsAddOne(s, e, src, all) ==
    LET small == Smallest(s)
        entry == Plain(CHOOSE t \in AtKey(s.notInTop, e.id) : TRUE)
        grown == [entry EXCEPT !.sc = @ + e.sc]
        held == IF HasId(s.notPropagated, e.id) THEN EntryOf(s.notPropagated, e.id).sc ELSE 0
        isHeld == HasId(s.notPropagated, e.id)
        hidden == [s EXCEPT !.notInTop = SetKey(@, e.id, grown)]
        Out(st, gen, repl) == [st |-> st, gen |-> gen, repl |-> repl]
    IN IF \/ s.elems = {}
          \/ HasId(s.elems, e.id)
          \/ Cardinality(s.elems) < s.max
       THEN Out(TopsAddToTop(s, e), 0, TRUE)
       ELSE IF AtKey(s.notInTop, e.id) # {} /\ IsHigherSum(grown, small)
       THEN LET up == [TopsEnter(s, grown) EXCEPT !.notPropagated = Without(@, e.id)]
            IN IF isHeld /\ src # s.rep THEN Out(up, held, FALSE) ELSE Out(up, 0, ~all)
       ELSE IF AtKey(s.notInTop, e.id) # {} /\ src # s.rep /\ isHeld
       THEN Out(hidden, IF ShouldReplicate(s, grown.sc, held) THEN held ELSE 0, FALSE)
       ELSE IF AtKey(s.notInTop, e.id) # {}
       THEN IF ShouldReplicate(s, grown.sc, held + e.sc)
            THEN Out([hidden EXCEPT !.notPropagated = Without(@, e.id)], 0, TRUE)
            ELSE Out([hidden EXCEPT !.notPropagated =
                          Without(@, e.id) \cup {[id |-> e.id, sc |-> held + e.sc]}], 0, FALSE)
       ELSE IF IsHigherSum(e, small) THEN Out(TopsEnter(s, e), 0, TRUE)
       ELSE IF ShouldReplicate(s, 0, e.sc)
       THEN Out([s EXCEPT !.notInTop = SetKey(@, IF all THEN small.id ELSE e.id, e)], 0, TRUE)
       ELSE Out([s EXCEPT !.notInTop = SetKey(@, e.id, e),
                          !.notPropagated = Without(@, e.id) \cup {e}], 0, FALSE)

\* applyTopSSubDownstreamArgs; the scores are negative.  An entry that falls
\* below the smallest one changes places with the best hidden one.
TopsSubOne(s, e) ==
    LET now == Plus(s.elems, e.id, e.sc)
        entry == EntryOf(now, e.id)
        small == IF s.small.alias THEN Smallest([s EXCEPT !.elems = now]) ELSE Smallest(s)
        best == Plain(CHOOSE t \in s.notInTop : \A x \in s.notInTop \ {t} : ~IsHigherSum(x, t))
        Out(st, repl) == [st |-> st, repl |-> repl]
    IN IF s.elems = {} THEN Out([s EXCEPT !.elems = {e}, !.small = Pointer(e)], TRUE)
       ELSE IF HasId(s.elems, e.id)
       THEN Out(IF ~IsHigherSum(small, entry) THEN [s EXCEPT !.elems = now]
                ELSE IF s.notInTop = {} THEN [s EXCEPT !.elems = now, !.small = Pointer(entry)]
                ELSE [s EXCEPT !.elems = Without(now, e.id) \cup {best},
                               !.notInTop = SetKey({t \in @ : t.key # best.id}, e.id, entry),
                               !.small = Pointer(best)], TRUE)
       ELSE IF Cardinality(s.elems) < s.max
       THEN Out([s EXCEPT !.elems = @ \cup {e},
                          !.small = IF IsHigherSum(Smallest(s), e) THEN Pointer(e) ELSE @], TRUE)
       ELSE IF AtKey(s.notInTop, e.id) # {}
       THEN LET hidden == Plain(CHOOSE t \in AtKey(s.notInTop, e.id) : TRUE)
            IN Out([s EXCEPT !.notInTop = SetKey(@, e.id, [hidden EXCEPT !.sc = @ + e.sc]),
                             !.notPropagated = IF HasId(@, e.id) THEN Plus(@, e.id, e.sc)
                                               ELSE @ \cup {e}], FALSE)
       ELSE IF IsHigherSum(e, Smallest(s))
       THEN LET top == Without(s.elems \cup {e}, s.small.id)
            IN Out([s EXCEPT !.elems = top, !.notInTop = SetKey(@, e.id, Smallest(s)),
                             !.small = TopsMin(top)], TRUE)
       ELSE Out([s EXCEPT !.notInTop = SetKey(@, e.id, e),
                          !.notPropagated = Without(@, e.id) \cup {e}], FALSE)

\* The entries an add of several leaves to be replicated.  When there is none
\* the slice keeps its length, of empty entries.
TopsAddAll(s, es, src) ==
    LET Then(a, e, one) ==
            [st |-> one.st,
             gens |-> IF one.gen = 0 THEN a.gens ELSE Append(a.gens, [id |-> e.id, sc |-> one.gen]),
             sent |-> IF one.repl THEN Append(a.sent, e) ELSE a.sent]
        Done(a) == IF a.sent = <<>> THEN [a EXCEPT !.sent = [i \in DOMAIN es |-> NoScore]] ELSE a
    IN Done(FoldLeft(LAMBDA a, e : Then(a, e, TopsAddOne(a.st, e, src, TRUE)),
                     [st |-> s, gens |-> <<>>, sent |-> <<>>], es))

TopsApply(s, d) ==
    LET Gen(scores) == IF scores = <<>> THEN NoOp
                       ELSE [op |-> "add", scores |-> scores, src |-> s.rep, all |-> d.all]
        One(a) == Outcome(a.st, NoEffect,
                          Gen(IF a.gen = 0 THEN <<>> ELSE <<[id |-> d.scores[1].id, sc |-> a.gen]>>),
                          IF a.repl THEN d ELSE NoOp)
        Several(a) == Outcome(a.st, NoEffect, Gen(a.gens), [d EXCEPT !.scores = a.sent])
        Less(a) == Outcome(a.st, NoEffect, NoOp, IF a.repl THEN d ELSE NoOp)
    IN CASE d.op = "init" -> Outcome([s EXCEPT !.max = d.size], NoEffect, NoOp, d)
         [] d.op = "unknown" -> Outcome(s, NoEffect, NoOp, d)
         [] d.op = "add" /\ ~d.all -> One(TopsAddOne(s, d.scores[1], d.src, FALSE))
         [] d.op = "add" /\ d.all  -> Several(TopsAddAll(s, d.scores, d.src))
         [] d.op = "sub" -> Less(TopsSubOne(s, d.scores[1]))

\* The server decodes one entry by the sign of its score, several as adds.
TopsApi(u) ==
    CASE u.op = "init" -> u
      [] Len(u.scores) = 1 ->
           [op |-> IF u.scores[1].sc >= 0 THEN "add" ELSE "sub", scores |-> u.scores, all |-> FALSE]
      [] OTHER -> [op |-> "add", scores |-> u.scores, all |-> TRUE]

\* An Init is decoded as the one of the other tops, which this top ignores.
\* The downstream of several does not set the replica it is from.  Empty
\* entries have no payload: encoding them panics.
TopsWire(d) ==
    CASE d.op = "init" -> [op |-> "unknown"]
      [] NoScore \in {d.scores[i] : i \in DOMAIN d.scores} -> Panic
      [] Len(d.scores) = 1 -> [d EXCEPT !.src = 0 - 1, !.all = FALSE]
      [] OTHER -> [d EXCEPT !.src = 0, !.all = TRUE]

\* ToProtoState writes the hidden entries, with score 0, over those of the top;
\* the snapshot has no hidden ones but, of each entry of the top, an empty one.
\* The object does not know its replica.
TopsSnap(s) ==
    LET n == Cardinality(s.elems)
        zero(H) == {[id |-> t.id, sc |-> 0] : t \in H}
        common == [s EXCEPT !.notInTop = IF n = 0 THEN {} ELSE {Keyed(0, NoScore)},
                            !.notPropagated = {}, !.rep = 0, !.cache = NoCache,
                            !.small = [id |-> Smallest(s).id, sc |-> Smallest(s).sc,
                                       alias |-> FALSE]]
    IN IF Cardinality(s.notInTop) > n THEN {}
       ELSE {[common EXCEPT !.elems = K \cup zero(s.notInTop)] :
                K \in {X \in SUBSET s.elems : Cardinality(X) = n - Cardinality(s.notInTop)}}

=============================================================================
