------------------------------ MODULE CrdtSets ------------------------------
(***************************************************************************)
(* SetAWCrdt, the add-wins set, and ORMapCrdt, the observed-remove map.    *)
(*                                                                         *)
(* The Go maps from an element to its UniqueSet are relations: an element  *)
(* is in the set when some Unique is paired with it, because both types    *)
(* delete an entry with the last of its Uniques.  Elements and keys are    *)
(* naturals, ordered as the strings they stand for; 0 is the empty string. *)
(***************************************************************************)
EXTENDS CrdtBasics

Rank(e, S) == Cardinality({x \in S : x < e})

\* The Uniques drawn for the members of S, one each, and the source after it.
DrawFor(S, source) == [e \in S |-> <<source[1], source[2] + Rank(e, S)>>]
SourceAfter(S, source) == <<source[1], source[2] + Cardinality(S)>>

-----------------------------------------------------------------------------
(* SetAWCrdt *)

SetUpdates(E) == [op : {"add", "rem"}, elems : (SUBSET E) \ {{}}]
SetInit(r) == [elems |-> {}, random |-> NewSource(SeedOf[r])]

SetElems(s) == {p[1] : p \in s.elems}

\* Mutant: the first pending update that names the element counts.
SetEarliest(upds, e) ==
    LET named == {i \in 1..Len(upds) : e \in upds[i].elems}
    IN IF named = {} THEN "none"
       ELSE upds[CHOOSE i \in named : \A j \in named : i <= j].op

\* For each element only the latest pending update that names it counts.
SetLatest(upds, e) ==
    LET named == {i \in 1..Len(upds) : e \in upds[i].elems}
    IN IF named = {} THEN "none"
       ELSE upds[CHOOSE i \in named : \A j \in named : j <= i].op

\* getState: what the loop from the last update to the first leaves in adds
\* and rems, merged with the elements of the set.
SetState(s, upds) ==
    LET all == UNION {upds[i].elems : i \in 1..Len(upds)}
    IN {e \in SetElems(s) : SetLatest(upds, e) # "rem"}
       \cup {e \in all : SetLatest(upds, e) = "add"}

SetLookup(s, e, upds) ==
    CASE SetLatest(upds, e) = "add" -> TRUE
      [] SetLatest(upds, e) = "rem" -> FALSE
      [] OTHER -> e \in SetElems(s)

SetNElements(s, upds) == Cardinality(SetState(s, upds))

\* Read for the three kinds of arguments.
SetRead(s, upds, E) ==
    [elems |-> SetState(s, upds), has |-> [e \in E |-> SetLookup(s, e, upds)],
     n |-> SetNElements(s, upds)]

\* A remove names the Uniques that are there; without any it is a NoOp.
SetUpdate(s, u) ==
    IF u.op = "add"
    THEN LET uniques == DrawFor(u.elems, s.random)
         IN [st |-> [s EXCEPT !.random = SourceAfter(u.elems, @)],
             down |-> [op |-> "add", pairs |-> {<<e, uniques[e]>> : e \in u.elems}]]
    ELSE LET seen == {p \in s.elems : p[1] \in u.elems}
         IN [st |-> s,
             down |-> IF seen = {} THEN NoOp ELSE [op |-> "rem", pairs |-> seen]]

\* Mutant: the effect keeps what was to be removed.
SetEffectOfRequest(s, d) ==
    IF d.op = "add"
    THEN [st |-> [s EXCEPT !.elems = @ \cup d.pairs], eff |-> d]
    ELSE [st |-> [s EXCEPT !.elems = @ \ d.pairs], eff |-> d]

SetApply(s, d) ==
    IF d.op = "add"
    THEN [st |-> [s EXCEPT !.elems = @ \cup d.pairs], eff |-> d]
    ELSE [st |-> [s EXCEPT !.elems = @ \ d.pairs],
          eff |-> [op |-> "rem", pairs |-> s.elems \cap d.pairs]]

SetUndo(s, eff) ==
    [s EXCEPT !.elems = IF eff.op = "add" THEN @ \ eff.pairs ELSE @ \cup eff.pairs]

\* Add and Remove are encoded like AddAll and RemoveAll of one element.
SetApi(u) == [op |-> IF u.op = "add" THEN "add" ELSE "rem", elems |-> u.elems]

\* Adds and Rems are separate fields; a message without Adds is a remove.
SetWire(d) ==
    IF d.op = "add" /\ d.pairs # {} THEN [op |-> "add", pairs |-> d.pairs]
    ELSE [op |-> "rem", pairs |-> d.pairs]

SetSnap(s, r) == [elems |-> s.elems, random |-> NewSource(SeedOf[r])]

-----------------------------------------------------------------------------
(* ORMapCrdt: entries are triples of a key, an element and a Unique.       *)

MapUpdates(K, E) ==
    [op : {"add"}, vals : UNION {[D -> E] : D \in (SUBSET K) \ {{}}}]
    \cup [op : {"rem"}, keys : (SUBSET K) \ {{}}]
MapInit(r) == [entries |-> {}, random |-> NewSource(SeedOf[r])]

MapKeys(s) == {t[1] : t \in s.entries}

\* getMinElem, the value shown of a key with several elements: the lowest.
MinElem(s, k) ==
    LET es == {t[2] : t \in {x \in s.entries : x[1] = k}}
    IN IF es = {} THEN 0 ELSE CHOOSE e \in es : \A x \in es : e <= x

Names(u, k) == IF u.op = "add" THEN k \in DOMAIN u.vals ELSE k \in u.keys
PendingOf(upds, k) == {i \in 1..Len(upds) : Names(upds[i], k)}
LatestIs(upds, k, op) ==
    LET I == PendingOf(upds, k)
    IN I # {} /\ upds[CHOOSE i \in I : \A j \in I : j <= i].op = op

\* When the latest update of a key is an add the loop ignores the removes
\* before it, and keeps the add it meets last, which is the first of all.
FirstPendingAdd(upds, k) ==
    LET I == PendingOf(upds, k)
        all == {i \in I : upds[i].op = "add"}
    IN upds[CHOOSE i \in all : \A j \in all : i <= j].vals[k]

\* The keys whose latest pending update is an add, or a remove.
PendingKeys(upds, op) ==
    {k \in UNION {IF u.op = "add" THEN DOMAIN u.vals ELSE u.keys :
                     u \in {upds[i] : i \in 1..Len(upds)}} : LatestIs(upds, k, op)}

MapState(s, upds) ==
    LET keys == (MapKeys(s) \ PendingKeys(upds, "rem")) \cup PendingKeys(upds, "add")
    IN [k \in keys |-> IF LatestIs(upds, k, "add") THEN FirstPendingAdd(upds, k)
                       ELSE MinElem(s, k)]

\* getValues prefers the stored element over a pending one.
MapValues(s, upds, K) ==
    LET shown == {k \in K : ~LatestIs(upds, k, "rem")
                            /\ (k \in MapKeys(s) \/ LatestIs(upds, k, "add"))}
    IN [k \in shown |-> IF k \in MapKeys(s) THEN MinElem(s, k) ELSE FirstPendingAdd(upds, k)]

\* getKeys sizes its answer by the numbers of entries, adds and removes: an
\* add of a key that is there leaves an empty string at the end, a remove of
\* one that is not makes the index run past it, which panics ({-1}).
MapGetKeys(s, upds) ==
    LET keys == DOMAIN MapState(s, upds)
        size == Cardinality(MapKeys(s)) + Cardinality(PendingKeys(upds, "add"))
                - Cardinality(PendingKeys(upds, "rem"))
    IN IF size < Cardinality(keys) THEN {0 - 1}
       ELSE IF size > Cardinality(keys) THEN keys \cup {0} ELSE keys

\* getValue and hasKey look for the last pending update of the key.
MapValue(s, upds, k) ==
    LET I == PendingOf(upds, k)
        last == upds[CHOOSE i \in I : \A j \in I : j <= i]
    IN IF I = {} THEN MinElem(s, k) ELSE IF last.op = "add" THEN last.vals[k] ELSE 0
MapHasKey(s, upds, k) == MapValue(s, upds, k) # 0

MapRead(s, upds, K) ==
    [state |-> MapState(s, upds), values |-> MapValues(s, upds, K),
     keys |-> MapGetKeys(s, upds), value |-> [k \in K |-> MapValue(s, upds, k)],
     has |-> [k \in K |-> MapHasKey(s, upds, k)]]

\* Mutant: an add leaves what was under its keys.
MapAddKeepsOld(s, u) ==
    IF u.op = "add"
    THEN LET uniques == DrawFor(DOMAIN u.vals, s.random)
         IN [st |-> [s EXCEPT !.random = SourceAfter(DOMAIN u.vals, @)],
             down |-> [op |-> "add", rems |-> {},
                       adds |-> {<<k, u.vals[k], uniques[k]>> : k \in DOMAIN u.vals}]]
    ELSE [st |-> s, down |-> [op |-> "rem", rems |-> {t \in s.entries : t[1] \in u.keys}]]

\* An add also removes what its replica has under the keys it sets.
MapUpdate(s, u) ==
    IF u.op = "add"
    THEN LET keys == DOMAIN u.vals
             uniques == DrawFor(keys, s.random)
         IN [st |-> [s EXCEPT !.random = SourceAfter(keys, @)],
             down |-> [op |-> "add", adds |-> {<<k, u.vals[k], uniques[k]>> : k \in keys},
                       rems |-> {t \in s.entries : t[1] \in keys}]]
    ELSE [st |-> s, down |-> [op |-> "rem", rems |-> {t \in s.entries : t[1] \in u.keys}]]

\* The effects keep what was to be removed and not what was removed.
MapApply(s, d) ==
    [st |-> [s EXCEPT !.entries = IF d.op = "add" THEN (@ \ d.rems) \cup d.adds ELSE @ \ d.rems],
     eff |-> d]

\* The effects are stored as pointers and the switch of undoEffect looks for
\* values: no case matches.
MapUndo(s, eff) == s

\* A message with updates is an add and any other a remove.
MapApi(u) ==
    IF u.op = "add" /\ DOMAIN u.vals # {} THEN [op |-> "add", vals |-> u.vals]
    ELSE [op |-> "rem", keys |-> u.keys]

MapWire(d) ==
    IF d.op = "add" /\ d.adds # {} THEN [op |-> "add", adds |-> d.adds, rems |-> d.rems]
    ELSE [op |-> "rem", rems |-> d.rems]

MapSnap(s, r) == [entries |-> s.entries, random |-> NewSource(SeedOf[r])]

=============================================================================
