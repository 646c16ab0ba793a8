-------------------------- MODULE CrdtCounterArray --------------------------
(***************************************************************************)
(* CounterArrayCrdt: an array of counters that grows as far as an update   *)
(* reaches.  Positions count from 1 (from 0 in the code).                  *)
(*                                                                         *)
(* An update adds to (op "inc") or takes from (op "dec") one position, the *)
(* first ones, some, or all there are (its form), or sets the size.        *)
(***************************************************************************)
EXTENDS CrdtArrays

CArrayUpdates(P, V) ==
    [op : {"inc", "dec"}, form : {"one"}, pos : {<<p>> : p \in P}, vals : {<<v>> : v \in V}] \cup
    [op : {"inc", "dec"}, form : {"first"}, pos : {<<1, 2>>}, vals : {<<v, w>> : v \in V, w \in V}] \cup
    [op : {"inc", "dec"}, form : {"some"}, pos : {<<p, q>> : p \in P, q \in P},
     vals : {<<v>> : v \in V}] \cup
    [op : {"size"}, n : P]
CArrayAlls(V) == [op : {"inc", "dec"}, form : {"all"}, pos : {<<>>}, vals : {<<v>> : v \in V}]

CArrayInit == <<0>>

\* A list of positions may come with one change for all of them.
ChangeAt(u, i) == IF Len(u.vals) = 1 THEN u.vals[1] ELSE u.vals[i]
CChanges(u, op, x) ==
    LET pos == IF u.form = "all" THEN [i \in DOMAIN x |-> i] ELSE u.pos
    IN [i \in DOMAIN pos |->
            [at |-> pos[i], by |-> IF op = "dec" THEN 0 - ChangeAt(u, i) ELSE ChangeAt(u, i)]]
AddAll(x, changes) ==
    FoldLeft(LAMBDA y, c : [y EXCEPT ![c.at] = Wrap(@ + c.by)], x, changes)
LastPosition(u) == IF u.form = "all" THEN 0 ELSE Max(Range(u.pos))

CArrayUpdate(s, u) == IF u.op = "size" /\ u.n <= Len(s) THEN NoOp ELSE u

\* DecrementMulti adds, and what it leaves to undo is the increment unless
\* the array grew.
CArrayApply(s, d) ==
    IF d.op = "size" THEN
        IF d.n > Len(s) THEN [st |-> Resized(s, d.n, 0), eff |-> [eff |-> "size", n |-> Len(s)]]
        ELSE [st |-> s, eff |-> NoEffect]
    ELSE
        LET grows == LastPosition(d) > Len(s)
            sized == Grown(s, LastPosition(d), 0)
            op    == IF d.form = "first" THEN "inc" ELSE d.op
        IN [st |-> AddAll(sized, CChanges(d, op, sized)),
            eff |-> IF grows /\ d.form = "one" THEN [eff |-> "size", n |-> Len(s)]
                    ELSE [eff |-> "add", of |-> d, op |-> IF grows THEN d.op ELSE op,
                          old |-> IF grows THEN Len(s) ELSE -1]]

CArrayUndo(s, e) ==
    CASE e.eff = "none" -> s
      [] e.eff = "size" -> SubSeq(s, 1, e.n)
      [] e.eff = "add"  ->
            CutTo(AddAll(s, CChanges(e.of, IF e.op = "inc" THEN "dec" ELSE "inc", s)), e.old)

-----------------------------------------------------------------------------
(* Read.  An access outside the array ends the process: Ended. *)

Ended == <<NoNumber>>
Within(x, changes) == \A i \in DOMAIN changes : changes[i].at \in DOMAIN x
AddWithin(x, changes) == IF Within(x, changes) THEN AddAll(x, changes) ELSE Ended

\* Only an update of the first positions and a size make room.
WithPending(x, u) ==
    CASE x = Ended -> Ended
      [] u.op = "size" -> Grown(x, u.n, 0)
      [] OTHER ->
            LET y == IF u.form = "first" THEN Grown(x, Len(u.vals), 0) ELSE x
            IN AddWithin(y, CChanges(u, u.op, y))
GetCounts(s, upds) == FoldLeft(WithPending, s, upds)

\* All but the positions lo..hi.
GetExceptRangeState(s, upds, lo, hi) ==
    LET x == GetCounts(s, upds)
    IN IF x = Ended \/ hi > Len(x) THEN Ended ELSE SubSeq(x, 1, lo - 1) \o SubSeq(x, hi + 1, Len(x))

\* All but position p, which the array has: the updates are shifted.
ExceptPending(x, u, p) ==
    CASE x = Ended -> Ended
      [] u.op = "size" -> IF u.n > Len(x) + 1 THEN Resized(x, u.n - 1, 0) ELSE x
      [] u.op # "size" /\ u.form = "all" -> AddAll(x, CChanges(u, u.op, x))
      [] u.op # "size" /\ u.form = "first" /\ Len(u.vals) < p -> Ended
      [] OTHER ->
            LET y == IF u.form = "first" /\ Len(u.vals) > Len(x) THEN Resized(x, Len(u.vals) - 1, 0)
                     ELSE x
                others == SelectSeq(CChanges(u, u.op, x), LAMBDA c : c.at # p)
            IN AddWithin(y, [i \in DOMAIN others |->
                    IF others[i].at > p THEN [others[i] EXCEPT !.at = @ - 1] ELSE others[i]])
GetExceptState(s, upds, p) ==
    FoldLeft(LAMBDA x, u : ExceptPending(x, u, p), SubSeq(s, 1, p - 1) \o SubSeq(s, p + 1, Len(s)), upds)

\* The value of a position.  The test of the bound is off by one, and there
\* is none without pending updates.
At(x, p) == CASE p <= Len(x) -> x[p] [] p = Len(x) + 1 -> NoNumber [] p > Len(x) + 1 -> 0
GetSingleState(s, upds, p) ==
    LET one(v, u) ==
            LET hit == SelectSeq(CChanges(u, u.op, <<0>>), LAMBDA c : c.at = p)
            IN CASE u.form = "all" -> Wrap(v + CChanges(u, u.op, <<0>>)[1].by)
                 [] hit = <<>> -> v
                 [] OTHER -> Wrap(v + hit[1].by)
    IN IF upds = <<>> THEN IF p <= Len(s) THEN s[p] ELSE NoNumber
       ELSE FoldLeft(one, At(s, p), SelectSeq(upds, LAMBDA u : u.op # "size"))

\* A list of positions: an update of all is made at these positions only.
GetSubState(s, upds, P) ==
    LET one(x, u) ==
            IF x # Ended /\ u.op # "size" /\ u.form = "all"
            THEN AddWithin(x, CChanges([u EXCEPT !.form = "some", !.pos = P], u.op, x))
            ELSE WithPending(x, u)
        x == FoldLeft(one, s, upds)
    IN IF x = Ended THEN Ended ELSE [i \in DOMAIN P |-> At(x, P[i])]

\* Every read, at the positions the object has.
CArrayRead(s, upds) ==
    [state  |-> GetCounts(s, upds),
     single |-> [p \in DOMAIN s |-> GetSingleState(s, upds, p)],
     sub    |-> GetSubState(s, upds, [p \in DOMAIN s |-> p]),
     except |-> [p \in DOMAIN s |-> GetExceptState(s, upds, p)],
     range  |-> [p \in DOMAIN s |-> GetExceptRangeState(s, upds, 1, p)]]

-----------------------------------------------------------------------------
(* Codecs: a decrement travels as an increment of the negated amounts, told *)
(* by the sign of the first.                                               *)

Amounts(u) == [i \in DOMAIN u.vals |-> IF u.op = "dec" THEN 0 - u.vals[i] ELSE u.vals[i]]
MinusAll(x) == [i \in DOMAIN x |-> 0 - x[i]]

\* A decrement of one position is decoded as an increment by what it takes.
CArrayApi(u) ==
    IF u.op = "size" THEN u
    ELSE LET a == Amounts(u)
         IN IF a[1] >= 0 THEN [u EXCEPT !.op = "inc", !.vals = a]
            ELSE [u EXCEPT !.op = IF u.form = "one" THEN "inc" ELSE "dec", !.vals = MinusAll(a)]

\* Between replicas the operation travels too.  A decrement of one position
\* becomes an increment here as well, and one of all is negated only once.
CArrayWire(d) ==
    CASE d.op = "dec" /\ d.form = "one" -> [d EXCEPT !.op = "inc"]
      [] d.op = "dec" /\ d.form = "all" -> [d EXCEPT !.vals = MinusAll(@)]
      [] OTHER -> d

CArraySnap(s) == s

=============================================================================
