----------------------------- MODULE CrdtBasics -----------------------------
(***************************************************************************)
(* The small CRDT types of src/crdt/crdt: counters, average, max/min,      *)
(* flags and the last-writer-wins register, as operators on their state.   *)
(*                                                                         *)
(* Every type has the operations of the CRDT interface (crdt.go):          *)
(*   XUpdate(s, u, e)   the downstream arguments an update generates       *)
(*   XApply(s, d)       applyDownstream: the new state and the effect      *)
(*   XUndo(s, eff)      undoEffect                                         *)
(*   XRead(s, upds)     Read, with the updates of the same transaction     *)
(*                      that are not applied yet                           *)
(*   XApi(u)            the update the server decodes of what the client   *)
(*                      library encodes (ToUpdateObject, FromUpdateObject) *)
(*   XWire(d)           the downstream another replica decodes             *)
(*                      (ToReplicatorObj, FromReplicatorObj)               *)
(*   XSnap(s, r)        the object rebuilt at r from a snapshot            *)
(*                      (ToProtoState, FromProtoState)                     *)
(* e is what the environment gives an update: the replica, its clock, and  *)
(* the value of rand.                                                      *)
(***************************************************************************)
EXTENDS Integers, Sequences, FiniteSets

CONSTANTS
    IntBits,     \* width of the counters' integers (32 in the code)
    SeedOf       \* the second in which a replica creates its object

\* Names for an operation without effect and for the effect of nothing.
NoOp     == [op |-> "noop"]
NoEffect == [eff |-> "none"]

\* Two's complement arithmetic on IntBits bits.
Wrap(x) == ((x + 2^(IntBits - 1)) % 2^IntBits) - 2^(IntBits - 1)

\* The last element of a non-empty sequence of updates.
LastUpd(upds) == upds[Len(upds)]

-----------------------------------------------------------------------------
(* CounterCrdt: an int32; Increment and Decrement are their own downstream. *)

CounterUpdates(N) == [op : {"inc", "dec"}, n : N]
CounterInit == 0

CounterChange(v, u) ==
    CASE u.op = "inc" -> Wrap(v + u.n)
      [] u.op = "dec" -> Wrap(v - u.n)
      [] OTHER -> v

\* The pending updates are added to a copy of the value, in order.
CounterRead(s, upds) ==
    LET f[i \in 0..Len(upds)] == IF i = 0 THEN s ELSE CounterChange(f[i - 1], upds[i])
    IN f[Len(upds)]

CounterApply(s, d) == [st |-> CounterChange(s, d), eff |-> d]

CounterUndo(s, eff) ==
    CASE eff.op = "inc" -> Wrap(s - eff.n)
      [] eff.op = "dec" -> Wrap(s + eff.n)
      [] OTHER -> s

\* A decrement travels as a negative increment and is decoded as an Increment.
CounterApi(u) == [op |-> "inc", n |-> IF u.op = "dec" THEN 0 - u.n ELSE u.n]

\* A decrement is sent with its change and decoded with the opposite one.
CounterWire(d) ==
    IF d.op = "inc" THEN d ELSE [op |-> "dec", n |-> 0 - d.n]

CounterSnap(s) == s

-----------------------------------------------------------------------------
(* CounterFloatCrdt: the same with float64; both sides negate a decrement. *)

FloatChange(v, u) ==
    CASE u.op = "inc" -> v + u.n
      [] u.op = "dec" -> v - u.n
      [] OTHER -> v

FloatRead(s, upds) ==
    LET f[i \in 0..Len(upds)] == IF i = 0 THEN s ELSE FloatChange(f[i - 1], upds[i])
    IN f[Len(upds)]

FloatApply(s, d) == [st |-> FloatChange(s, d), eff |-> d]

FloatUndo(s, eff) ==
    CASE eff.op = "inc" -> s - eff.n
      [] eff.op = "dec" -> s + eff.n
      [] OTHER -> s

FloatApi(u) == [op |-> "inc", n |-> IF u.op = "dec" THEN 0 - u.n ELSE u.n]

FloatToWire(d) == [inc |-> d.op = "inc", n |-> IF d.op = "inc" THEN d.n ELSE 0 - d.n]
FloatFromWire(w) ==
    IF w.inc THEN [op |-> "inc", n |-> w.n] ELSE [op |-> "dec", n |-> 0 - w.n]
FloatWire(d) == FloatFromWire(FloatToWire(d))

FloatSnap(s) == s

-----------------------------------------------------------------------------
(* PairCounterCrdt: an int32 and a float64, changed alone or together.     *)

PairUpdates(N) ==
    {[op |-> o, a |-> x, b |-> 0] : o \in {"inc", "dec"}, x \in N}
    \cup {[op |-> o, a |-> 0, b |-> x] : o \in {"inc", "dec"}, x \in N}
    \cup {[op |-> o, a |-> x, b |-> x] : o \in {"inc", "dec"}, x \in N}
PairInit == [first |-> 0, second |-> 0]

PairChange(s, u) ==
    CASE u.op = "inc" -> [first |-> Wrap(s.first + u.a), second |-> s.second + u.b]
      [] u.op = "dec" -> [first |-> Wrap(s.first - u.a), second |-> s.second - u.b]
      [] OTHER -> s

\* getState: with pending updates it starts at zero and not at the value.
PairRead(s, upds) ==
    LET f[i \in 0..Len(upds)] == IF i = 0 THEN PairInit ELSE PairChange(f[i - 1], upds[i])
    IN IF upds = <<>> THEN s ELSE f[Len(upds)]

\* A change of both counters leaves no effect.
PairApply(s, d) ==
    [st |-> PairChange(s, d), eff |-> IF d.a # 0 /\ d.b # 0 THEN NoEffect ELSE d]

PairUndo(s, eff) ==
    IF eff = NoEffect THEN s
    ELSE PairChange(s, [eff EXCEPT !.op = IF @ = "inc" THEN "dec" ELSE "inc"])

\* The signs of the two encoded changes choose the decoder.  The one of a
\* decrement of both negates the changes and builds an IncrementBoth.
PairApi(u) ==
    LET x == IF u.op = "inc" THEN u.a ELSE 0 - u.a
        y == IF u.op = "inc" THEN u.b ELSE 0 - u.b
    IN IF x < 0 /\ y < 0 THEN [op |-> "inc", a |-> 0 - x, b |-> 0 - y]
       ELSE IF x # 0 /\ y # 0 THEN [op |-> "inc", a |-> x, b |-> y]
       ELSE IF x < 0 \/ (x = 0 /\ y < 0) THEN [op |-> "dec", a |-> 0 - x, b |-> 0 - y]
       ELSE [op |-> "inc", a |-> x, b |-> y]

PairToWire(d) ==
    [inc |-> d.op = "inc", a |-> IF d.op = "inc" THEN d.a ELSE 0 - d.a,
     b |-> IF d.op = "inc" THEN d.b ELSE 0 - d.b]
\* Which counters change is read off the values that are not zero.
PairFromWire(w) ==
    IF w.inc THEN [op |-> "inc", a |-> w.a, b |-> w.b]
    ELSE [op |-> "dec", a |-> 0 - w.a, b |-> 0 - w.b]
PairWire(d) == PairFromWire(PairToWire(d))

PairSnap(s) == [first |-> s.first, second |-> s.second]

-----------------------------------------------------------------------------
(* AvgCrdt: a sum and the number of values added.                          *)

AvgUpdates(N) ==
    {[op |-> "add", n |-> x] : x \in N}
    \cup {[op |-> "addMulti", sum |-> x, k |-> 2] : x \in N}
AvgInit == [sum |-> 0, nAdds |-> 0]

\* Read ignores the pending updates: its test of their number is inverted.
AvgRead(s, upds) == s

AvgUpdate(u) ==
    IF u.op = "add" THEN [op |-> "addMulti", sum |-> u.n, k |-> 1] ELSE u

AvgApply(s, d) ==
    [st |-> [sum |-> s.sum + d.sum, nAdds |-> s.nAdds + d.k], eff |-> d]

AvgUndo(s, eff) == [sum |-> s.sum - eff.sum, nAdds |-> s.nAdds - eff.k]

\* Both updates are encoded by sum and count, and decoded as AddMultipleValue.
AvgApi(u) == AvgUpdate(u)

AvgWire(d) == [op |-> "addMulti", sum |-> d.sum, k |-> d.k]

AvgSnap(s) == [sum |-> s.sum, nAdds |-> s.nAdds]

-----------------------------------------------------------------------------
(* MaxMinCrdt: the extreme value so far; MaxInt64 stands for "no value".   *)

MaxMinUpdates(op, N) == [op : {op}, n : N]
MaxInt64 == 2^30
MaxMinInit == [top |-> MaxInt64]

\* max and min of the code: anything replaces MaxInt64.
MaxMinPick(op, first, second) ==
    IF first = MaxInt64 \/ (op = "max" /\ second > first) \/ (op = "min" /\ second < first)
    THEN second ELSE first

\* Read ignores the pending updates: its test of their number is inverted.
MaxMinRead(s, upds) == s.top

\* An update that the value already dominates is not applied, nor replicated.
MaxMinUpdate(s, u) ==
    IF s.top # MaxInt64 /\ ((u.op = "max" /\ u.n < s.top) \/ (u.op = "min" /\ u.n > s.top))
    THEN NoOp ELSE u

MaxMinApply(s, d) ==
    LET v == MaxMinPick(d.op, s.top, d.n)
    IN [st |-> [top |-> v],
        eff |-> IF v = s.top THEN NoEffect ELSE [eff |-> "previous", n |-> s.top]]

\* undoEffect asserts the effect's type, which panics on NoEffect: there is
\* no state afterwards.
MaxMinUndo(s, eff) == IF eff = NoEffect THEN [panic |-> TRUE] ELSE [top |-> eff.n]

MaxMinApi(u) == [op |-> IF u.op = "max" THEN "max" ELSE "min", n |-> u.n]

MaxMinWire(d) == [op |-> IF d.op = "max" THEN "max" ELSE "min", n |-> d.n]

MaxMinSnap(s) == [top |-> s.top]

-----------------------------------------------------------------------------
(* UniqueSet and the source of Uniques.  rand.NewSource is seeded with the *)
(* second in which the object is created, so a Unique is a function of     *)
(* that second and of how many were drawn from this object before.         *)

NilSource == <<>>
NewSource(seed) == <<seed, 0>>
DrawUnique(source) == source
NextSource(source) == <<source[1], source[2] + 1>>
Panic == [op |-> "panic"]

FlagUpdates == [op : {"enable", "disable"}]

\* The wire value of a flag update; the server picks EnableFlag or DisableFlag.
FlagApi(u) == [op |-> IF u.op = "enable" THEN "enable" ELSE "disable"]

\* With pending updates the last one decides, for the three kinds of flag.
FlagPending(upds) == LastUpd(upds).op = "enable"

-----------------------------------------------------------------------------
(* EwFlagCrdt: every enable adds a Unique, a disable removes those it saw. *)

EwInit(r) == [enables |-> {}, random |-> NewSource(SeedOf[r])]

EwRead(s, upds) == IF upds = <<>> THEN s.enables # {} ELSE FlagPending(upds)

EwUpdate(s, u) ==
    IF u.op = "enable"
    THEN [st |-> [s EXCEPT !.random = NextSource(@)],
          down |-> [op |-> "enable", unique |-> DrawUnique(s.random)]]
    ELSE [st |-> s, down |-> [op |-> "disable", seen |-> s.enables]]

\* Mutant: a disable removes every enable, also those it has not seen.
EwDisablesAll(s, d) ==
    IF d.op = "enable"
    THEN [st |-> [s EXCEPT !.enables = @ \cup {d.unique}],
          eff |-> [eff |-> "enabled", unique |-> d.unique]]
    ELSE [st |-> [s EXCEPT !.enables = {}],
          eff |-> [eff |-> "disabled", removed |-> s.enables]]

EwApply(s, d) ==
    IF d.op = "enable"
    THEN [st |-> [s EXCEPT !.enables = @ \cup {d.unique}],
          eff |-> [eff |-> "enabled", unique |-> d.unique]]
    ELSE [st |-> [s EXCEPT !.enables = @ \ d.seen],
          eff |-> [eff |-> "disabled", removed |-> s.enables \cap d.seen]]

EwUndo(s, eff) ==
    [s EXCEPT !.enables = IF eff.eff = "enabled" THEN @ \ {eff.unique} ELSE @ \cup eff.removed]

\* An absent EnableEW means a disable; the set is sent as an array.
EwWire(d) ==
    IF d.op = "enable" THEN [op |-> "enable", unique |-> d.unique]
    ELSE [op |-> "disable", seen |-> d.seen]

EwSnap(s, r) == [enables |-> s.enables, random |-> NewSource(SeedOf[r])]

-----------------------------------------------------------------------------
(* DwFlagCrdt: the roles of enable and disable exchanged.                  *)

DwInit(r) == [disables |-> {}, random |-> NewSource(SeedOf[r])]

DwRead(s, upds) == IF upds = <<>> THEN s.disables = {} ELSE FlagPending(upds)

\* random is nil in an object built from a snapshot: drawing from it panics.
DwUpdate(s, u) ==
    IF u.op = "enable" THEN [st |-> s, down |-> [op |-> "enable", seen |-> s.disables]]
    ELSE IF s.random = NilSource THEN [st |-> s, down |-> Panic]
    ELSE [st |-> [s EXCEPT !.random = NextSource(@)],
          down |-> [op |-> "disable", unique |-> DrawUnique(s.random)]]

\* A disable leaves the effect of the other flag's enable.
DwApply(s, d) ==
    IF d.op = "enable"
    THEN [st |-> [s EXCEPT !.disables = @ \ d.seen],
          eff |-> [eff |-> "enabledDW", removed |-> s.disables \cap d.seen]]
    ELSE [st |-> [s EXCEPT !.disables = @ \cup {d.unique}],
          eff |-> [eff |-> "enabled", unique |-> d.unique]]

DwUndo(s, eff) ==
    CASE eff.eff = "enabledDW"  -> [s EXCEPT !.disables = @ \cup eff.removed]
      [] eff.eff = "disabledDW" -> [s EXCEPT !.disables = @ \ {eff.unique}]
      [] OTHER -> s

DwWire(d) ==
    IF d.op = "disable" THEN [op |-> "disable", unique |-> d.unique]
    ELSE [op |-> "enable", seen |-> d.seen]

DwSnap(s) == [disables |-> s.disables, random |-> NilSource]

-----------------------------------------------------------------------------
(* LwwFlagCrdt and LwwRegisterCrdt: the value of the highest (ts, replica). *)

\* A clock reading below the object's timestamp is replaced by that
\* timestamp plus rand.Int63n(100), which may be zero.
LwwTs(ts, e) == IF e.now < ts THEN ts + e.rand ELSE e.now

LwwNewer(d, s) == d.ts > s.ts \/ (d.ts = s.ts /\ d.rep > s.rep)

LwwFlagInit(r) == [val |-> FALSE, ts |-> 0, rep |-> r, local |-> r]

LwwFlagRead(s, upds) == IF upds = <<>> THEN s.val ELSE FlagPending(upds)

LwwFlagUpdate(s, u, e) == [op |-> u.op, ts |-> LwwTs(s.ts, e), rep |-> s.local]

\* An old disable leaves the nil effect and an old enable NoEffect; undoEffect
\* ignores both.
LwwFlagApply(s, d) ==
    IF LwwNewer(d, s)
    THEN [st |-> [s EXCEPT !.val = d.op = "enable", !.ts = d.ts, !.rep = d.rep],
          eff |-> [eff |-> "set", val |-> s.val, ts |-> s.ts, rep |-> s.rep]]
    ELSE [st |-> s, eff |-> NoEffect]

LwwUndo(s, eff) ==
    IF eff = NoEffect THEN s
    ELSE [s EXCEPT !.val = eff.val, !.ts = eff.ts, !.rep = eff.rep]

LwwFlagWire(d) == [op |-> d.op, ts |-> d.ts, rep |-> d.rep]

LwwFlagSnap(s, r) == [val |-> s.val, ts |-> s.ts, rep |-> s.rep, local |-> r]

RegisterUpdates(V) == [op : {"set"}, v : V]
NoValue == 0    \* the empty string
LwwRegInit(r) == [val |-> NoValue, ts |-> 0, rep |-> r, local |-> r]

LwwRegRead(s, upds) == IF upds = <<>> THEN s.val ELSE LastUpd(upds).v

LwwRegUpdate(s, u, e) == [op |-> "set", v |-> u.v, ts |-> LwwTs(s.ts, e), rep |-> s.local]

LwwRegApply(s, d) ==
    IF LwwNewer(d, s)
    THEN [st |-> [s EXCEPT !.val = d.v, !.ts = d.ts, !.rep = d.rep],
          eff |-> [eff |-> "set", val |-> s.val, ts |-> s.ts, rep |-> s.rep]]
    ELSE [st |-> s, eff |-> NoEffect]

LwwRegUndo(s, eff) == LwwUndo(s, eff)

RegisterApi(u) == [op |-> "set", v |-> u.v]

LwwRegWire(d) == [op |-> "set", v |-> d.v, ts |-> d.ts, rep |-> d.rep]

LwwRegSnap(s, r) == [val |-> s.val, ts |-> s.ts, rep |-> s.rep, local |-> r]

=============================================================================
