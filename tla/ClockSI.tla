------------------------------- MODULE ClockSI -------------------------------
(***************************************************************************)
(* The vector clocks of crdt/clocksi/clocksi.go.  A ClockSiTimestamp is a  *)
(* map from replica ids to int64 nanoseconds.  Every clock built after the *)
(* ids are known (NewClockSiTimestamp) has an entry for each known id, and *)
(* a missing entry reads as 0 in Go, so a clock is a total function here   *)
(* and DummyTs (one entry, for id 0, of value 0) is the all-zero clock.    *)
(***************************************************************************)
EXTENDS Integers

CONSTANT Replicas      \* clocksi.knownIDs: the ids of all the replicas

Clock == [Replicas -> Nat]

\* NewClockSiTimestamp, and DummyTs
NewTimestamp == [r \in Replicas |-> 0]

\* NextTimestamp: "time" is what time.Now().UTC().UnixNano() returned.
NextTimestamp(ts, id, time) ==
    [ts EXCEPT ![id] = IF time <= @ THEN @ + 1 ELSE time]

IsHigherOrEqual(ts, other) == \A r \in Replicas : ts[r] >= other[r]

IsLowerOrEqual(ts, other) == \A r \in Replicas : ts[r] <= other[r]

IsHigher(ts, other) ==
    /\ \A r \in Replicas : ts[r] >= other[r]
    /\ \E r \in Replicas : ts[r] > other[r]

IsLower(ts, other) ==
    /\ \A r \in Replicas : ts[r] <= other[r]
    /\ \E r \in Replicas : ts[r] < other[r]

\* The dependency check of a remote transaction: its own replica's position and
\* the position of the replica that receives it do not count.
IsLowerOrEqualExceptFor(ts, other, self, id) ==
    \A r \in Replicas \ {self, id} : ts[r] <= other[r]

IsEqual(ts, other) == \A r \in Replicas : ts[r] = other[r]

Compare(ts, other) ==
    CASE IsLower(ts, other)  -> "LowerTs"
      [] IsHigher(ts, other) -> "HigherTs"
      [] IsEqual(ts, other)  -> "EqualTs"
      [] OTHER               -> "ConcurrentTs"

\* UpdatePos keeps the larger of the two values.
UpdatePos(ts, id, newValue) == [ts EXCEPT ![id] = IF @ < newValue THEN newValue ELSE @]

UpdateForcedPos(ts, id, newValue) == [ts EXCEPT ![id] = newValue]

\* Merge and MergeInto: the larger value of each position.
Merge(ts, other) == [r \in Replicas |-> IF ts[r] > other[r] THEN ts[r] ELSE other[r]]

=============================================================================
