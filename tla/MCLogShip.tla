------------------------------ MODULE MCLogShip ------------------------------
(* LogShip on small instances. *)
EXTENDS LogShip, TLC

CONSTANT MaxClk    \* bound: the largest clock value

\* The values of Timestamps in the configurations: every clock, or a chain of clocks in which
\* the positions of the other replicas grow half as fast as that of Self
SomeTimestamps == [Replicas -> 1 .. MaxClk]
ChainTimestamps ==
    {[r \in Replicas |-> IF r = Self THEN n ELSE n \div 2] : n \in 1 .. MaxClk}

\* Bound of MCLogOrder: every transaction is at one partition, and the largest clock is
\* left to the safe clocks, so that every transaction can be passed by one.
OnePartitionEach ==
    \A t \in Txns : Cardinality(involved[t]) <= 1 /\ commitTs[t][Self] < MaxClk

\* Bound of MCLogWhole: the clocks of two transactions are one apart, with the same position
\* of the other replica or not, or tied in the middle; wider gaps add nothing.
Neighbours ==
    \A t, u \in {x \in Txns : involved[x] # {}} :
        LET d == commitTs[t][Self] - commitTs[u][Self]
        IN d \in {-1, 0, 1} /\ (d = 0 /\ t # u => commitTs[t][Self] = 2)

Symmetry == Permutations(Txns)

=============================================================================
