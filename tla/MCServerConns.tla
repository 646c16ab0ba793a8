---------------------------- MODULE MCServerConns ----------------------------
(* ServerConns on a small instance: a client of its own, whose second request is of one
   of the other kinds, and a group of two. *)
EXTENDS ServerConns

KindsHere(c, n) == CASE c = "g1" -> {"local", "abort", "unknown"}
                     [] c = "g2" -> {"static"}
                     [] c = "s1" /\ n = 1 -> {"static"}
                     [] c = "s1" /\ n = 2 -> AllKinds \ {"local", "static"}
TwoOfSingle(c) == IF c \in Singles THEN 2 ELSE 1
Once(k)        == 1
OwnId(c)       == c

===============================================================================
