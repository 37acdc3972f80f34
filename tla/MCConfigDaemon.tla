--------------------------- MODULE MCConfigDaemon ---------------------------
(* One stream for each of two associations, one node of each kind. *)
EXTENDS ConfigDaemon, TLC

CONSTANTS c1, c2, u1, u2, item, block, list, one

Both == {c1, c2}
SameClient == [s \in Both |-> s]
Nothing == [n \in Node |-> IF n \in Item THEN Empty ELSE Absent]
Names == [n \in Node |-> IF n \in Block THEN Absent ELSE Empty]
Files == {Nothing, Names}
Symmetry == Permutations({c1, c2}) \cup Permutations({u1, u2})
=============================================================================
