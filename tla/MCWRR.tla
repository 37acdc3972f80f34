------------------------------- MODULE MCWRR -------------------------------
(* Instances of WRR for TLC: a connection is a pair of a node and a number. *)
EXTENDS WRR

CONSTANTS n1, n2

TwoNodes == {n1, n2}
TwoClients == TwoNodes \X {1}
NodeOfPair == [c \in Client |-> c[1]]
Symmetric == Permutations(Node)
=============================================================================
