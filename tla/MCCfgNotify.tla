---------------------------- MODULE MCCfgNotify ----------------------------
(* Two subscribers of a path with two items; the client of one of them has *)
(* a stream for one update at a time, that of the other for two.           *)
EXTENDS CfgNotify, TLC

CONSTANTS u1, u2

MCPool == (u1 :> 1) @@ (u2 :> 2)

Symmetry == Permutations(Item)
=============================================================================
