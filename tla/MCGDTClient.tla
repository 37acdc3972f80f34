---------------------------- MODULE MCGDTClient ----------------------------
(* Two or three stream objects and conversations for TLC. *)
EXTENDS GDTClient, TLC

Symmetry == Permutations(Streams) \cup Permutations(Uuid)
=============================================================================
