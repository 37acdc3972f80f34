--------------------------- MODULE MCGDTSession ---------------------------
(* One client that connects and two that are accepted. *)
EXTENDS GDTSession, TLC

CONSTANTS o1, i1, i2

Peers == {i1, i2}
=============================================================================
