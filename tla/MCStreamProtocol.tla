-------------------------- MODULE MCStreamProtocol --------------------------
(* A stream with a few turns, between two daemons or looped back. *)
EXTENDS StreamProtocol
=============================================================================
