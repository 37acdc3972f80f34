---------------------------- MODULE MCHeartbeat ----------------------------
(* Two clients through which the config daemon is reached. *)
EXTENDS Heartbeat
=============================================================================
