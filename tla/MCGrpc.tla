------------------------------- MODULE MCGrpc -------------------------------
(* The gRPC gateway with a few call objects. *)
EXTENDS Grpc
=============================================================================
