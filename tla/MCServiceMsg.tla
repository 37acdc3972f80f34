---------------------------- MODULE MCServiceMsg ----------------------------
EXTENDS ServiceMsg, TLC

(* The pieces of 1 fill a packet to the last byte; two packets are needed  *)
(* for 2, and its last piece has one byte; 3 has the size of a piece and   *)
(* is not cut.                                                             *)
MCSize == 1 :> 693 @@ 2 :> 769 @@ 3 :> 256
MCRequests == {{1, 2}, {1, 3}}
MCResults == {{2}}
MCPoolSize == "variant" :> 4 @@ "octets" :> 3
MCSymmetry == Permutations(Stream)
=============================================================================
