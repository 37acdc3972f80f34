------------------------------ MODULE MCSpscQ ------------------------------
(* Small rings for TLC: QSIZE and WATERMARK keep the ratio the code has    *)
(* with its smallest ring (512 slots, a watermark of 256).                 *)
EXTENDS SpscQ

FlushAny == BOOLEAN
=============================================================================
