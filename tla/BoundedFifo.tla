---------------------------- MODULE BoundedFifo ----------------------------
(***************************************************************************)
(* What a single-producer/single-consumer queue promises: the items come   *)
(* out once each, in the order in which they went in, and at most Capacity *)
(* of them are held at a time.  Nothing is said of when an accepted item   *)
(* becomes visible to the consumer, nor of a refused push (a stutter).     *)
(***************************************************************************)
EXTENDS Naturals, Sequences

CONSTANTS Item,       \* the values that are queued (pointers, in the code)
          NoItem,     \* what the consumer's out parameter holds at first
          Capacity    \* the number of items the queue can hold

VARIABLES queue,      \* the items accepted and not yet taken, oldest first
          taken       \* the item the last take handed to the consumer

fifoVars == <<queue, taken>>

Init == queue = <<>> /\ taken = NoItem

Put(i) == /\ Len(queue) < Capacity
          /\ queue' = Append(queue, i)
          /\ UNCHANGED taken

Take == /\ queue # <<>>
        /\ taken' = Head(queue)
        /\ queue' = Tail(queue)

Next == (\E i \in Item : Put(i)) \/ Take

Spec == Init /\ [][Next]_fifoVars
=============================================================================
