---------------------------- MODULE Conversation ----------------------------
(***************************************************************************)
(* What a GDT stream promises to the two users at its ends: they talk in   *)
(* turns, each hears what the other has said, in order, once, and nothing  *)
(* after it has been told that the stream is over.                         *)
(***************************************************************************)
EXTENDS Naturals, Sequences

Side == {"init", "resp"}
Other(x) == IF x = "init" THEN "resp" ELSE "init"

VARIABLES said,    \* how many messages each side has sent
          heard,   \* the messages each side has been given: who, which
          over     \* the sides that have been told that it is over

CInit == /\ said = [x \in Side |-> 0] /\ heard = [x \in Side |-> <<>>]
         /\ over = {}

Speak == /\ said["init"] = 0 /\ said' = [said EXCEPT !["init"] = 1]
         /\ UNCHANGED <<heard, over>>

(* A side hears the next message of the other, and may answer it. *)
Hear(x) == /\ x \notin over /\ Len(heard[x]) < said[Other(x)]
           /\ heard' = [heard EXCEPT
                ![x] = Append(@, [by |-> Other(x), no |-> Len(@) + 1])]
           /\ \/ UNCHANGED said
              \/ said' = [said EXCEPT ![x] = @ + 1]
           /\ UNCHANGED over

(* It may also answer later. *)
More(x) == /\ said[x] < Len(heard[x]) + IF x = "init" THEN 1 ELSE 0
           /\ said' = [said EXCEPT ![x] = @ + 1]
           /\ UNCHANGED <<heard, over>>

Finish(xs) == /\ xs # {} /\ over' = over \cup xs /\ UNCHANGED <<said, heard>>

CNext == \/ Speak
         \/ \E x \in Side : Hear(x) \/ More(x)
         \/ \E xs \in SUBSET Side : Finish(xs)

CSpec == CInit /\ [][CNext]_<<said, heard, over>>
=============================================================================
