--------------------------- MODULE StreamProtocol ---------------------------
(***************************************************************************)
(* One GDT stream (gdt/gdt.cpp): the state machine of the IN thread at     *)
(* both ends (GDTStateMachine::run, process_sf_continue, process_sf_end,   *)
(* process_sf_stream_complete), the sequence numbers and the flags that    *)
(* generate_ack puts into the packets, and the time-outs.                  *)
(*                                                                         *)
(* The ends are two daemons, or, when a router sends a stream back to the  *)
(* daemon that has started it, two linked streams of one client: then one  *)
(* UUID names both, and last_linked_side says whose turn it is.  The       *)
(* routers in between may lose packets or refuse them.  GDTClient models   *)
(* the payloads and the pool, which are left out here.                     *)
(***************************************************************************)
EXTENDS Naturals, Sequences

CONSTANTS MaxNum,      \* bound: sequence numbers of a stream
          MaxFaults    \* bound: packets lost or refused on the way

ASSUME BoundsAssumption == MaxNum \in Nat \ {0} /\ MaxFaults \in Nat

VARIABLES
    loop,      \* both ends are at one client
    st,        \* the stream of each side
    last,      \* last_linked_side
    net,       \* the packets on their way to each side's client
    said, heard,   \* what the users have sent and been given
    told,      \* the events that have ended each side's stream
    faults

vars == <<loop, st, last, net, said, heard, told, faults>>

Side == {"init", "resp"}
Other(x) == IF x = "init" THEN "resp" ELSE "init"

(* A GDTStream: life is "none", "open" (in the list of active streams, or  *)
(* linked to one that is) or "closed"; rr is sequence_reply_received, wait *)
(* whether its user has asked to wait, and has then sent by itself.        *)
GDTStream == [life : {"none", "open", "closed"}, num : Nat,
              rr : BOOLEAN, wait : {"no", "asked", "sent"}]

Kind == {"start", "continue", "wait", "end", "complete", "error"}

Init == /\ loop \in BOOLEAN
        /\ st = [x \in Side |-> [life |-> "none", num |-> 1, rr |-> FALSE,
                                 wait |-> "no"]]
        /\ last = "init" /\ net = [x \in Side |-> <<>>]
        /\ said = [x \in Side |-> 0] /\ heard = [x \in Side |-> <<>>]
        /\ told = [x \in Side |-> <<>>] /\ faults = 0

-----------------------------------------------------------------------------
(* Where a packet goes, and whose stream it is for.                        *)

Home(x) == IF loop THEN "init" ELSE x

Open(x) == st[x].life = "open"

Linked == loop /\ \A x \in Side : Open(x)

(* get_stream(), and the side of linked streams whose turn it is. *)
Target(q) ==
    IF Linked THEN {Other(last)}
    ELSE {x \in Side : Home(x) = q /\ Open(x)}

Packet(k, n, x) == [kind |-> k, num |-> n, by |-> x, no |-> said'[x]]

(* The packet at the head of q is taken off, and p is sent for it. *)
Rest(q, y) == IF y = q THEN Tail(net[y]) ELSE net[y]

Taken(q) == net' = [y \in Side |-> Rest(q, y)]

Answer(q, p) ==
    net' = [y \in Side |-> IF y = Home(Other(p.by)) THEN Append(Rest(q, y), p)
                           ELSE Rest(q, y)]

Heard(x, p) == heard' = [heard EXCEPT ![x] = Append(@, [by |-> p.by, no |-> p.no])]

Answered(x, f) == said' = IF f = "continue" THEN [said EXCEPT ![x] = @ + 1]
                          ELSE said

Tell(xs, e) == told' = [x \in Side |-> IF x \in xs THEN Append(told[x], e)
                                       ELSE told[x]]

(* What the handler of an event may set the sequence flag to; it defaults  *)
(* to END.  CONTINUE_WAIT is not considered together with linked streams.  *)
Flag(x) == {"end"} \cup
           IF st[x].num >= MaxNum THEN {}
           ELSE {"continue"} \cup IF loop THEN {} ELSE {"wait"}

-----------------------------------------------------------------------------
(* new_stream() and send(): the stream is started. *)
Start ==
    /\ st["init"].life = "none"
    /\ st' = [st EXCEPT !["init"].life = "open"]
    /\ said' = [said EXCEPT !["init"] = 1]
    /\ net' = [net EXCEPT ![Home("resp")] =
                 Append(@, Packet("start", 1, "init"))]
    /\ UNCHANGED <<loop, last, heard, told, faults>>

(* generate_ack() counts on once more when its user has asked to wait.     *)
Waits(f) == IF f = "wait" THEN 1 ELSE 0

(* GDT_SF_START: a stream is made, or linked to the one that has started   *)
(* it; the handler of new streams decides how to go on.                    *)
ReceiveStart(q) ==
    /\ net[q] # <<>> /\ Head(net[q]).kind = "start"
    /\ last' = "resp"
    /\ Heard("resp", Head(net[q]))
    /\ \E f \in Flag("resp") :
         /\ Answered("resp", f)
         /\ st' = [st EXCEPT !["resp"] =
                     [life |-> "open", num |-> 2 + Waits(f), rr |-> TRUE,
                      wait |-> IF f = "wait" THEN "asked" ELSE "no"]]
         /\ Answer(q, Packet(f, 1, "resp"))
    /\ UNCHANGED <<loop, told, faults>>

Valid(x, p) == p.num = st[x].num

Step(b) == IF b THEN 1 ELSE 0

(* Mutant: the number is not counted on after the answer. *)
ProcessSfContinueOnce(x, q) ==
    LET rr == ~st[x].rr  num == st[x].num + Step(rr)
    IN \E f \in Flag(x) :
         /\ Heard(x, Head(net[q])) /\ Answered(x, f)
         /\ st' = [st EXCEPT ![x].num = num + Waits(f),
                             ![x].rr = ~rr,
                             ![x].wait = IF f = "wait" THEN "asked" ELSE "no"]
         /\ Answer(q, Packet(f, num, x))
         /\ last' = IF Linked THEN x ELSE last
         /\ UNCHANGED <<loop, told, faults>>

(* process_sf_continue(), the number is right: seq_reply_received is       *)
(* toggled before and after the answer, and the number counted on whenever *)
(* it is then set.                                                         *)
ProcessSfContinue(x, q) ==
    LET rr == ~st[x].rr  num == st[x].num + Step(rr)
    IN \E f \in Flag(x) :
         /\ Heard(x, Head(net[q])) /\ Answered(x, f)
         /\ st' = [st EXCEPT ![x].num = num + Waits(f) + Step(~rr),
                             ![x].rr = ~rr,
                             ![x].wait = IF f = "wait" THEN "asked" ELSE "no"]
         /\ Answer(q, Packet(f, num, x))
         /\ last' = IF Linked THEN x ELSE last
         /\ UNCHANGED <<loop, told, faults>>

(* A linked stream stays until the STREAM_COMPLETE is back. *)
Closed(x) == IF Linked THEN st ELSE [st EXCEPT ![x].life = "closed"]

(* Mutant: the END is given to the handler of the next part, too. *)
ProcessSfEndNext(x, q) ==
    LET num == st[x].num + Step(~st[x].rr)
    IN /\ Tell({x}, "end") /\ Heard(x, Head(net[q])) /\ UNCHANGED said
       /\ st' = Closed(x)
       /\ Answer(q, Packet("complete", num, x))
       /\ last' = IF Linked THEN x ELSE last
       /\ UNCHANGED <<loop, faults>>

(* process_sf_end(), the number is right. *)
ProcessSfEnd(x, q) ==
    LET num == st[x].num + Step(~st[x].rr)
    IN /\ Tell({x}, "end") /\ UNCHANGED said
       /\ st' = Closed(x)
       /\ Answer(q, Packet("complete", num, x))
       /\ last' = IF Linked THEN x ELSE last
       /\ UNCHANGED <<loop, heard, faults>>

(* generate_err_uos(): the number is wrong. *)
OutOfSequence(x, q) ==
    /\ Tell({x}, "error") /\ UNCHANGED said
    /\ st' = Closed(x)
    /\ Answer(q, Packet("error", Head(net[q]).num, x))
    /\ last' = IF Linked THEN x ELSE last
    /\ UNCHANGED <<loop, heard, faults>>

(* Mutant: the packet of an unknown stream is answered with STREAM_COMPLETE. *)
UnknownStreamOk(q) ==
    /\ UNCHANGED said
    /\ Answer(q, Packet("complete", Head(net[q]).num, Other(Head(net[q]).by)))
    /\ UNCHANGED <<loop, st, last, heard, told, faults>>

(* generate_err_unkn_strm(): the error goes back to the sender. *)
UnknownStream(q) ==
    /\ UNCHANGED said
    /\ Answer(q, Packet("error", Head(net[q]).num, Other(Head(net[q]).by)))
    /\ UNCHANGED <<loop, st, last, heard, told, faults>>

Receive(q, k, Process(_, _)) ==
    /\ net[q] # <<>> /\ Head(net[q]).kind = k
    /\ \/ Target(q) = {} /\ UnknownStream(q)
       \/ \E x \in Target(q) :
            IF Valid(x, Head(net[q])) THEN Process(x, q) ELSE OutOfSequence(x, q)

ReceiveContinue(q) == Receive(q, "continue", ProcessSfContinue)
ReceiveEnd(q) == Receive(q, "end", ProcessSfEnd)

(* GDT_SF_CONTINUE_WAIT: nothing is done, the number stays. *)
ProcessSfContinueWait(x, q) ==
    /\ UNCHANGED said /\ Taken(q)
    /\ UNCHANGED <<loop, st, last, heard, told, faults>>

ReceiveWait(q) == Receive(q, "wait", ProcessSfContinueWait)

(* GDT_SF_STREAM_COMPLETE: the number does not matter, the stream ends and *)
(* its linked one goes with it.  Nothing answers it.                       *)
ReceiveComplete(q) ==
    /\ net[q] # <<>> /\ Head(net[q]).kind \in {"complete", "error"}
    /\ UNCHANGED said /\ Taken(q)
    /\ Tell(Target(q), Head(net[q]).kind)
    /\ st' = [x \in Side |-> IF x \in Target(q) \/ Linked
                             THEN [st[x] EXCEPT !.life = "closed"] ELSE st[x]]
    /\ UNCHANGED <<loop, last, heard, faults>>

(* A user that has sent CONTINUE_WAIT sends the rest by itself. *)
SendMore(x) ==
    /\ Open(x) /\ st[x].wait = "asked"
    /\ st' = [st EXCEPT ![x].wait = "sent"]
    /\ said' = [said EXCEPT ![x] = @ + 1]
    /\ net' = [net EXCEPT ![Home(Other(x))] =
                 Append(@, Packet("continue", st[x].num, x))]
    /\ UNCHANGED <<loop, last, heard, told, faults>>

(* Mutant: only the streams that were started here are timed out. *)
TimeoutLocal(x) ==
    LET xs == IF Linked THEN Side ELSE {x}
    IN /\ Open(x) /\ x = "init"
       /\ Tell(xs, "timeout")
       /\ st' = [y \in Side |-> IF y \in xs
                                THEN [st[y] EXCEPT !.life = "closed"] ELSE st[y]]
       /\ UNCHANGED <<loop, last, net, said, heard, faults>>

(* process_timeout(): linked streams are listed, and timed out, as one.    *)
Timeout(x) ==
    LET xs == IF Linked THEN Side ELSE {x}
    IN /\ Open(x) /\ (Linked => x = "init")
       /\ Tell(xs, "timeout")
       /\ st' = [y \in Side |-> IF y \in xs
                                THEN [st[y] EXCEPT !.life = "closed"] ELSE st[y]]
       /\ UNCHANGED <<loop, last, net, said, heard, faults>>

-----------------------------------------------------------------------------
(* The way between the ends. *)

(* A router or an association is lost with the packet, or the pool of the  *)
(* receiver is empty.                                                      *)
Lose(q) ==
    /\ net[q] # <<>> /\ faults < MaxFaults /\ faults' = faults + 1
    /\ net' = [net EXCEPT ![q] = Tail(@)]
    /\ UNCHANGED <<loop, st, last, said, heard, told>>

(* A router has no route: the sender is sent an error for the packet. *)
Refuse(q) ==
    /\ net[q] # <<>> /\ faults < MaxFaults /\ faults' = faults + 1
    /\ UNCHANGED said
    /\ Answer(q, Packet("error", Head(net[q]).num, Other(Head(net[q]).by)))
    /\ UNCHANGED <<loop, st, last, heard, told>>

Deliver(q) == \/ ReceiveStart(q) \/ ReceiveContinue(q) \/ ReceiveEnd(q)
              \/ ReceiveWait(q) \/ ReceiveComplete(q)

Next == \/ Start
        \/ \E q \in Side : Deliver(q) \/ SendMore(q) \/ Timeout(q)
        \/ \E q \in Side : Lose(q) \/ Refuse(q)

Spec == Init /\ [][Next]_vars

(* The IN threads read what arrives, and time out a stream to which        *)
(* nothing arrives any more.                                               *)
Idle(x) == net[Home(x)] = <<>> /\ Timeout(x)

FairSpec == /\ Spec
            /\ \A q \in Side : WF_vars(Deliver(q)) /\ WF_vars(Idle(q))

-----------------------------------------------------------------------------
TypeOK ==
    /\ loop \in BOOLEAN /\ st \in [Side -> GDTStream] /\ last \in Side
    /\ \A q \in Side : \A k \in DOMAIN net[q] :
         /\ net[q][k].kind \in Kind /\ net[q][k].by \in Side
         /\ {net[q][k].num, net[q][k].no} \subseteq Nat
    /\ \A x \in Side :
         /\ said[x] \in Nat
         /\ \A k \in DOMAIN told[x] :
              told[x][k] \in {"end", "complete", "error", "timeout"}
    /\ faults \in 0 .. MaxFaults

(* Every packet that reaches an open stream has the number that the stream *)
(* expects, unless its sender has used CONTINUE_WAIT: the toggling of      *)
(* seq_reply_received keeps the two counters in step.  A stream that is    *)
(* sent its own packet (its linked one was timed out before) refuses it.   *)
InSequence ==
    \A q \in Side :
       net[q] # <<>> /\ Head(net[q]).kind \in {"continue", "wait", "end"} =>
          \A x \in Target(q) :
             \/ Valid(x, Head(net[q])) <=> Head(net[q]).by # x
             \/ st[Head(net[q]).by].wait = "sent"

(* The handlers of a stream are called once when it ends, whatever is lost *)
(* or late: they free what belongs to the stream.  Linked streams are the  *)
(* exception: a time-out may follow an END whose STREAM_COMPLETE is late,  *)
(* and a refused packet may end a linked stream without a word.            *)
EndsOnce ==
    \A x \in Side :
       /\ \/ Len(told[x]) <= 1
          \/ loop /\ told[x] \in {<<"end", "timeout">>, <<"error", "timeout">>}
       /\ st[x].life = "closed" => told[x] # <<>> \/ (loop /\ faults > 0)

(* A user is told that the stream is complete only if the other user has   *)
(* been told of the end it has asked for.                                  *)
CompleteIsMutual ==
    \A x \in Side : (\E k \in DOMAIN told[x] : told[x][k] = "complete")
                    => told[Other(x)] # <<>> /\ told[Other(x)][1] = "end"

(* The two sides agree about the end, each is told of it once, and nothing *)
(* else is told (process_sf_end(), process_sf_stream_complete()).          *)
EndsAgree == TypeOK /\ EndsOnce /\ CompleteIsMutual

(* Every stream ends at both sides. *)
EveryStreamEnds == \A x \in Side : Open(x) ~> ~Open(x)

C == INSTANCE Conversation WITH over <- {x \in Side : told[x] # <<>>}

(* The users see a conversation: see Conversation. *)
ConversationSpec == C!CSpec
=============================================================================
