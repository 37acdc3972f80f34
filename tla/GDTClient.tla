----------------------------- MODULE GDTClient -----------------------------
(***************************************************************************)
(* One gdt::GDTClient (src/gdt/gdt.cpp): an SCTP association and the       *)
(* streams multiplexed over it.  The pool of GDTStream objects, the list   *)
(* of active streams and the two out queues are shared by                  *)
(*   IN       in_loop and GDTStateMachine::run: answers what the peer      *)
(*            sends, times streams out, reconnects; when the client stops  *)
(*            it hands over to EXIT (exit_loop), its continuation here;    *)
(*   OUT      out_loop and out_process: sends what is queued;              *)
(*   TIMEOUT  timeout_loop: raises stream_timeout_check;                   *)
(*   APP      any thread that calls new_stream() and then send();          *)
(*   other clients' IN threads, which forward packets through this client. *)
(* A payload belongs to its stream for life, so a queue of payloads is a   *)
(* queue of streams.  Routing, sequence numbers and loopback streams are   *)
(* left out: a packet is one for this client, and whether its sequence     *)
(* number is the expected one is arbitrary.                                *)
(***************************************************************************)
EXTENDS Naturals, Sequences, FiniteSets, SequencesExt

CONSTANTS Streams,      \* the GDTStream objects of stream_pool
          Uuid,         \* the conversations of the client's life
          NoStream, NoUuid,
          InternalCap,  \* what internal_out_queue is sure to accept
          MaxRecv,      \* bound: packets received
          Outbound,     \* direction = GDT_CD_OUTBOUND
          Lossy,        \* sends may fail, the association may be lost
          MayStop,      \* disconnect() may be called
          Overtake,     \* an answer may be handled before OUT has finished
                        \* with the payload it answers
          MidSend       \* the association may be lost, or the client
                        \* stopped, between new_stream() and send()

ASSUME StreamsAssumption == IsFiniteSet(Streams) /\ NoStream \notin Streams
ASSUME UuidAssumption == NoUuid \notin Uuid
ASSUME BoundsAssumption == InternalCap \in Nat /\ MaxRecv \in Nat
ASSUME FlagsAssumption == {Outbound, Lossy, MayStop, Overtake, MidSend} \subseteq BOOLEAN

VARIABLES
    pool,                 \* stream_pool's free list, the next one last
    streams,              \* the active streams
    strm,                 \* the fields of each stream and of its payload
    internal_out_queue,   \* filled by IN
    out_queue,            \* filled by everyone else
    in,                   \* IN, then EXIT: program counter, streams that
                          \* process_timeout() has still to look at, and why
    out,                  \* OUT: program counter, payload, queue to pop
    timeout_thread,       \* TIMEOUT is running
    app,                  \* APP: program counter and stream
    active, reconnect_queued, stream_timeout_check,
    peer,                 \* per conversation, what the peer has to answer
    told,                 \* per conversation, what the stream's callbacks
                          \* have been told
    recvd                 \* packets received

vars == <<pool, streams, strm, internal_out_queue, out_queue, in, out,
          timeout_thread, app, active, reconnect_queued,
          stream_timeout_check, peer, told, recvd>>
flags == <<active, reconnect_queued, stream_timeout_check>>
queues == <<internal_out_queue, out_queue>>

PoolSize == Cardinality(Streams)

(* The message encoded in a payload.  "reply" stands for all that starts   *)
(* or continues no conversation: errors, datagrams, forwarded packets.     *)
Message == {"start", "continue", "end", "complete", "heartbeat", "reply"}
Answered == {"start", "continue", "end", "heartbeat"}

Stream == [uuid : Uuid \cup {NoUuid}, out : BOOLEAN, free_on_send : BOOLEAN,
           expired : BOOLEAN,
           aged : BOOLEAN,     \* timestamp is stream_timeout seconds old
           msg : Message]

Goal == {"none", "check", "queued", "lost", "exit", "linger"}

Init == /\ pool \in SetToSeqs(Streams)
        /\ streams = {}
        /\ strm = [s \in Streams |->
                     [uuid |-> NoUuid, out |-> FALSE, free_on_send |-> FALSE,
                      expired |-> FALSE, aged |-> FALSE, msg |-> "reply"]]
        /\ internal_out_queue = <<>> /\ out_queue = <<>>
        /\ in = [pc |-> "run", left |-> {}, goal |-> "none"]
        /\ out = [pc |-> "pop", s |-> NoStream, lane |-> "internal"]
        /\ timeout_thread = TRUE
        /\ app = [pc |-> "idle", s |-> NoStream]
        /\ active = TRUE /\ reconnect_queued = FALSE
        /\ stream_timeout_check = FALSE
        /\ peer = [u \in Uuid |-> "none"]
        /\ told = [u \in Uuid |-> "unused"]
        /\ recvd = 0

-----------------------------------------------------------------------------
(* Operators on the shared structures. *)

(* deallocate_constructed(), of each object of q in turn: nothing is       *)
(* noticed of an object that is in the free list p already, only that the  *)
(* list is full.                                                           *)
Returned(p, q) == IF Len(p) + Len(q) <= PoolSize THEN p \o q
                  ELSE SubSeq(p \o q, 1, PoolSize)

(* push() of either queue; no caller looks at the result. *)
Pushed(q, cap, s) == IF Len(q) < cap THEN Append(q, s) ELSE q

(* get_stream(uuid) *)
Known(u) == {s \in streams : strm[s].uuid = u}

(* OUT is in out_process() with the payload of stream s. *)
Sending(s) == out.pc # "pop" /\ out.pc # "done" /\ out.s = s

Queued(s) == s \in ToSet(internal_out_queue) \cup ToSet(out_queue)

(* A callback that ends a conversation: GDT_ET_STREAM_END, a heartbeat's   *)
(* RECEIVED and MISSED, or GDT_ET_STREAM_TIMEOUT.                          *)
Tell(t, u, what) ==
    IF u = NoUuid THEN t
    ELSE [t EXCEPT ![u] = IF @ = "open" THEN what ELSE "again"]

-----------------------------------------------------------------------------
(* APP: new_stream() lists the stream before anything of it is sent, and   *)
(* leaves the payload's flags as the object's last use left them.          *)
AppNewStream(u) ==
    /\ app.pc = "idle" /\ active
    /\ told[u] = "unused"
    /\ pool # <<>>
    /\ LET s == Last(pool) IN
         /\ strm' = [strm EXCEPT ![s].uuid = u, ![s].expired = FALSE,
                                 ![s].aged = FALSE]
         /\ streams' = streams \cup {s}
         /\ app' = [pc |-> "new", s |-> s]
    /\ pool' = Front(pool)
    /\ told' = [told EXCEPT ![u] = "open"]
    /\ UNCHANGED <<queues, in, out, timeout_thread, flags, peer, recvd>>

(* GDTStream::send(), up to and including generate_stream_header(). *)
AppSendHeader(m) ==
    /\ app.pc = "new"
    /\ strm' = [strm EXCEPT ![app.s].free_on_send = FALSE,
                            ![app.s].out = TRUE, ![app.s].msg = m]
    /\ app' = [app EXCEPT !.pc = "push"]
    /\ UNCHANGED <<pool, streams, queues, in, out, timeout_thread, flags,
                   peer, told, recvd>>

AppPush ==
    /\ app.pc = "push"
    /\ out_queue' = Pushed(out_queue, PoolSize, app.s)
    /\ app' = [pc |-> "idle", s |-> NoStream]
    /\ UNCHANGED <<pool, streams, strm, internal_out_queue, in, out,
                   timeout_thread, flags, peer, told, recvd>>

(* Another client's IN thread routes a packet through this client. *)
Forward ==
    /\ recvd < MaxRecv /\ pool # <<>>
    /\ in.pc # "gone"
    /\ LET s == Last(pool) IN
         /\ strm' = [strm EXCEPT ![s].free_on_send = TRUE,
                                 ![s].aged = FALSE, ![s].msg = "reply"]
         /\ out_queue' = Pushed(out_queue, PoolSize, s)
    /\ pool' = Front(pool)
    /\ recvd' = recvd + 1
    /\ UNCHANGED <<streams, internal_out_queue, in, out, timeout_thread, app,
                   flags, peer, told>>

App == \/ \E u \in Uuid : AppNewStream(u)
       \/ \E m \in {"start", "heartbeat"} : AppSendHeader(m)
       \/ AppPush

-----------------------------------------------------------------------------
(* OUT: one pass of out_loop pops the internal and then the external       *)
(* queue; whether the client is active is looked at between passes.        *)
OtherLane == IF out.lane = "internal" THEN "external" ELSE "internal"

OutPop ==
    /\ out.pc = "pop"
    /\ out.lane = "internal" => active
    /\ LET q == IF out.lane = "internal" THEN internal_out_queue
                                         ELSE out_queue
       IN IF q = <<>>
            THEN /\ out' = [out EXCEPT !.lane = OtherLane]
                 /\ UNCHANGED queues
            ELSE /\ out' = [out EXCEPT !.pc = "send", !.s = Head(q)]
                 /\ IF out.lane = "internal"
                      THEN /\ internal_out_queue' = Tail(q)
                           /\ UNCHANGED out_queue
                      ELSE /\ out_queue' = Tail(q)
                           /\ UNCHANGED internal_out_queue
    /\ UNCHANGED <<pool, streams, strm, in, timeout_thread, app, flags, peer,
                   told, recvd>>

(* send() and, when it succeeded, the GDT_ET_PAYLOAD_SENT callback. *)
OutSend ==
    /\ out.pc = "send"
    /\ LET s == strm[out.s] IN
         peer' = IF s.msg \in Answered /\ s.uuid # NoUuid
                   THEN [peer EXCEPT ![s.uuid] = s.msg] ELSE peer
    /\ out' = [out EXCEPT !.pc = "sent"]
    /\ UNCHANGED <<pool, streams, strm, queues, in, timeout_thread, app,
                   flags, told, recvd>>

(* Mutant: a failed send returns without touching the payload. *)
OutSendFailsEarly ==
    /\ out.pc = "send" /\ Lossy
    /\ reconnect_queued' = TRUE
    /\ out' = [pc |-> "pop", s |-> NoStream, lane |-> OtherLane]
    /\ UNCHANGED <<pool, streams, strm, queues, in, timeout_thread, app,
                   active, stream_timeout_check, peer, told, recvd>>

OutSendFails ==
    /\ out.pc = "send" /\ Lossy
    /\ reconnect_queued' = TRUE
    /\ out' = [out EXCEPT !.pc = "sent"]
    /\ UNCHANGED <<pool, streams, strm, queues, in, timeout_thread, app,
                   active, stream_timeout_check, peer, told, recvd>>

(* The end of out_process(): free_on_send is read, then either the stream  *)
(* is returned to the pool or out is cleared.                              *)
OutCheck ==
    /\ out.pc = "sent"
    /\ out' = [out EXCEPT !.pc = IF strm[out.s].free_on_send THEN "free"
                                                             ELSE "clear"]
    /\ UNCHANGED <<pool, streams, strm, queues, in, timeout_thread, app,
                   flags, peer, told, recvd>>

OutLeft == out' = [pc |-> "pop", s |-> NoStream, lane |-> OtherLane]

OutFree ==
    /\ out.pc = "free"
    /\ pool' = Returned(pool, <<out.s>>)
    /\ OutLeft
    /\ UNCHANGED <<streams, strm, queues, in, timeout_thread, app, flags,
                   peer, told, recvd>>

(* Mutant: out stays set after the payload has left the queue. *)
OutClearNot == out.pc = "clear" /\ OutLeft
    /\ UNCHANGED <<pool, streams, strm, queues, in, timeout_thread, app, flags,
                   peer, told, recvd>>

OutClear ==
    /\ out.pc = "clear"
    /\ strm' = [strm EXCEPT ![out.s].out = FALSE]
    /\ OutLeft
    /\ UNCHANGED <<pool, streams, queues, in, timeout_thread, app, flags,
                   peer, told, recvd>>

OutExit ==
    /\ out.pc = "pop" /\ out.lane = "internal" /\ ~active
    /\ out' = [out EXCEPT !.pc = "done"]
    /\ UNCHANGED <<pool, streams, strm, queues, in, timeout_thread, app,
                   flags, peer, told, recvd>>

Out == \/ OutPop \/ OutSend \/ OutSendFails \/ OutCheck
       \/ OutFree \/ OutClear \/ OutExit

-----------------------------------------------------------------------------
(* IN: what GDTStateMachine::run() does with a packet.                     *)

(* The peer answers what it was sent, once, unless it asks to wait.        *)
Turn(u, what) ==
    /\ peer[u] \in what
    /\ Overtake \/ ~\E s \in Streams : Sending(s) /\ strm[s].uuid = u

Received ==
    /\ in.pc = "poll" /\ recvd < MaxRecv
    /\ recvd' = recvd + 1
    /\ in' = [in EXCEPT !.pc = "run"]
    /\ UNCHANGED <<out_queue, out, timeout_thread, app, flags>>

Consumed(u) == peer' = [peer EXCEPT ![u] = "none"]

PushInternal(s) ==
    internal_out_queue' = Pushed(internal_out_queue, InternalCap, s)

(* A reply on a stream object of its own, if the pool has one: errors,     *)
(* heartbeat replies, datagram replies.                                    *)
Reply ==
    /\ UNCHANGED <<streams, told>>
    /\ IF pool = <<>> THEN UNCHANGED <<pool, strm, internal_out_queue>>
       ELSE LET s == Last(pool) IN
              /\ pool' = Front(pool)
              /\ strm' = [strm EXCEPT ![s].free_on_send = TRUE,
                                      ![s].msg = "reply"]
              /\ PushInternal(s)

(* Mutant: the stream stays in the list. *)
LastMessageListed(s) ==
    /\ strm' = [strm EXCEPT ![s].free_on_send = TRUE, ![s].msg = "complete"]
    /\ told' = Tell(told, strm[s].uuid, "ended")
    /\ PushInternal(s)
    /\ UNCHANGED <<pool, streams>>

(* The stream's last message, on its own payload: STREAM_COMPLETE for an   *)
(* END (process_sf_end), an error for a wrong sequence number.             *)
LastMessage(s) ==
    /\ strm' = [strm EXCEPT ![s].free_on_send = TRUE, ![s].msg = "complete"]
    /\ streams' = streams \ {s}
    /\ told' = Tell(told, strm[s].uuid, "ended")
    /\ PushInternal(s)
    /\ UNCHANGED pool

(* The stream is over and nothing is left to send. *)
Discard(s) ==
    /\ streams' = streams \ {s}
    /\ pool' = Returned(pool, <<s>>)
    /\ told' = Tell(told, strm[s].uuid, "ended")
    /\ UNCHANGED <<strm, internal_out_queue>>

(* START from the peer.  The GDT_ET_STREAM_NEW handler chooses whether the *)
(* acknowledgement ends the stream or continues it.                        *)
ReceiveStart(u) ==
    /\ told[u] = "unused" /\ Received
    /\ pool # <<>>
    /\ LET s == Last(pool) IN
         /\ \E m \in {"continue", "end"} :
              strm' = [strm EXCEPT ![s] =
                         [uuid |-> u, out |-> TRUE, free_on_send |-> FALSE,
                          expired |-> FALSE, aged |-> FALSE, msg |-> m]]
         /\ streams' = streams \cup {s}
         /\ PushInternal(s)
    /\ pool' = Front(pool)
    /\ told' = [told EXCEPT ![u] = "open"]
    /\ UNCHANGED peer

(* A request that opens no stream, or a packet that cannot be served: a    *)
(* heartbeat, a datagram, an unknown route, a wrong version, a START that  *)
(* is not number 1.                                                        *)
ReceiveRequest == Received /\ Reply /\ UNCHANGED peer

ReceiveContinue(u) ==
    /\ Turn(u, {"start", "continue"}) /\ Received
    /\ Consumed(u)
    /\ \/ Known(u) = {} /\ Reply
       \/ \E s \in Known(u) :               \* the number expected
            /\ \E m \in {"continue", "end"} :
                 strm' = [strm EXCEPT ![s].out = TRUE, ![s].aged = FALSE,
                                      ![s].free_on_send = FALSE,
                                      ![s].msg = m]
            /\ PushInternal(s)
            /\ UNCHANGED <<pool, streams, told>>
       \/ \E s \in Known(u) : LastMessage(s)

(* CONTINUE_WAIT: "expect another SF-CONTINUE from peer" *)
ReceiveWait(u) ==
    /\ Turn(u, {"start", "continue"}) /\ Received
    /\ \/ Known(u) = {} /\ Reply /\ UNCHANGED peer
       \/ \E s \in Known(u) :
            /\ strm' = [strm EXCEPT ![s].aged = FALSE]
            /\ UNCHANGED <<pool, streams, told, internal_out_queue, peer>>
       \/ \E s \in Known(u) : LastMessage(s) /\ Consumed(u)

ReceiveEnd(u) ==
    /\ Turn(u, {"start", "continue"}) /\ Received
    /\ Consumed(u)
    /\ \/ Known(u) = {} /\ Reply
       \/ \E s \in Known(u) : LastMessage(s)

(* STREAM_COMPLETE, which is also the flag of the peer's error replies. *)
ReceiveComplete(u) ==
    /\ Turn(u, {"start", "continue", "end"}) /\ Received
    /\ Consumed(u)
    /\ \/ /\ Known(u) = {}
          /\ UNCHANGED <<pool, streams, strm, told, internal_out_queue>>
       \/ \E s \in Known(u) : Discard(s)

ReceiveHeartbeatReply(u) ==
    /\ Turn(u, {"heartbeat"}) /\ Received
    /\ Consumed(u)
    /\ \/ /\ Known(u) = {}
          /\ UNCHANGED <<pool, streams, strm, told, internal_out_queue>>
       \/ \E s \in Known(u) : Discard(s)

Receive == \/ ReceiveRequest
           \/ \E u \in Uuid :
                \/ ReceiveStart(u) \/ ReceiveContinue(u) \/ ReceiveWait(u)
                \/ ReceiveEnd(u) \/ ReceiveComplete(u)
                \/ ReceiveHeartbeatReply(u)

-----------------------------------------------------------------------------
(* IN: process_timeout() copies the list, calls back the streams that have *)
(* timed out without holding the list's lock, and then frees them.         *)
ScanFor(goal) ==
    /\ in' = [pc |-> "scan", left |-> streams, goal |-> goal]
    /\ stream_timeout_check' = FALSE

ScanStream(s) ==
    /\ in.pc = "scan" /\ s \in in.left
    /\ in' = [in EXCEPT !.left = @ \ {s}]
    /\ IF ~strm[s].out /\ (in.goal # "check" \/ strm[s].aged)
         THEN /\ strm' = [strm EXCEPT ![s].expired = TRUE]
              /\ told' = Tell(told, strm[s].uuid, "timed out")
         ELSE UNCHANGED <<strm, told>>
    /\ UNCHANGED <<pool, streams, queues, out, timeout_thread, app, flags,
                   peer, recvd>>

AfterScan(goal) == CASE goal = "check" -> "timed"
                     [] goal \in {"queued", "lost"} -> "reconnect"
                     [] OTHER -> "exit"

(* Mutant: expired streams are returned to the pool but stay listed. *)
EraseExpiredListed ==
    /\ in.pc = "scan" /\ in.left = {}
    /\ pool' = Returned(pool, SetToSeq({s \in streams : strm[s].expired}))
    /\ in' = [in EXCEPT !.pc = AfterScan(in.goal)]
    /\ UNCHANGED <<streams, strm, queues, out, timeout_thread, app, flags,
                   peer, told, recvd>>

EraseExpired ==
    /\ in.pc = "scan" /\ in.left = {}
    /\ LET gone == {s \in streams : strm[s].expired} IN
         /\ streams' = streams \ gone
         /\ pool' = Returned(pool, SetToSeq(gone))
    /\ in' = [in EXCEPT !.pc = AfterScan(in.goal)]
    /\ UNCHANGED <<strm, queues, out, timeout_thread, app, flags, peer, told,
                   recvd>>

(* Without MidSend all streams are not timed out at once, because the      *)
(* association is lost or the client stopped, while APP is between         *)
(* new_stream() and send().                                                *)
MayOverride == MidSend \/ app.pc # "new"

(* The top of run(), or the end of in_loop's loop. *)
InRun ==
    /\ in.pc = "run"
    /\ \/ active /\ stream_timeout_check /\ ScanFor("check")
       \/ /\ active /\ ~stream_timeout_check
          /\ in' = [in EXCEPT !.pc = "timed"]
          /\ UNCHANGED stream_timeout_check
       \/ ~active /\ MayOverride /\ ScanFor("exit")
    /\ UNCHANGED <<pool, streams, strm, queues, out, timeout_thread, app,
                   active, reconnect_queued, peer, told, recvd>>

InTimed ==
    /\ in.pc = "timed"
    /\ \/ reconnect_queued /\ MayOverride /\ ScanFor("queued")
       \/ /\ ~reconnect_queued
          /\ in' = [in EXCEPT !.pc = "poll"]
          /\ UNCHANGED stream_timeout_check
    /\ UNCHANGED <<pool, streams, strm, queues, out, timeout_thread, app,
                   active, reconnect_queued, peer, told, recvd>>

(* poll() times out (GDT_ET_CLIENT_IDLE). *)
InIdle ==
    /\ in.pc = "poll"
    /\ in' = [in EXCEPT !.pc = "run"]
    /\ UNCHANGED <<pool, streams, strm, queues, out, timeout_thread, app,
                   flags, peer, told, recvd>>

(* poll() or the receive fails. *)
InLost ==
    /\ in.pc = "poll" /\ Lossy /\ MayOverride
    /\ ScanFor("lost")
    /\ UNCHANGED <<pool, streams, strm, queues, out, timeout_thread, app,
                   active,
                   reconnect_queued, peer, told, recvd>>

(* SCTP_SHUTDOWN_EVENT or SCTP_COMM_LOST. *)
InNotified ==
    /\ in.pc = "poll" /\ Lossy
    /\ reconnect_queued' = TRUE
    /\ in' = [in EXCEPT !.pc = "run"]
    /\ UNCHANGED <<pool, streams, strm, queues, out, timeout_thread, app,
                   active, stream_timeout_check, peer, told, recvd>>

(* init_reconnect() returns: reconnected, or not because the client has    *)
(* become inactive, or because an inbound client does not reconnect.  Only *)
(* run()'s first caller of it resets reconnect_queued.                     *)
InReconnect ==
    /\ in.pc = "reconnect"
    /\ in' = [pc |-> IF in.goal = "queued" THEN "poll" ELSE "run",
              left |-> {}, goal |-> "none"]
    /\ active' = (active /\ Outbound)
    /\ reconnect_queued' = (reconnect_queued /\ in.goal = "lost")
    /\ peer' = [u \in Uuid |-> "none"]
    /\ UNCHANGED <<pool, streams, strm, queues, out, timeout_thread, app,
                   stream_timeout_check, told, recvd>>

(* reconnect_socket() could not connect: process_timeout(true) and again. *)
InRetry ==
    /\ in.pc = "reconnect" /\ Outbound /\ active /\ MayOverride
    /\ ScanFor(in.goal)
    /\ UNCHANGED <<pool, streams, strm, queues, out, timeout_thread, app,
                   active,
                   reconnect_queued, peer, told, recvd>>

In == \/ InRun \/ InTimed \/ InIdle \/ InLost \/ InNotified
      \/ InReconnect \/ InRetry
      \/ \E s \in Streams : ScanStream(s)
      \/ EraseExpired

-----------------------------------------------------------------------------
OtherThreadsOrThis == TRUE   \* mutant: thread_count >= 1

(* EXIT, which in_loop starts as its last act.  While another thread of    *)
(* the client runs, it takes every stream off the queues, as far as        *)
(* process_timeout() can see, and times it out.                            *)
OtherThreads == out.pc # "done" \/ timeout_thread

(* At first IN itself may still be counted in thread_count. *)
ExitWait ==
    /\ in.pc = "exit" /\ (OtherThreads \/ in.goal = "exit")
    /\ strm' = [s \in Streams |-> IF s \in streams
                                    THEN [strm[s] EXCEPT !.out = FALSE]
                                    ELSE strm[s]]
    /\ ScanFor("linger")
    /\ UNCHANGED <<pool, streams, queues, out, timeout_thread, app, active,
                   reconnect_queued, peer, told, recvd>>

(* remove_client() drains the queues before the client is deleted. *)
ExitRemove ==
    /\ in.pc = "exit" /\ ~OtherThreads
    /\ LET queued == internal_out_queue \o out_queue IN
         pool' = Returned(pool,
                          SelectSeq(queued, LAMBDA s : strm[s].free_on_send))
    /\ internal_out_queue' = <<>> /\ out_queue' = <<>>
    /\ in' = [in EXCEPT !.pc = "gone"]
    /\ UNCHANGED <<streams, strm, out, timeout_thread, app, flags, peer,
                   told, recvd>>

Exit == ExitWait \/ ExitRemove

-----------------------------------------------------------------------------
(* TIMEOUT: every stream_timeout seconds. *)
TimeoutTick ==
    /\ timeout_thread /\ active
    /\ stream_timeout_check' = TRUE
    /\ UNCHANGED <<pool, streams, strm, queues, in, out, timeout_thread, app,
                   active, reconnect_queued, peer, told, recvd>>

TimeoutExit ==
    /\ timeout_thread /\ ~active
    /\ timeout_thread' = FALSE
    /\ UNCHANGED <<pool, streams, strm, queues, in, out, app, flags, peer,
                   told, recvd>>

(* stream_timeout seconds pass without news of a stream; APP needs far     *)
(* less between new_stream() and send().                                   *)
Age(s) ==
    /\ s \in streams /\ ~strm[s].aged /\ app.s # s
    /\ strm' = [strm EXCEPT ![s].aged = TRUE]
    /\ UNCHANGED <<pool, streams, queues, in, out, timeout_thread, app,
                   flags, peer, told, recvd>>

(* disconnect(), called by whoever ends the session. *)
Disconnect ==
    /\ MayStop /\ active
    /\ active' = FALSE
    /\ UNCHANGED <<pool, streams, strm, queues, in, out, timeout_thread, app,
                   reconnect_queued, stream_timeout_check, peer, told, recvd>>

Next == \/ App \/ Forward \/ Out \/ Receive \/ In \/ Exit
        \/ TimeoutTick \/ TimeoutExit \/ Disconnect
        \/ \E s \in Streams : Age(s)

Spec == Init /\ [][Next]_vars

(* The threads are scheduled, time passes, and send() follows new_stream().*)
(* That a packet arrives or that the application opens a stream is not     *)
(* promised.                                                               *)
Fairness == /\ WF_vars(Out) /\ WF_vars(In) /\ WF_vars(Exit)
            /\ WF_vars(TimeoutTick) /\ WF_vars(TimeoutExit)
            /\ WF_vars(AppSendHeader("start") \/ AppSendHeader("heartbeat"))
            /\ WF_vars(AppPush)
            /\ \A s \in Streams : WF_vars(Age(s))

FairSpec == Spec /\ Fairness

-----------------------------------------------------------------------------
Stopping == in.goal \in {"exit", "linger"}

InFlight == ToSet(internal_out_queue) \cup ToSet(out_queue)
              \cup {s \in Streams : Sending(s)}

TypeOK ==
    /\ pool \in Seq(Streams) /\ streams \subseteq Streams
    /\ strm \in [Streams -> Stream]
    /\ internal_out_queue \in Seq(Streams) /\ out_queue \in Seq(Streams)
    /\ in.pc \in {"run", "timed", "poll", "scan", "reconnect", "exit", "gone"}
    /\ in.left \subseteq Streams /\ in.goal \in Goal
    /\ out \in [pc : {"pop", "send", "sent", "free", "clear", "done"},
                s : Streams \cup {NoStream}, lane : {"internal", "external"}]
    /\ app \in [pc : {"idle", "new", "push"}, s : Streams \cup {NoStream}]
    /\ {timeout_thread, active, reconnect_queued, stream_timeout_check}
         \subseteq BOOLEAN
    /\ peer \in [Uuid -> {"none"} \cup Answered]
    /\ told \in [Uuid -> {"unused", "open", "ended", "timed out", "again"}]
    /\ recvd \in 0 .. MaxRecv

(* A stream object is returned to the pool once: OUT (free_on_send), IN    *)
(* (STREAM_COMPLETE, time-outs) and EXIT all return streams, and the pool  *)
(* would hand out twice what it got back twice.                            *)
NoDoubleFree == IsInjective(pool)

(* An object in the pool is in nobody's hands: not listed, not queued, not *)
(* being sent and not being filled by APP.                                 *)
FreeIsUnused ==
    Stopping \/ \A s \in ToSet(pool) : s \notin streams \cup InFlight \cup {app.s}

(* Conversely an object that nobody holds is in the pool. *)
NoLeak ==
    in.pc = "gone" \/ Streams \subseteq ToSet(pool) \cup streams \cup InFlight \cup {app.s}

(* Every stream object has one holder, and one only: the pool, or those    *)
(* who list, queue, send or fill it, in spite of the three threads that    *)
(* return objects and the two that take them (new_stream(), out_process(), *)
(* process_timeout(), the end of a stream).                                *)
ObjectsAccounted == TypeOK /\ NoDoubleFree /\ FreeIsUnused /\ NoLeak

(* "skip if still in out_queue": the flag that process_timeout() goes by   *)
(* says of a listed stream whether its payload is queued, being sent or    *)
(* about to be queued.                                                     *)
OutFlag ==
    Stopping \/ \A s \in streams :
      strm[s].out <=> s \in InFlight \/ (app.s = s /\ app.pc = "push")

(* A payload is queued once: its buffer is not filled again before it has  *)
(* been sent.                                                              *)
QueuedOnce ==
    /\ IsInjective(internal_out_queue \o out_queue)
    /\ \A s \in Streams : Sending(s) => ~Queued(s)

(* OUT frees what it has sent only when the stream is not listed.          *)
FreeOnSend ==
    Stopping \/ \A s \in InFlight : strm[s].free_on_send <=> s \notin streams

(* out and free_on_send, which IN, OUT and the application write without a *)
(* lock, say of a payload what is true of it, and it is queued once.       *)
PayloadFlags == OutFlag /\ QueuedOnce /\ FreeOnSend

(* A conversation ends once: after GDT_ET_STREAM_END, or after a timeout,  *)
(* no handler is called again for it; handlers free their own memory then. *)
ToldOnce == \A u \in Uuid : told[u] # "again"

(* No handler waits for ever: every stream ends or times out as long as    *)
(* the client is not stopped.                                              *)
EventuallyTold ==
    \A u \in Uuid : told[u] = "open" ~> told[u] # "open" \/ ~active

(* A client that is stopped is removed: no thread of it waits for another  *)
(* for ever.                                                               *)
Terminates == ~active ~> in.pc = "gone"

(* "skip if still in out_queue": a listed stream that has been timed out,  *)
(* and is about to be freed, is not queued.                                *)
TimedOutNotQueued ==
    Stopping \/ \A s \in streams : strm[s].expired => s \notin InFlight
=============================================================================
