----------------------------- MODULE Heartbeat -----------------------------
(***************************************************************************)
(* How a daemon watches its config daemon: the heartbeat threads of        *)
(* gdt/gdt.cpp (init_heartbeat, HeartbeatInfo::heartbeat_loop, the replies *)
(* in GDTStateMachine::run, process_timeout) and what the routing daemon   *)
(* does with them (init_config, HbeatMissed, HbeatCleanup): the heartbeat  *)
(* that is missed stops, and its thread connects to the config daemon      *)
(* again, possibly through another client, and starts the next one.        *)
(*                                                                         *)
(* Thread 0 is the main thread, which calls init_config() once; thread k   *)
(* is the k-th heartbeat thread.                                           *)
(***************************************************************************)
EXTENDS Naturals, FiniteSets

CONSTANTS Client,       \* the outbound clients
          MaxMissed,    \* bound: heartbeats missed
          MaxDown       \* bound: associations lost

ASSUME BoundsAssumption == MaxMissed \in Nat /\ MaxDown \in Nat

Thread == 0 .. MaxMissed + 1
None == "none"

VARIABLES
    up,        \* the clients that are connected and registered
    term,      \* DAEMON_TERMINATED, and the session is being destroyed
    cfgd,      \* cfgd_active
    hb,        \* the threads, with their HeartbeatInfo
    str,       \* the heartbeat stream of each thread
    due,       \* the OUT thread has sent it and has yet to say so
    mishap,    \* the races that have been lost
    missed, down

vars == <<up, term, cfgd, hb, str, due, mishap, missed, down>>

(* A thread: "config" is init_config(), from the cleanup handler, "mark"   *)
(* the end of it; "loop", "made" and "armed" are the loop, "drain" the     *)
(* wait for next_ready() after it.                                         *)
HeartbeatInfo ==
    [pc : {"none", "config", "mark", "loop", "made", "armed", "drain", "gone"},
     client : Client \cup {None}, active : BOOLEAN, next : BOOLEAN]

(* The stream: "bare" in the client's list without its callbacks, "armed"  *)
(* with them, "queued" for the OUT thread, "waiting" for the reply; a      *)
(* "stray" one is queued, but not in the list any more.                    *)
StreamState == {"none", "bare", "armed", "queued", "waiting", "stray"}

Init == /\ up \in SUBSET Client /\ term = FALSE /\ cfgd = FALSE
        /\ hb = [k \in Thread |->
                   [pc |-> IF k = 0 THEN "config" ELSE "none",
                    client |-> None, active |-> FALSE, next |-> FALSE]]
        /\ str = [k \in Thread |-> "none"] /\ due = [k \in Thread |-> FALSE]
        /\ mishap = {} /\ missed = 0 /\ down = 0

Goto(k, pc) == hb' = [hb EXCEPT ![k].pc = pc]

-----------------------------------------------------------------------------
(* init_config(). *)

Fresh(k) == hb[k].pc = "none" /\ \A j \in Thread : j < k => hb[j].pc # "none"

(* The user is logged in, notifications are requested and a heartbeat is   *)
(* started, with a thread of its own.                                      *)
Connect(k, c) ==
    /\ hb[k].pc = "config" /\ c \in up /\ ~cfgd
    /\ \E j \in Thread :
         /\ Fresh(j)
         /\ hb' = [hb EXCEPT ![k].pc = "mark",
                     ![j] = [pc |-> "loop", client |-> c,
                             active |-> TRUE, next |-> TRUE]]
    /\ UNCHANGED <<up, term, cfgd, str, due, mishap, missed, down>>

(* ... and the flag set: the heartbeat may have been missed by now. *)
Mark(k) ==
    /\ hb[k].pc = "mark" /\ Goto(k, "gone")
    /\ cfgd' = TRUE
    /\ mishap' = IF \E j \in Thread : hb[j].active THEN mishap
                 ELSE mishap \cup {"flag"}
    /\ UNCHANGED <<up, term, str, due, missed, down>>

(* init_heartbeat() has no thread: init_config() returns 0 all the same.   *)
NoThread(k) ==
    /\ hb[k].pc = "config" /\ up # {} /\ ~cfgd /\ Goto(k, "gone")
    /\ mishap' = mishap \cup {"thread"}
    /\ UNCHANGED <<up, term, cfgd, str, due, missed, down>>

(* Mutant: a heartbeat thread tries once. *)
GiveUpOnce(k) ==
    /\ hb[k].pc = "config" /\ Goto(k, "gone")
    /\ UNCHANGED <<up, term, cfgd, str, due, mishap, missed, down>>

(* init_config() has found no config daemon, which the main thread does    *)
(* not mind; a heartbeat thread tries again until the daemon is terminated. *)
GiveUp(k) ==
    /\ hb[k].pc = "config" /\ (k = 0 \/ term) /\ Goto(k, "gone")
    /\ UNCHANGED <<up, term, cfgd, str, due, mishap, missed, down>>

-----------------------------------------------------------------------------
(* heartbeat_loop(). *)

(* new_stream() puts the stream into the list, ... *)
Make(k) ==
    /\ hb[k].pc = "loop" /\ ~term /\ hb[k].active /\ hb[k].next
    /\ Goto(k, "made") /\ str' = [str EXCEPT ![k] = "bare"]
    /\ UNCHANGED <<up, term, cfgd, due, mishap, missed, down>>

(* ... next is cleared and the callbacks are set: if the stream has been   *)
(* timed out in between, nothing will ever set next again.                 *)
Arm(k) ==
    /\ hb[k].pc = "made"
    /\ hb' = [hb EXCEPT ![k].pc = "armed", ![k].next = FALSE]
    /\ IF str[k] = "bare" THEN str' = [str EXCEPT ![k] = "armed"] /\ UNCHANGED mishap
       ELSE mishap' = mishap \cup {"unarmed"} /\ UNCHANGED str
    /\ UNCHANGED <<up, term, cfgd, due, missed, down>>

(* send() *)
Send(k) ==
    /\ hb[k].pc = "armed" /\ Goto(k, "loop")
    /\ IF str[k] = "armed" THEN str' = [str EXCEPT ![k] = "queued"] /\ UNCHANGED mishap
       ELSE /\ str' = [str EXCEPT ![k] = "stray"]
            /\ mishap' = mishap \cup {"stray"}
    /\ UNCHANGED <<up, term, cfgd, due, missed, down>>

Leave(k) ==
    /\ hb[k].pc = "loop" /\ (term \/ ~hb[k].active) /\ Goto(k, "drain")
    /\ UNCHANGED <<up, term, cfgd, str, due, mishap, missed, down>>

(* Mutant: the thread does not wait for its stream. *)
CleanupAtOnce(k) ==
    /\ hb[k].pc = "drain" /\ Goto(k, "config")
    /\ UNCHANGED <<up, term, cfgd, str, due, mishap, missed, down>>

(* on_cleanup: HbeatCleanup deletes the handlers and reconnects. *)
Cleanup(k) ==
    /\ hb[k].pc = "drain" /\ hb[k].next /\ Goto(k, "config")
    /\ UNCHANGED <<up, term, cfgd, str, due, mishap, missed, down>>

-----------------------------------------------------------------------------
(* The OUT thread. *)

OutSend(k) ==
    /\ ~term /\ str[k] \in {"queued", "stray"} /\ ~due[k]
    /\ str' = [str EXCEPT ![k] = IF @ = "queued" THEN "waiting" ELSE "none"]
    /\ due' = [due EXCEPT ![k] = TRUE]
    /\ UNCHANGED <<up, term, cfgd, hb, mishap, missed, down>>

(* The PAYLOAD_SENT callback, which uses the HeartbeatInfo. *)
OutDone(k) ==
    /\ due[k] /\ due' = [due EXCEPT ![k] = FALSE]
    /\ UNCHANGED <<up, term, cfgd, hb, str, mishap, missed, down>>

-----------------------------------------------------------------------------
(* The IN thread.  A stream whose reply comes before the OUT thread is     *)
(* done with it has overtaken it.                                          *)

Overtaken(ks) == mishap' = IF \E k \in ks : due[k]
                           THEN mishap \cup {"overtaken"} ELSE mishap

(* _tmp_recv *)
Reply(k) ==
    /\ str[k] = "waiting" /\ hb[k].client \in up
    /\ str' = [str EXCEPT ![k] = "none"]
    /\ hb' = [hb EXCEPT ![k].next = TRUE]
    /\ Overtaken({k})
    /\ UNCHANGED <<up, term, cfgd, due, missed, down>>

(* Mutant: the flag is left set. *)
MissQuietly(ks) ==
    /\ hb' = [k \in Thread |-> IF k \in ks
                 THEN [hb[k] EXCEPT !.active = FALSE, !.next = TRUE] ELSE hb[k]]
    /\ UNCHANGED cfgd
    /\ missed' = IF term THEN missed ELSE missed + Cardinality(ks)

(* _tmp_missed, with HbeatMissed: the flag is cleared, the heartbeat       *)
(* stopped.                                                                *)
Miss(ks) ==
    /\ hb' = [k \in Thread |-> IF k \in ks
                 THEN [hb[k] EXCEPT !.active = FALSE, !.next = TRUE] ELSE hb[k]]
    /\ cfgd' = IF ks = {} THEN cfgd ELSE FALSE
    /\ missed' = IF term THEN missed ELSE missed + Cardinality(ks)

(* The reply is an error. *)
Refused(k) ==
    /\ str[k] = "waiting" /\ hb[k].client \in up
    /\ missed < MaxMissed \/ term
    /\ str' = [str EXCEPT ![k] = "none"]
    /\ Miss({k}) /\ Overtaken({k})
    /\ UNCHANGED <<up, term, due, down>>

(* Mutant: a stream that is on its way out is never timed out. *)
ExpirableSent(ks) == {k \in ks : str[k] = "waiting" /\ ~due[k]}

(* process_timeout() looks at the streams that are not on their way out;   *)
(* exit_loop() clears that flag.                                           *)
Expirable(ks) == {k \in ks : \/ str[k] \in {"bare", "armed"}
                             \/ str[k] = "waiting" /\ (term \/ ~due[k])
                             \/ str[k] = "queued" /\ term}

(* The streams ks are timed out: TIMEOUT is _tmp_missed, if it is set yet. *)
Expire(ks) ==
    LET heard == {k \in ks : str[k] # "bare"}
    IN /\ missed + Cardinality(heard) <= MaxMissed \/ term
       /\ str' = [k \in Thread |->
                    IF k \notin ks THEN str[k]
                    ELSE IF str[k] = "queued" THEN "stray" ELSE "none"]
       /\ Miss(heard) /\ Overtaken(ks)

Timeout(k) ==
    /\ k \in Expirable({k}) /\ Expire({k})
    /\ UNCHANGED <<up, term, due, down>>

(* The association is lost: every stream of the client is timed out. *)
Down(c) ==
    /\ ~term /\ c \in up /\ down < MaxDown /\ down' = down + 1
    /\ up' = up \ {c}
    /\ Expire(Expirable({k \in Thread : hb[k].client = c}))
    /\ UNCHANGED <<term, due>>

(* reconnect_socket() and register_client() *)
Up(c) ==
    /\ c \notin up /\ ~term /\ up' = up \cup {c}
    /\ UNCHANGED <<term, cfgd, hb, str, due, mishap, missed, down>>

Terminate ==
    /\ ~term /\ term' = TRUE
    /\ UNCHANGED <<up, cfgd, hb, str, due, mishap, missed, down>>

ThreadStep(k) == \/ \E c \in Client : Connect(k, c)
                 \/ Mark(k) \/ NoThread(k) \/ GiveUp(k) \/ Make(k) \/ Arm(k)
                 \/ Send(k) \/ Leave(k) \/ Cleanup(k)
InOut(k) == OutSend(k) \/ OutDone(k) \/ Reply(k) \/ Refused(k) \/ Timeout(k)

Next == \/ \E k \in Thread : ThreadStep(k) \/ InOut(k)
        \/ \E c \in Client : Down(c) \/ Up(c)
        \/ Terminate

Spec == Init /\ [][Next]_vars

(* Threads run; a lost client reconnects; a config daemon that can be      *)
(* reached answers; a heartbeat without an answer is timed out.            *)
FairSpec ==
    /\ Spec
    /\ \A c \in Client : WF_vars(Up(c))
    /\ \A k \in Thread :
         /\ WF_vars(\E c \in Client : Connect(k, c))
         /\ WF_vars(Mark(k)) /\ WF_vars(Make(k)) /\ WF_vars(Arm(k))
         /\ WF_vars(Send(k)) /\ WF_vars(Leave(k)) /\ WF_vars(Cleanup(k))
         /\ WF_vars(GiveUp(k) /\ term)
         /\ WF_vars(OutSend(k)) /\ WF_vars(OutDone(k)) /\ WF_vars(Timeout(k))

-----------------------------------------------------------------------------
TypeOK ==
    /\ up \subseteq Client /\ term \in BOOLEAN /\ cfgd \in BOOLEAN
    /\ hb \in [Thread -> HeartbeatInfo]
    /\ \A k \in Thread : hb[k].pc \in {"loop", "made", "armed", "drain"}
                          => hb[k].client \in Client
    /\ str \in [Thread -> StreamState] /\ due \in [Thread -> BOOLEAN]
    /\ mishap \subseteq {"flag", "thread", "unarmed", "stray", "overtaken"}

Beating(k) == hb[k].active /\ hb[k].pc \in {"loop", "made", "armed"}

(* The config daemon is watched by one heartbeat at a time.                *)
OneHeartbeat == \A j, k \in Thread : Beating(j) /\ Beating(k) => j = k

(* "wait for streams to finish or timeout": no stream of the client refers *)
(* to handlers that HbeatCleanup has deleted, and the OUT thread to none   *)
(* of a thread that is gone, unless it has been overtaken.                 *)
NoUseAfterFree ==
    \A k \in Thread :
       /\ hb[k].pc \in {"config", "mark", "gone"} =>
            str[k] \notin {"armed", "queued", "waiting"}
       /\ hb[k].pc = "gone" /\ (due[k] \/ str[k] = "stray") =>
            mishap \cap {"overtaken", "stray"} # {} \/ term

(* cfgd_active is never set while nobody watches: then nobody would ever   *)
(* connect to a config daemon again.                                       *)
FlagIsWatched ==
    cfgd => term \/ "flag" \in mishap \/ \E k \in Thread : hb[k].active

(* One heartbeat watches the config daemon, and one does whenever the      *)
(* daemon takes itself to be connected (init_config(), HbeatMissed).       *)
WatchedByOne == TypeOK /\ OneHeartbeat /\ FlagIsWatched

(* A daemon that has lost its config daemon is connected and watched       *)
(* again, unless the flag was set late, a thread could not be made, or a   *)
(* stream was timed out before it had its handlers.                        *)
Reconnects ==
    (\E k \in Thread \ {0} : hb[k].pc = "drain")
       ~> (cfgd \/ term \/ mishap \cap {"flag", "thread", "unarmed"} # {})

(* A daemon that is terminated ends its heartbeat threads, which keep the  *)
(* client and the session from being deleted.                              *)
ThreadsEnd ==
    term ~> \/ \A k \in Thread : hb[k].pc \in {"none", "gone"}
            \/ "unarmed" \in mishap
=============================================================================
