-------------------------------- MODULE Grpc --------------------------------
(***************************************************************************)
(* The gRPC gateway, services/grpc: a gRPC call becomes a service message  *)
(* that carries a random guid, and the service message that comes back     *)
(* with this guid finishes the call.  The gRPC thread (handle_rpcs) takes  *)
(* the events of the completion queue, sends the requests, stores them in  *)
(* the correlation map and times them out; the IN threads of the routing   *)
(* daemons' clients take the answers (EVSrvcMsgRecv) and the ends of the   *)
(* request streams (EVSrvcMsgSent).                                        *)
(***************************************************************************)
EXTENDS Naturals, FiniteSets, Functions

CONSTANTS Call,         \* the call objects (GetDataCall)
          Payload,      \* the objects of cpool
          Guid,         \* the random numbers
          In,           \* the IN threads
          Messages,     \* the size of the service message pool
          MaxInvalid    \* bound: calls that verify() refuses

ASSUME SizesAssumption ==
    /\ IsFiniteSet(Payload) /\ IsFiniteSet(Guid)
    /\ Messages \in Nat /\ MaxInvalid \in Nat

None == "none"

ASSUME MarkAssumption ==
    /\ None \notin Call \cup Payload \cup Guid
    /\ "aborted" \notin Guid

VARIABLES
    call,     \* the calls: their state, guid and what they were answered with
    pc,       \* the gRPC thread
    pool,     \* the payloads in cpool
    cdata,    \* the call of a payload
    cmap,     \* the correlation map
    in,       \* what an IN thread has taken out of it
    wire,     \* the requests that may still be answered
    open,     \* the request streams that have not ended
    smsgs,    \* the free service messages
    dropped,  \* the payloads nobody will give back
    mishap,   \* the races that have been lost
    invalid

vars == <<call, pc, pool, cdata, cmap, in, wire, open, smsgs, dropped, mishap,
          invalid>>

(* "created": waits for a request; "requested": has one, in the completion *)
(* queue; "pending": sent; "finish": Finish() has been called; "unanswered": *)
(* refused by verify().                                                    *)
CallStatus == {"none", "created", "requested", "pending", "finish", "unanswered"}
RPCBase == [st : CallStatus, guid : Guid \cup {None},
            by : Guid \cup {None, "aborted"}]

Idle == [guid |-> None, pld |-> None]
At(a) == [at |-> a, guid |-> None, pld |-> None]

Fresh(st) == [st |-> st, guid |-> None, by |-> None]

Init ==
    /\ call = [c \in Call |-> Fresh(IF c = CHOOSE d \in Call : TRUE
                                    THEN "created" ELSE "none")]
    /\ pc = At("next")
    /\ pool = Payload /\ cdata = [p \in Payload |-> None]
    /\ cmap = [g \in {} |-> None] /\ in = [i \in In |-> Idle]
    /\ wire = {} /\ open = {} /\ smsgs = Messages
    /\ dropped = {} /\ mishap = {} /\ invalid = 0

-----------------------------------------------------------------------------
(* The completion queue. *)

(* A client calls, while Call has an object for the call after it. *)
Request(c) ==
    /\ call[c].st = "created" /\ \E d \in Call : call[d].st = "none"
    /\ call' = [call EXCEPT ![c].st = "requested"]
    /\ UNCHANGED <<pc, pool, cdata, cmap, in, wire, open, smsgs, dropped,
                   mishap, invalid>>

(* proceed() starts with the call object for the next request. *)
Spawned == [call EXCEPT ![CHOOSE d \in Call : call[d].st = "none"] = Fresh("created")]

(* Finish() for some calls: it is allowed once. *)
Finish(calls, cs, by) ==
    [c \in Call |-> IF c \in cs /\ calls[c].st \in {"requested", "pending"}
                    THEN [calls[c] EXCEPT !.st = "finish", !.by = by] ELSE calls[c]]
Twice(cs) == IF \A c \in cs : call[c].st = "pending" THEN {} ELSE {"twice"}

(* verify() fails: the status is set to INVALID_ARGUMENT and that is all.  *)
Invalid(c) ==
    /\ pc.at = "next" /\ call[c].st = "requested"
    /\ invalid < MaxInvalid /\ invalid' = invalid + 1
    /\ call' = [Spawned EXCEPT ![c].st = "unanswered"]
    /\ pc' = At("expire")
    /\ UNCHANGED <<pool, cdata, cmap, in, wire, open, smsgs, dropped, mishap>>

(* gdt_push() fails before it has a payload: there is no registered        *)
(* routing daemon, or one of the pools is empty; a message is given back.  *)
Refuse(c) ==
    /\ pc.at = "next" /\ call[c].st = "requested"
    /\ call' = Finish(Spawned, {c}, "aborted")
    /\ pc' = At("expire")
    /\ UNCHANGED <<pool, cdata, cmap, in, wire, open, smsgs, dropped, mishap,
                   invalid>>

(* The guids no request, entry or answer has: 16 random bytes make one, it *)
(* does not matter which.                                                  *)
Unused == Guid \ (wire \cup open \cup DOMAIN cmap \cup {call[c].guid : c \in Call}
                    \cup {in[i].guid : i \in In})
Random == CHOOSE g \in Unused : TRUE

(* allocate_constructed() *)
Allocated == CHOOSE p \in pool : TRUE

(* vpmap_sparam_sync() or send() fails: the message is given back, the     *)
(* payload is not.                                                         *)
SendFails(c) ==
    /\ pc.at = "next" /\ call[c].st = "requested"
    /\ smsgs > 0 /\ pool # {}
    /\ pool' = pool \ {Allocated} /\ cdata' = [cdata EXCEPT ![Allocated] = c]
    /\ dropped' = dropped \cup {Allocated}
    /\ call' = Finish(Spawned, {c}, "aborted")
    /\ pc' = At("expire")
    /\ UNCHANGED <<cmap, in, wire, open, smsgs, mishap, invalid>>

(* The request is sent, *)
Send(c) ==
    /\ pc.at = "next" /\ call[c].st = "requested"
    /\ smsgs > 0 /\ pool # {} /\ Unused # {}
    /\ pool' = pool \ {Allocated} /\ cdata' = [cdata EXCEPT ![Allocated] = c]
    /\ smsgs' = smsgs - 1 /\ wire' = wire \cup {Random} /\ open' = open \cup {Random}
    /\ call' = [Spawned EXCEPT ![c].st = "pending", ![c].guid = Random]
    /\ pc' = [at |-> "store", guid |-> Random, pld |-> Allocated]
    /\ UNCHANGED <<cmap, in, dropped, mishap, invalid>>

(* and then stored.  The node of the map may be one that an IN thread has  *)
(* just erased and is about to read.                                       *)
Store ==
    /\ pc.at = "store"
    /\ cmap' = [g \in DOMAIN cmap \cup {pc.guid} |->
                  IF g = pc.guid THEN pc.pld ELSE cmap[g]]
    /\ pc' = At("expire")
    /\ \/ UNCHANGED <<in, mishap>>
       \/ \E i \in In : /\ in[i] # Idle
                        /\ in' = [in EXCEPT ![i].pld = pc.pld]
                        /\ mishap' = mishap \cup {"reused"}
    /\ UNCHANGED <<call, pool, cdata, wire, open, smsgs, dropped, invalid>>

(* Mutant: a time-out does not give the payload back. *)
ExpireKeeps(gs) ==
    /\ pc.at = "expire" /\ gs \subseteq DOMAIN cmap
    /\ cmap' = Restrict(cmap, DOMAIN cmap \ gs)
    /\ LET cs == {cdata[cmap[g]] : g \in gs}
       IN call' = Finish(call, cs, "aborted") /\ mishap' = mishap \cup Twice(cs)
    /\ pc' = At("next")
    /\ UNCHANGED <<pool, cdata, in, wire, open, smsgs, dropped, invalid>>

(* Mutant: expired entries are removed, their calls not finished. *)
ExpireSilently(gs) ==
    /\ pc.at = "expire" /\ gs \subseteq DOMAIN cmap
    /\ cmap' = Restrict(cmap, DOMAIN cmap \ gs)
    /\ pool' = pool \cup {cmap[g] : g \in gs}
    /\ pc' = At("next")
    /\ UNCHANGED <<call, cdata, in, wire, open, smsgs, dropped, mishap, invalid>>

(* cmap_process_timeout(), under the lock of the map: the entries gs are   *)
(* older than their time-out.                                              *)
Expire(gs) ==
    /\ pc.at = "expire" /\ gs \subseteq DOMAIN cmap
    /\ cmap' = Restrict(cmap, DOMAIN cmap \ gs)
    /\ LET cs == {cdata[cmap[g]] : g \in gs}
       IN call' = Finish(call, cs, "aborted") /\ mishap' = mishap \cup Twice(cs)
    /\ pool' = pool \cup {cmap[g] : g \in gs}
    /\ pc' = At("next")
    /\ UNCHANGED <<cdata, in, wire, open, smsgs, dropped, invalid>>

(* The event of Finish(): the call object is deleted. *)
Delete(c) ==
    /\ pc.at = "next" /\ call[c].st = "finish"
    /\ call' = [call EXCEPT ![c] = Fresh("none")]
    /\ pc' = At("expire")
    /\ UNCHANGED <<pool, cdata, cmap, in, wire, open, smsgs, dropped, mishap,
                   invalid>>

(* An event of a call other than the ones in Call. *)
Wake ==
    /\ pc.at = "next" /\ pc' = At("expire")
    /\ UNCHANGED <<call, pool, cdata, cmap, in, wire, open, smsgs, dropped,
                   mishap, invalid>>

-----------------------------------------------------------------------------
(* The IN threads. *)

(* EVSrvcMsgSent: the request stream has ended or is timed out. *)
Sent(g) ==
    /\ g \in open /\ open' = open \ {g} /\ smsgs' = smsgs + 1
    /\ UNCHANGED <<call, pc, pool, cdata, cmap, in, wire, dropped, mishap, invalid>>

(* The request or its answer is lost; or the answer has not what           *)
(* EVSrvcMsgRecv needs, or no entry: it has been timed out, or is not      *)
(* stored yet.                                                             *)
Lose(g) ==
    /\ g \in wire /\ wire' = wire \ {g}
    /\ UNCHANGED <<call, pc, pool, cdata, cmap, in, open, smsgs, dropped,
                   mishap, invalid>>

(* Mutant: guids are equal if their first bytes are. *)
CorrelateAny(i, g) ==
    /\ in[i] = Idle /\ g \in wire
    /\ wire' = wire \ {g}
    /\ \E h \in DOMAIN cmap :
         /\ in' = [in EXCEPT ![i] = [guid |-> g, pld |-> cmap[h]]]
         /\ dropped' = dropped \cup {cmap[h]}
         /\ cmap' = Restrict(cmap, DOMAIN cmap \ {h})
    /\ UNCHANGED <<call, pc, pool, cdata, open, smsgs, mishap, invalid>>

(* The entry is found, and removed under the lock: the payload is not      *)
(* given back,                                                             *)
Correlate(i, g) ==
    /\ in[i] = Idle /\ g \in wire \cap DOMAIN cmap
    /\ wire' = wire \ {g}
    /\ in' = [in EXCEPT ![i] = [guid |-> g, pld |-> cmap[g]]]
    /\ dropped' = dropped \cup {cmap[g]}
    /\ cmap' = Restrict(cmap, DOMAIN cmap \ {g})
    /\ UNCHANGED <<call, pc, pool, cdata, open, smsgs, mishap, invalid>>

(* and the pointer to it is read from the entry that is gone.              *)
Reply(i) ==
    /\ in[i] # Idle /\ in' = [in EXCEPT ![i] = Idle]
    /\ LET cs == {cdata[in[i].pld]}
       IN call' = Finish(call, cs, in[i].guid) /\ mishap' = mishap \cup Twice(cs)
    /\ UNCHANGED <<pc, pool, cdata, cmap, wire, open, smsgs, dropped, invalid>>

Proceed(c) == Invalid(c) \/ Refuse(c) \/ SendFails(c) \/ Send(c) \/ Delete(c)

Next == \/ \E c \in Call : Request(c) \/ Proceed(c)
        \/ Store \/ Wake
        \/ \E gs \in SUBSET Guid : Expire(gs)
        \/ \E g \in Guid : \/ Sent(g) \/ Lose(g)
                            \/ \E i \in In : Correlate(i, g)
        \/ \E i \in In : Reply(i)

Spec == Init /\ [][Next]_vars

(* The gRPC thread looks at the map after each event, there are always     *)
(* further calls (Wake), and every entry grows old.                        *)
FairSpec ==
    /\ Spec
    /\ WF_vars(Store) /\ WF_vars(Wake)
    /\ WF_vars(\E gs \in SUBSET Guid : Expire(gs))
    /\ SF_vars(Expire(DOMAIN cmap))
    /\ \A i \in In : WF_vars(Reply(i))

-----------------------------------------------------------------------------
TypeOK ==
    /\ call \in [Call -> RPCBase]
    /\ pc.at \in {"next", "store", "expire"}
    /\ pc.guid \in Guid \cup {None} /\ pc.pld \in Payload \cup {None}
    /\ pool \subseteq Payload /\ cdata \in [Payload -> Call \cup {None}]
    /\ DOMAIN cmap \subseteq Guid /\ Range(cmap) \subseteq Payload
    /\ in \in [In -> [guid : Guid \cup {None}, pld : Payload \cup {None}]]
    /\ wire \subseteq Guid /\ open \subseteq Guid /\ smsgs \in 0 .. Messages
    /\ dropped \subseteq Payload /\ mishap \subseteq {"reused", "twice"}
    /\ invalid \in 0 .. MaxInvalid

(* A payload has one owner: it is free, in the map, on its way there or    *)
(* dropped, and no two entries share one; a message is free or its stream  *)
(* is open.  Only an answer and a failed send() drop a payload.            *)
OneOwner ==
    /\ TypeOK
    /\ Payload \subseteq pool \cup Range(cmap) \cup {pc.pld} \cup dropped
    /\ Cardinality(Payload) =
         Cardinality(pool) + Cardinality(DOMAIN cmap)
           + Cardinality({pc.pld} \ {None}) + Cardinality(dropped)
    /\ smsgs + Cardinality(open) = Messages

(* Finish() is called once for each call, by the IN thread or the gRPC     *)
(* thread, whichever takes the entry out of the map.                       *)
FinishedOnce == "twice" \in mishap => "reused" \in mishap

(* A client never gets the answer to another request, late answers         *)
(* included.                                                               *)
OwnAnswer ==
    \A c \in Call : call[c].by \in Guid =>
       call[c].by = call[c].guid \/ "reused" \in mishap

(* Whoever takes the entry of a call out of the map, the answer or the     *)
(* time-out, finishes this call and no other, and it alone does.           *)
AnsweredOnce == FinishedOnce /\ OwnAnswer

(* A call that has been sent is answered in the end, though its answer be  *)
(* lost or come before its entry is stored.                                *)
EveryCallEnds ==
    \A c \in Call :
       call[c].st = "pending" ~> call[c].st = "finish" \/ "reused" \in mishap
=============================================================================
