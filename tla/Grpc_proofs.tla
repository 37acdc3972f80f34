----------------------------- MODULE Grpc_proofs -----------------------------
(***************************************************************************)
(* What holds of the gateway with any number of calls, payloads, random    *)
(* numbers and IN threads: each payload and each service message has one   *)
(* owner, and as long as no erased entry of the correlation map is reused  *)
(* under an IN thread, each call is finished once and with its own answer. *)
(***************************************************************************)
EXTENDS Grpc, FiniteSetTheorems, TLAPS

(* TypeOK but for the number of free messages; an IN thread and the gRPC   *)
(* thread have both a number and a payload, or neither.                    *)
Typed ==
    /\ call \in [Call -> RPCBase]
    /\ \/ pc.at = "store" /\ pc.guid \in Guid /\ pc.pld \in Payload
                          /\ pc = [at |-> "store", guid |-> pc.guid, pld |-> pc.pld]
       \/ pc \in {At("next"), At("expire")}
    /\ pool \subseteq Payload /\ cdata \in [Payload -> Call \cup {None}]
    /\ DOMAIN cmap \subseteq Guid /\ cmap \in [DOMAIN cmap -> Payload]
    /\ in \in [In -> [guid : Guid, pld : Payload] \cup {Idle}]
    /\ wire \subseteq Guid /\ open \subseteq Guid
    /\ dropped \subseteq Payload /\ mishap \subseteq {"reused", "twice"}
    /\ invalid \in 0 .. MaxInvalid

(* Where a payload is: free, in the map, on its way there, or dropped.     *)
Apart ==
    /\ Payload = pool \cup Range(cmap) \cup ({pc.pld} \ {None}) \cup dropped
    /\ pool \cap Range(cmap) = {} /\ pool \cap dropped = {}
    /\ Range(cmap) \cap dropped = {}
    /\ pc.pld \notin pool \cup Range(cmap) \cup dropped
    /\ \A g, h \in DOMAIN cmap : cmap[g] = cmap[h] => g = h
    /\ pc.at = "store" => pc.guid \notin DOMAIN cmap

MessagesCounted == smsgs \in Nat /\ smsgs + Cardinality(open) = Messages

(* One call waits for the next request, and the object for the one after   *)
(* it is there.                                                            *)
OneSpare ==
    /\ \A c, d \in Call : call[c].st \in {"created", "requested"}
                            /\ call[d].st \in {"created", "requested"} => c = d
    /\ (\E c \in Call : call[c].st = "requested")
         => \E d \in Call : call[d].st = "none"

Unanswered == \A c \in Call : call[c].st # "finish" => call[c].by = None

(* The payload p carries the call that waits for the answer g.             *)
Carries(p, g) == /\ cdata[p] \in Call
                 /\ call[cdata[p]].st = "pending" /\ call[cdata[p]].guid = g

(* Each call that waits has its number in one place: the map, on its way   *)
(* there, or an IN thread that has taken it out.                           *)
Correlated ==
    /\ \A g \in DOMAIN cmap : Carries(cmap[g], g)
    /\ pc.at = "store" => Carries(pc.pld, pc.guid)
    /\ \A i \in In : in[i] # Idle =>
         /\ Carries(in[i].pld, in[i].guid) /\ in[i].pld \in dropped
         /\ in[i].guid \notin DOMAIN cmap /\ in[i].guid # pc.guid
         /\ \A j \in In : in[j] # Idle /\ in[j].guid = in[i].guid => i = j

Own == \A c \in Call : call[c].by \in Guid => call[c].by = call[c].guid

(* What is true until an erased entry is reused. *)
Answers == "reused" \notin mishap => mishap = {} /\ Correlated /\ Own

-----------------------------------------------------------------------------
(* The objects that a step takes.                                          *)

LEMMA SpawnedIs ==
    ASSUME OneSpare, NEW c \in Call, call[c].st = "requested"
    PROVE  \E d \in Call : /\ d # c /\ call[d].st = "none"
                           /\ Spawned = [call EXCEPT ![d] = Fresh("created")]
<1> DEFINE d == CHOOSE d \in Call : call[d].st = "none"
<1>1. d \in Call /\ call[d].st = "none"
  BY DEF OneSpare
<1> QED  BY <1>1 DEF Spawned

LEMMA AllocatedIs ==
    ASSUME pool # {}
    PROVE  Allocated \in pool
BY DEF Allocated

LEMMA RandomIs ==
    ASSUME Unused # {}
    PROVE  /\ Random \in Guid \ (wire \cup open \cup DOMAIN cmap)
           /\ \A c \in Call : call[c].guid # Random
           /\ \A i \in In : in[i].guid # Random
<1>1. Random \in Unused
  BY DEF Random
<1> QED  BY <1>1 DEF Unused

LEMMA CallType ==
    /\ \A st \in CallStatus : Fresh(st) \in RPCBase
    /\ \A x \in RPCBase, st \in CallStatus : [x EXCEPT !.st = st] \in RPCBase
    /\ \A x \in RPCBase, st \in CallStatus, by \in Guid \cup {None, "aborted"} :
         [x EXCEPT !.st = st, !.by = by] \in RPCBase
BY DEF Fresh, RPCBase

LEMMA StatusType ==
    ASSUME NEW calls \in [Call -> RPCBase], NEW c \in Call, NEW st \in CallStatus
    PROVE  /\ [calls EXCEPT ![c].st = st] \in [Call -> RPCBase]
           /\ \A g \in Guid :
                [calls EXCEPT ![c].st = st, ![c].guid = g] \in [Call -> RPCBase]
<1>1. [calls[c] EXCEPT !.st = st] \in RPCBase
  BY CallType
<1>2. ASSUME NEW g \in Guid
      PROVE  [calls EXCEPT ![c].st = st, ![c].guid = g] \in [Call -> RPCBase]
  <2>1. [calls[c] EXCEPT !.st = st, !.guid = g] \in RPCBase
    BY DEF RPCBase
  <2>2. [calls EXCEPT ![c].st = st, ![c].guid = g]
          = [calls EXCEPT ![c] = [calls[c] EXCEPT !.st = st, !.guid = g]]
    BY DEF RPCBase
  <2> QED  BY <2>1, <2>2
<1> QED  BY <1>1, <1>2

LEMMA FinishType ==
    ASSUME NEW calls \in [Call -> RPCBase], NEW cs,
           NEW by \in Guid \cup {None, "aborted"}
    PROVE  Finish(calls, cs, by) \in [Call -> RPCBase]
BY CallType DEF Finish, CallStatus

(* Whatever fields of the calls a step sets, they stay calls.              *)
LEMMA ProceedType ==
    ASSUME call \in [Call -> RPCBase], OneSpare,
           NEW c \in Call, call[c].st = "requested"
    PROVE  /\ Spawned \in [Call -> RPCBase] /\ Spawned[c] = call[c]
           /\ [Spawned EXCEPT ![c].st = "unanswered"] \in [Call -> RPCBase]
           /\ \A g \in Guid : [Spawned EXCEPT ![c].st = "pending", ![c].guid = g]
                                \in [Call -> RPCBase]
           /\ Finish(Spawned, {c}, "aborted") \in [Call -> RPCBase]
<1>1. Spawned \in [Call -> RPCBase] /\ Spawned[c] = call[c]
  BY SpawnedIs, CallType DEF CallStatus
<1>2. [Spawned EXCEPT ![c].st = "unanswered"] \in [Call -> RPCBase]
  BY <1>1, StatusType DEF CallStatus
<1>3. ASSUME NEW g \in Guid
      PROVE  [Spawned EXCEPT ![c].st = "pending", ![c].guid = g] \in [Call -> RPCBase]
  BY <1>1, StatusType DEF CallStatus
<1> QED  BY <1>1, <1>2, <1>3, FinishType

LEMMA RestrictType ==
    ASSUME cmap \in [DOMAIN cmap -> Payload], NEW S \in SUBSET DOMAIN cmap
    PROVE  /\ DOMAIN Restrict(cmap, S) = S
           /\ Restrict(cmap, S) \in [S -> Payload]
           /\ \A g \in S : Restrict(cmap, S)[g] = cmap[g]
BY DEF Restrict

-----------------------------------------------------------------------------
(* Types.                                                                  *)

LEMMA InitTyped == Init => Typed /\ OneSpare
<1> SUFFICES ASSUME Init PROVE Typed /\ OneSpare
  OBVIOUS
<1>1. \A st \in CallStatus : Fresh(st) \in RPCBase
  BY CallType
<1> DEFINE first == CHOOSE d \in Call : TRUE
<1>2. \A c \in Call : \/ call[c] = Fresh("created") /\ c = first
                      \/ call[c] = Fresh("none")
  BY DEF Init
<1>3. call \in [Call -> RPCBase]
  BY <1>1, <1>2 DEF Init, CallStatus
<1> HIDE DEF first
<1>4. OneSpare
  BY <1>2 DEF OneSpare, Fresh
<1>5. cmap \in [DOMAIN cmap -> Payload] /\ DOMAIN cmap \subseteq Guid
  BY DEF Init
<1>6. in \in [In -> [guid : Guid, pld : Payload] \cup {Idle}]
  BY DEF Init
<1> QED  BY <1>3, <1>4, <1>5, <1>6, SizesAssumption DEF Init, Typed

LEMMA NextTyped == Typed /\ OneSpare /\ [Next]_vars => Typed'
<1> SUFFICES ASSUME Typed, OneSpare, [Next]_vars PROVE Typed'
  OBVIOUS
<1> USE DEF Typed
<1>1. ASSUME NEW c \in Call, Request(c) PROVE Typed'
  BY <1>1, StatusType DEF Request, CallStatus
<1>2. ASSUME NEW c \in Call, Invalid(c) PROVE Typed'
  <2>1. call' \in [Call -> RPCBase]
    BY <1>2, ProceedType DEF Invalid
  <2>2. invalid' \in 0 .. MaxInvalid
    BY <1>2, SizesAssumption DEF Invalid
  <2> QED  BY <1>2, <2>1, <2>2 DEF Invalid
<1>3. ASSUME NEW c \in Call, Refuse(c) PROVE Typed'
  BY <1>3, ProceedType DEF Refuse
<1>4. ASSUME NEW c \in Call, SendFails(c) PROVE Typed'
  BY <1>4, ProceedType, AllocatedIs DEF SendFails
<1>5. ASSUME NEW c \in Call, Send(c) PROVE Typed'
  <2>1. Random \in Guid /\ Allocated \in pool
    BY <1>5, RandomIs, AllocatedIs DEF Send
  <2>2. call' \in [Call -> RPCBase]
    BY <1>5, <2>1, ProceedType DEF Send
  <2> QED  BY <1>5, <2>1, <2>2 DEF Send
<1>6. CASE Store
  <2>1. in' \in [In -> [guid : Guid, pld : Payload] \cup {Idle}]
    BY <1>6 DEF Store, At
  <2> QED  BY <1>6, <2>1 DEF Store, At
<1>7. ASSUME NEW gs \in SUBSET Guid, Expire(gs) PROVE Typed'
  <2>1. Restrict(cmap, DOMAIN cmap \ gs) \in [DOMAIN cmap \ gs -> Payload]
    BY RestrictType
  <2>2. call' \in [Call -> RPCBase] /\ mishap' \subseteq {"reused", "twice"}
    BY <1>7, FinishType DEF Expire, Twice
  <2>3. DOMAIN cmap' = DOMAIN cmap \ gs
    BY <1>7, RestrictType DEF Expire
  <2> QED  BY <1>7, <2>1, <2>2, <2>3 DEF Expire
<1>8. ASSUME NEW c \in Call, Delete(c) PROVE Typed'
  BY <1>8, CallType DEF Delete, CallStatus
<1>9. CASE Wake
  BY <1>9 DEF Wake
<1>10. ASSUME NEW g \in Guid, Sent(g) \/ Lose(g) PROVE Typed'
  BY <1>10 DEF Sent, Lose
<1>11. ASSUME NEW i \in In, NEW g \in Guid, Correlate(i, g) PROVE Typed'
  <2>1. g \in DOMAIN cmap /\ cmap' = Restrict(cmap, DOMAIN cmap \ {g})
    BY <1>11 DEF Correlate
  <2>2. /\ DOMAIN cmap' = DOMAIN cmap \ {g}
        /\ cmap' \in [DOMAIN cmap \ {g} -> Payload]
    BY <2>1, RestrictType
  <2> QED  BY <1>11, <2>1, <2>2 DEF Correlate
<1>12. ASSUME NEW i \in In, Reply(i) PROVE Typed'
  <2>1. in[i].guid \in Guid
    BY <1>12 DEF Reply
  <2>2. call' \in [Call -> RPCBase] /\ mishap' \subseteq {"reused", "twice"}
    BY <1>12, <2>1, FinishType DEF Reply, Twice
  <2> QED  BY <1>12, <2>2 DEF Reply
<1>13. CASE UNCHANGED vars
  BY <1>13 DEF vars
<1> QED  BY <1>1, <1>2, <1>3, <1>4, <1>5, <1>6, <1>7, <1>8, <1>9, <1>10, <1>11,
            <1>12, <1>13 DEF Next, Proceed

(* A call other than the one that a step is about keeps its state.         *)
LEMMA FinishKeeps ==
    ASSUME NEW calls \in [Call -> RPCBase], NEW cs, NEW by, NEW c \in Call
    PROVE  /\ Finish(calls, cs, by)[c].guid = calls[c].guid
           /\ \/ Finish(calls, cs, by)[c] = calls[c]
              \/ /\ c \in cs /\ calls[c].st \in {"requested", "pending"}
                 /\ Finish(calls, cs, by)[c].st = "finish"
                 /\ Finish(calls, cs, by)[c].by = by
           /\ c \in cs /\ calls[c].st \in {"requested", "pending"}
                => Finish(calls, cs, by)[c].st = "finish"
BY DEF Finish, RPCBase

(* proceed() makes the next call wait, and leaves those alone that have    *)
(* been sent.                                                              *)
LEMMA ProceedKeeps ==
    ASSUME call \in [Call -> RPCBase], OneSpare, NEW c \in Call,
           Invalid(c) \/ Refuse(c) \/ SendFails(c) \/ Send(c)
    PROVE  /\ call[c].st = "requested"
           /\ call'[c].st \in {"unanswered", "finish", "pending"}
           /\ call'[c].st # "finish" => call'[c].by = call[c].by
           /\ call'[c].st = "finish" => call'[c].by = "aborted"
           /\ call'[c].st = "pending" => Send(c) /\ call'[c].guid = Random
           /\ \E d \in Call : /\ d # c /\ call[d].st = "none"
                              /\ call'[d] = Fresh("created")
                              /\ \A x \in Call \ {c, d} : call'[x] = call[x]
<1>1. call[c].st = "requested"
  BY DEF Invalid, Refuse, SendFails, Send
<1>2. PICK d \in Call : /\ d # c /\ call[d].st = "none"
                        /\ Spawned = [call EXCEPT ![d] = Fresh("created")]
  BY <1>1, SpawnedIs
<1>3. Spawned \in [Call -> RPCBase]
  BY <1>1, ProceedType
<1>4. CASE Invalid(c)
  BY <1>1, <1>2, <1>3, <1>4 DEF Invalid, RPCBase
<1>5. CASE Refuse(c) \/ SendFails(c)
  <2>1. call' = Finish(Spawned, {c}, "aborted")
    BY <1>5 DEF Refuse, SendFails
  <2>2. call'[c].st = "finish" /\ call'[c].by = "aborted"
    BY <1>1, <1>2, <1>3, <2>1 DEF Finish, RPCBase
  <2>3. \A x \in Call \ {c} : call'[x] = Spawned[x]
    BY <2>1 DEF Finish
  <2> QED  BY <1>1, <1>2, <2>2, <2>3
<1>6. CASE Send(c)
  <2>1. call' = [Spawned EXCEPT ![c].st = "pending", ![c].guid = Random]
    BY <1>6 DEF Send
  <2>2. /\ call'[c].st = "pending" /\ call'[c].by = call[c].by
        /\ call'[c].guid = Random
    BY <1>2, <1>3, <2>1 DEF RPCBase
  <2>3. \A x \in Call \ {c} : call'[x] = Spawned[x]
    BY <1>3, <2>1
  <2> QED  BY <1>1, <1>2, <1>6, <2>2, <2>3
<1> QED  BY <1>4, <1>5, <1>6

(* What a step may do to a call's state.                                   *)
CallSteps ==
    \/ \E c \in Call : /\ call[c].st = "created" /\ call'[c].st = "requested"
                       /\ call'[c].by = call[c].by
                       /\ \E d \in Call : call[d].st = "none"
                       /\ \A x \in Call \ {c} : call'[x] = call[x]
    \/ \E c, d \in Call :
         /\ d # c /\ call[c].st = "requested" /\ call[d].st = "none"
         /\ call'[d] = Fresh("created")
         /\ call'[c].st \in {"unanswered", "finish", "pending"}
         /\ call'[c].st # "finish" => call'[c].by = call[c].by
         /\ \A x \in Call \ {c, d} : call'[x] = call[x]
    \/ \A c \in Call : \/ call'[c] = call[c]
                       \/ /\ call[c].st \in {"requested", "pending"}
                          /\ call'[c].st = "finish"
    \/ \E c \in Call : /\ call'[c] = Fresh("none")
                       /\ \A x \in Call \ {c} : call'[x] = call[x]

LEMMA NextCalls == Typed /\ OneSpare /\ [Next]_vars => CallSteps
<1> SUFFICES ASSUME Typed, OneSpare, [Next]_vars PROVE CallSteps
  OBVIOUS
<1> USE DEF Typed
<1>1. ASSUME NEW c \in Call, Request(c) PROVE CallSteps
  BY <1>1 DEF Request, RPCBase, CallSteps
<1>2. ASSUME NEW c \in Call, Invalid(c) \/ Refuse(c) \/ SendFails(c) \/ Send(c)
      PROVE  CallSteps
  BY <1>2, ProceedKeeps DEF CallSteps
<1>3. ASSUME NEW c \in Call, Delete(c) PROVE CallSteps
  BY <1>3 DEF Delete, CallSteps
<1>4. ASSUME NEW cs, NEW by, call' = Finish(call, cs, by) PROVE CallSteps
  BY <1>4, FinishKeeps DEF CallSteps
<1>5. ASSUME NEW gs \in SUBSET Guid, Expire(gs) PROVE CallSteps
  BY <1>4, <1>5 DEF Expire
<1>6. ASSUME NEW i \in In, Reply(i) PROVE CallSteps
  BY <1>4, <1>6 DEF Reply
<1>7. CASE UNCHANGED call
  BY <1>7 DEF CallSteps
<1>8. CASE Store \/ Wake \/ UNCHANGED vars
  BY <1>7, <1>8 DEF Store, Wake, vars
<1>9. ASSUME NEW g \in Guid, NEW i \in In, Sent(g) \/ Lose(g) \/ Correlate(i, g)
      PROVE  CallSteps
  BY <1>7, <1>9 DEF Sent, Lose, Correlate
<1>10. ASSUME NEW g \in Guid, Sent(g) \/ Lose(g) PROVE  CallSteps
  BY <1>7, <1>10 DEF Sent, Lose
<1> QED  BY <1>1, <1>2, <1>3, <1>5, <1>6, <1>8, <1>9, <1>10 DEF Next, Proceed

LEMMA NextOneSpare == OneSpare /\ CallSteps => OneSpare'
<1> SUFFICES ASSUME OneSpare, CallSteps PROVE OneSpare'
  OBVIOUS
<1> USE DEF OneSpare
<1>1. ASSUME NEW c \in Call, call[c].st = "created", call'[c].st = "requested",
             \E d \in Call : call[d].st = "none",
             \A x \in Call \ {c} : call'[x] = call[x]
      PROVE  OneSpare'
  BY <1>1
<1>2. ASSUME NEW c \in Call, NEW d \in Call, d # c,
             call[c].st = "requested", call[d].st = "none",
             call'[d] = Fresh("created"),
             call'[c].st \in {"unanswered", "finish", "pending"},
             \A x \in Call \ {c, d} : call'[x] = call[x]
      PROVE  OneSpare'
  <2>1. \A x \in Call : call'[x].st \in {"created", "requested"} => x = d
    BY <1>2
  <2>2. call'[d].st = "created"
    BY <1>2 DEF Fresh
  <2> QED  BY <2>1, <2>2
<1>3. ASSUME \A c \in Call : \/ call'[c] = call[c]
                             \/ /\ call[c].st \in {"requested", "pending"}
                                /\ call'[c].st = "finish"
      PROVE  OneSpare'
  <2>1. ASSUME NEW c \in Call, call'[c].st \in {"created", "requested"}
        PROVE  call'[c] = call[c]
    BY <1>3, <2>1
  <2>2. ASSUME NEW c \in Call, call[c].st = "none" PROVE call'[c].st = "none"
    BY <1>3, <2>2
  <2> QED  BY <2>1, <2>2
<1>4. ASSUME NEW c \in Call, call'[c] = Fresh("none"),
             \A x \in Call \ {c} : call'[x] = call[x]
      PROVE  OneSpare'
  BY <1>4 DEF Fresh
<1> QED  BY <1>1, <1>2, <1>3, <1>4 DEF CallSteps

LEMMA NextUnanswered == Unanswered /\ CallSteps => Unanswered'
BY DEF Unanswered, CallSteps, Fresh

-----------------------------------------------------------------------------
(* The owners.                                                             *)

(* What is left of the map when some entries are taken out.                *)
LEMMA TakenOut ==
    ASSUME Typed, Apart, NEW gs \in SUBSET DOMAIN cmap,
           cmap' = Restrict(cmap, DOMAIN cmap \ gs)
    PROVE  /\ DOMAIN cmap' = DOMAIN cmap \ gs
           /\ \A g \in DOMAIN cmap' : cmap'[g] = cmap[g]
           /\ Range(cmap) = Range(cmap') \cup {cmap[g] : g \in gs}
           /\ Range(cmap') \cap {cmap[g] : g \in gs} = {}
<1>1. /\ DOMAIN cmap' = DOMAIN cmap \ gs
      /\ \A g \in DOMAIN cmap' : cmap'[g] = cmap[g]
  BY RestrictType DEF Typed
<1>2. Range(cmap') = {cmap[g] : g \in DOMAIN cmap \ gs}
  BY <1>1 DEF Range
<1> QED  BY <1>1, <1>2 DEF Apart, Range

LEMMA InitApart == Init => Apart /\ MessagesCounted
<1> SUFFICES ASSUME Init PROVE Apart /\ MessagesCounted
  OBVIOUS
<1>1. Range(cmap) = {} /\ DOMAIN cmap = {}
  BY DEF Init, Range
<1>2. Apart
  BY <1>1, MarkAssumption DEF Init, Apart, At
<1> QED  BY <1>2, FS_EmptySet, SizesAssumption DEF Init, MessagesCounted

LEMMA NextApart == Typed /\ Apart /\ [Next]_vars => Apart'
<1> SUFFICES ASSUME Typed, Apart, [Next]_vars PROVE Apart'
  OBVIOUS
<1>1. ASSUME UNCHANGED <<pool, cmap, dropped>>, pc' = pc \/ pc' = At("expire"),
             pc.at = "next" \/ pc' = pc
      PROVE  Apart'
  <2>1. pc'.pld = pc.pld /\ (pc'.at = "store" => pc' = pc)
    BY <1>1 DEF Typed, At
  <2> QED  BY <1>1, <2>1 DEF Apart
<1>2. ASSUME NEW c \in Call, Request(c) \/ Invalid(c) \/ Refuse(c) \/ Delete(c)
      PROVE  Apart'
  BY <1>1, <1>2 DEF Request, Invalid, Refuse, Delete
<1>3. CASE Wake \/ UNCHANGED vars
  BY <1>1, <1>3 DEF Wake, vars
<1>4. ASSUME NEW g \in Guid, Sent(g) \/ Lose(g) PROVE Apart'
  BY <1>1, <1>4 DEF Sent, Lose
<1>5. ASSUME NEW i \in In, Reply(i) PROVE Apart'
  BY <1>1, <1>5 DEF Reply
<1>6. ASSUME NEW c \in Call, SendFails(c) PROVE Apart'
  <2>1. pc.pld = None /\ pc'.pld = None /\ pc'.at # "store"
    BY <1>6 DEF SendFails, Typed, At
  <2>2. Allocated \in pool
    BY <1>6, AllocatedIs DEF SendFails
  <2> QED  BY <1>6, <2>1, <2>2 DEF SendFails, Apart
<1>7. ASSUME NEW c \in Call, Send(c) PROVE Apart'
  <2>1. pc.pld = None /\ pc'.pld = Allocated /\ pc'.guid = Random
    BY <1>7 DEF Send, Typed, At
  <2>2. Allocated \in pool /\ Random \notin DOMAIN cmap
    BY <1>7, AllocatedIs, RandomIs DEF Send
  <2>3. Allocated # None
    BY <2>2, MarkAssumption DEF Typed
  <2> QED  BY <1>7, <2>1, <2>2, <2>3 DEF Send, Apart
<1>8. CASE Store
  <2>1. pc.pld \in Payload /\ pc.pld # None /\ pc'.pld = None /\ pc'.at # "store"
    BY <1>8, MarkAssumption DEF Store, Typed, At
  <2>2. /\ DOMAIN cmap' = DOMAIN cmap \cup {pc.guid} /\ cmap'[pc.guid] = pc.pld
        /\ \A g \in DOMAIN cmap : cmap'[g] = cmap[g]
    BY <1>8 DEF Store, Apart
  <2>3. Range(cmap') = Range(cmap) \cup {pc.pld}
    BY <2>2 DEF Range
  <2>4. \A g, h \in DOMAIN cmap' : cmap'[g] = cmap'[h] => g = h
    BY <2>2 DEF Apart, Range
  <2>5. pool' = pool /\ dropped' = dropped
    BY <1>8 DEF Store
  <2>6. Payload = pool' \cup Range(cmap') \cup ({pc'.pld} \ {None}) \cup dropped'
    BY <2>1, <2>3, <2>5 DEF Apart
  <2>7. pc'.pld \notin pool' \cup Range(cmap') \cup dropped'
    BY <2>1, <2>6, <2>3, <2>5, MarkAssumption DEF Typed, Apart
  <2> QED  BY <2>1, <2>3, <2>4, <2>5, <2>6, <2>7 DEF Apart
<1>9. ASSUME NEW gs \in SUBSET Guid, Expire(gs) PROVE Apart'
  <2>1. pc.pld = None /\ pc'.pld = None /\ pc'.at # "store"
    BY <1>9 DEF Expire, Typed, At
  <2>2. /\ DOMAIN cmap' = DOMAIN cmap \ gs
        /\ \A g \in DOMAIN cmap' : cmap'[g] = cmap[g]
        /\ Range(cmap) = Range(cmap') \cup {cmap[g] : g \in gs}
        /\ Range(cmap') \cap {cmap[g] : g \in gs} = {}
    BY <1>9, TakenOut DEF Expire
  <2> QED  BY <1>9, <2>1, <2>2 DEF Expire, Apart
<1>10. ASSUME NEW i \in In, NEW g \in Guid, Correlate(i, g) PROVE Apart'
  <2>1. /\ DOMAIN cmap' = DOMAIN cmap \ {g}
        /\ \A h \in DOMAIN cmap' : cmap'[h] = cmap[h]
        /\ Range(cmap) = Range(cmap') \cup {cmap[g]}
        /\ Range(cmap') \cap {cmap[g]} = {}
    <3>1. {g} \in SUBSET DOMAIN cmap /\ {cmap[h] : h \in {g}} = {cmap[g]}
      BY <1>10 DEF Correlate
    <3>2. cmap' = Restrict(cmap, DOMAIN cmap \ {g})
      BY <1>10 DEF Correlate
    <3> QED  BY <3>1, <3>2, TakenOut
  <2> QED  BY <1>10, <2>1 DEF Correlate, Apart
<1> QED  BY <1>2, <1>3, <1>4, <1>5, <1>6, <1>7, <1>8, <1>9, <1>10
         DEF Next, Proceed

LEMMA NextCounted == Typed /\ MessagesCounted /\ [Next]_vars => MessagesCounted'
<1> SUFFICES ASSUME Typed, MessagesCounted, [Next]_vars PROVE MessagesCounted'
  OBVIOUS
<1>0. IsFiniteSet(open) /\ Cardinality(open) \in Nat /\ Messages \in Nat
  BY SizesAssumption, FS_Subset, FS_CardinalityType DEF Typed
<1>1. CASE UNCHANGED <<open, smsgs>>
  BY <1>1 DEF MessagesCounted
<1>2. ASSUME NEW c \in Call, Send(c) PROVE MessagesCounted'
  <2>1. Random \notin open
    BY <1>2, RandomIs DEF Send
  <2>2. Cardinality(open \cup {Random}) = Cardinality(open) + 1
    BY <1>0, <2>1, FS_AddElement
  <2> QED  BY <1>0, <1>2, <2>2 DEF Send, MessagesCounted
<1>3. ASSUME NEW g \in Guid, Sent(g) PROVE MessagesCounted'
  <2>1. Cardinality(open \ {g}) = Cardinality(open) - 1
    BY <1>0, <1>3, FS_RemoveElement DEF Sent
  <2> QED  BY <1>0, <1>3, <2>1 DEF Sent, MessagesCounted
<1>4. ASSUME NEW c \in Call,
             Request(c) \/ Invalid(c) \/ Refuse(c) \/ SendFails(c) \/ Delete(c)
      PROVE  MessagesCounted'
  BY <1>1, <1>4 DEF Request, Invalid, Refuse, SendFails, Delete
<1>5. CASE Store \/ Wake \/ UNCHANGED vars
  BY <1>1, <1>5 DEF Store, Wake, vars
<1>6. ASSUME NEW gs \in SUBSET Guid, Expire(gs) PROVE MessagesCounted'
  BY <1>1, <1>6 DEF Expire
<1>7. ASSUME NEW g \in Guid, Lose(g) \/ \E i \in In : Correlate(i, g)
      PROVE  MessagesCounted'
  BY <1>1, <1>7 DEF Lose, Correlate
<1>8. ASSUME NEW i \in In, Reply(i) PROVE MessagesCounted'
  BY <1>1, <1>8 DEF Reply
<1> QED  BY <1>2, <1>3, <1>4, <1>5, <1>6, <1>7, <1>8 DEF Next, Proceed

LEMMA UnionCounted ==
    ASSUME NEW S, NEW T, IsFiniteSet(S), IsFiniteSet(T), S \cap T = {}
    PROVE  /\ Cardinality(S \cup T) = Cardinality(S) + Cardinality(T)
           /\ IsFiniteSet(S \cup T)
<1>1. Cardinality(S) \in Nat /\ Cardinality(T) \in Nat
  BY FS_CardinalityType
<1>2. Cardinality(S \cap T) = 0
  BY FS_EmptySet
<1> QED  BY <1>1, <1>2, FS_Union

(* Sets that are apart are counted one by one.                             *)
LEMMA Counted ==
    ASSUME Typed, Apart
    PROVE  Cardinality(Payload) =
             Cardinality(pool) + Cardinality(DOMAIN cmap)
               + Cardinality({pc.pld} \ {None}) + Cardinality(dropped)
<1> DEFINE way == {pc.pld} \ {None}
<1>1. pc.pld \in Payload \cup {None}
  BY DEF Typed, At
<1>2. /\ pool \subseteq Payload /\ Range(cmap) \subseteq Payload
      /\ way \subseteq Payload /\ dropped \subseteq Payload
  BY <1>1 DEF Typed, Range
<1>3. /\ IsFiniteSet(pool) /\ IsFiniteSet(Range(cmap)) /\ IsFiniteSet(way)
      /\ IsFiniteSet(dropped)
  BY <1>2, SizesAssumption, FS_Subset
<1> HIDE DEF way
<1>4. Cardinality(DOMAIN cmap) = Cardinality(Range(cmap))
  <2>1. cmap \in Bijection(DOMAIN cmap, Range(cmap))
    BY DEF Typed, Apart, Range, Bijection, Injection, Surjection, IsInjective
  <2>2. ExistsBijection(DOMAIN cmap, Range(cmap))
    BY <2>1 DEF ExistsBijection
  <2>3. IsFiniteSet(DOMAIN cmap)
    BY SizesAssumption, FS_Subset DEF Typed
  <2> QED  BY <2>2, <2>3, FS_Bijection
<1>5. /\ Cardinality(pool \cup Range(cmap)) = Cardinality(pool) + Cardinality(Range(cmap))
      /\ IsFiniteSet(pool \cup Range(cmap))
  BY <1>3, UnionCounted DEF Apart
<1>6. /\ Cardinality((pool \cup Range(cmap)) \cup way)
            = Cardinality(pool \cup Range(cmap)) + Cardinality(way)
      /\ IsFiniteSet((pool \cup Range(cmap)) \cup way)
  <2>1. (pool \cup Range(cmap)) \cap way = {}
    BY DEF Apart, way
  <2> QED  BY <1>3, <1>5, <2>1, UnionCounted
<1>7. Cardinality(((pool \cup Range(cmap)) \cup way) \cup dropped)
        = Cardinality((pool \cup Range(cmap)) \cup way) + Cardinality(dropped)
  <2>1. ((pool \cup Range(cmap)) \cup way) \cap dropped = {}
    BY DEF Apart, way
  <2> QED  BY <1>3, <1>6, <2>1, UnionCounted
<1>8. Payload = ((pool \cup Range(cmap)) \cup way) \cup dropped
  BY DEF Apart, way
<1>9. Cardinality(pool) \in Nat /\ Cardinality(Range(cmap)) \in Nat
      /\ Cardinality(way) \in Nat /\ Cardinality(dropped) \in Nat
  BY <1>3, FS_CardinalityType
<1> QED  BY <1>4, <1>5, <1>6, <1>7, <1>8, <1>9 DEF way

LEMMA OwnersKnown == Typed /\ Apart /\ MessagesCounted => OneOwner
<1> SUFFICES ASSUME Typed, Apart, MessagesCounted PROVE OneOwner
  OBVIOUS
<1>1. TypeOK
  <2>1. Range(cmap) \subseteq Payload
    BY DEF Typed, Range
  <2>2. in \in [In -> [guid : Guid \cup {None}, pld : Payload \cup {None}]]
    BY DEF Typed, Idle
  <2>3. smsgs \in 0 .. Messages
    <3>1. Cardinality(open) \in Nat
      BY SizesAssumption, FS_Subset, FS_CardinalityType DEF Typed
    <3> QED  BY <3>1, SizesAssumption DEF MessagesCounted
  <2>4. /\ pc.at \in {"next", "store", "expire"}
        /\ pc.guid \in Guid \cup {None} /\ pc.pld \in Payload \cup {None}
    BY DEF Typed, At
  <2> QED  BY <2>1, <2>2, <2>3, <2>4 DEF Typed, TypeOK
<1>2. Payload \subseteq pool \cup Range(cmap) \cup {pc.pld} \cup dropped
  BY DEF Apart
<1> QED  BY <1>1, <1>2, Counted DEF OneOwner, MessagesCounted

(* A payload has one owner, and so has a service message: the pool, the    *)
(* map, the thread on its way to the map, or nobody for good (Property     *)
(* OneOwner of Grpc).                                                      *)
THEOREM OwnerCorrect == Spec => []OneOwner
<1> DEFINE IInv == Typed /\ OneSpare /\ Apart /\ MessagesCounted
<1>1. Init => IInv
  BY InitTyped, InitApart
<1>2. IInv /\ [Next]_vars => IInv'
  BY NextTyped, NextCalls, NextOneSpare, NextApart, NextCounted
<1>3. IInv => OneOwner
  BY OwnersKnown
<1> QED  BY <1>1, <1>2, <1>3, PTL DEF Spec

-----------------------------------------------------------------------------
(* The answers.                                                            *)

(* The calls that wait are left alone, and so are their payloads.          *)
Undisturbed ==
    /\ \A c \in Call : call[c].st = "pending" => call'[c] = call[c]
    /\ \A p \in Payload \ pool : cdata'[p] = cdata[p]

LEMMA StillCarried ==
    ASSUME Undisturbed
    PROVE  \A p \in Payload \ pool, g \in Guid : Carries(p, g) => Carries(p, g)'
BY DEF Undisturbed, Carries

(* The payloads that carry a call are not free.                            *)
LEMMA NotFree ==
    ASSUME Typed, Apart, Correlated
    PROVE  /\ \A g \in DOMAIN cmap : cmap[g] \in Payload \ pool
           /\ pc.at = "store" => pc.pld \in Payload \ pool
           /\ \A i \in In : in[i] # Idle =>
                /\ in[i].pld \in Payload \ pool /\ in[i].guid \in Guid
                /\ in[i].guid # None
<1>1. \A g \in DOMAIN cmap : cmap[g] \in Payload \ pool
  BY DEF Typed, Apart, Range
<1>2. pc.at = "store" => pc.pld \in Payload \ pool
  BY DEF Typed, Apart, At
<1>3. ASSUME NEW i \in In, in[i] # Idle
      PROVE  in[i].pld \in Payload \ pool /\ in[i].guid \in Guid /\ in[i].guid # None
  BY <1>3, MarkAssumption DEF Typed, Apart, Correlated
<1> QED  BY <1>1, <1>2, <1>3

(* A step that takes no entry out of the map and adds none.                *)
LEMMA QuietCorrelated ==
    ASSUME Typed, Apart, Correlated, Undisturbed,
           UNCHANGED <<cmap, in>>, dropped \subseteq dropped',
           pc' = pc \/ pc' = At("expire")
    PROVE  Correlated'
<1>1. \A g \in DOMAIN cmap' : Carries(cmap[g], g)'
  <2>1. ASSUME NEW g \in DOMAIN cmap PROVE Carries(cmap[g], g)'
    <3>1. cmap[g] \in Payload \ pool /\ g \in Guid /\ Carries(cmap[g], g)
      BY NotFree DEF Correlated, Typed
    <3> QED  BY <3>1, StillCarried DEF Carries
  <2> QED  BY <2>1
<1>2. pc'.at = "store" => Carries(pc.pld, pc.guid)'
  <2> SUFFICES ASSUME pc'.at = "store" PROVE Carries(pc.pld, pc.guid)'
    OBVIOUS
  <2>1. pc' = pc
    BY DEF At
  <2>2. pc.pld \in Payload \ pool /\ pc.guid \in Guid /\ Carries(pc.pld, pc.guid)
    BY <2>1, NotFree DEF Correlated, Typed, At
  <2> QED  BY <2>1, <2>2, StillCarried DEF Carries
<1>3. ASSUME NEW i \in In, in[i] # Idle
      PROVE  /\ Carries(in[i].pld, in[i].guid)' /\ in[i].pld \in dropped'
             /\ in[i].guid \notin DOMAIN cmap' /\ in[i].guid # pc'.guid
  <2>1. /\ in[i].pld \in Payload \ pool /\ in[i].guid \in Guid
        /\ in[i].guid # None /\ Carries(in[i].pld, in[i].guid)
    BY <1>3, NotFree DEF Correlated
  <2>2. Carries(in[i].pld, in[i].guid)'
    BY <2>1, StillCarried DEF Carries
  <2>3. in[i].guid # pc'.guid
    BY <1>3, <2>1 DEF Correlated, At
  <2> QED  BY <1>3, <2>2, <2>3 DEF Correlated
<1> QED  BY <1>1, <1>2, <1>3 DEF Correlated

(* The request is on its way to the map: nobody else has its number.       *)
LEMMA SendCorrelated ==
    ASSUME Typed, OneSpare, Apart, Correlated, NEW c \in Call, Send(c)
    PROVE  Undisturbed /\ Correlated'
<1>1. /\ Allocated \in pool /\ Random \in Guid /\ Random \notin DOMAIN cmap
      /\ \A i \in In : in[i].guid # Random
  BY AllocatedIs, RandomIs DEF Send
<1>2. Undisturbed
  <2>1. \A x \in Call : call[x].st = "pending" => call'[x] = call[x]
    BY ProceedKeeps DEF Typed
  <2>2. \A p \in Payload \ pool : cdata'[p] = cdata[p]
    BY <1>1 DEF Send, Typed
  <2> QED  BY <2>1, <2>2 DEF Undisturbed
<1>3. pc' = [at |-> "store", guid |-> Random, pld |-> Allocated]
      /\ cmap' = cmap /\ in' = in /\ dropped' = dropped
  BY DEF Send
<1>4. Carries(pc.pld, pc.guid)'
  <2>1. cdata'[Allocated] = c
    BY <1>1 DEF Send, Typed
  <2>2. call'[c].st = "pending" /\ call'[c].guid = Random
    <3>1. /\ Spawned \in [Call -> RPCBase]
          /\ call' = [Spawned EXCEPT ![c].st = "pending", ![c].guid = Random]
      BY ProceedType DEF Send, Typed
    <3> QED  BY <3>1 DEF RPCBase
  <2> QED  BY <1>3, <2>1, <2>2 DEF Carries
<1>5. \A g \in DOMAIN cmap' : Carries(cmap[g], g)'
  <2>1. ASSUME NEW g \in DOMAIN cmap PROVE Carries(cmap[g], g)'
    <3>1. cmap[g] \in Payload \ pool /\ g \in Guid /\ Carries(cmap[g], g)
      BY NotFree DEF Correlated, Typed
    <3> QED  BY <1>2, <1>3, <3>1, StillCarried DEF Carries
  <2> QED  BY <1>3, <2>1
<1>6. ASSUME NEW i \in In, in[i] # Idle
      PROVE  Carries(in[i].pld, in[i].guid)' /\ in[i].guid # pc'.guid
  <2>1. /\ in[i].pld \in Payload \ pool /\ in[i].guid \in Guid
        /\ Carries(in[i].pld, in[i].guid)
    BY <1>6, NotFree DEF Correlated
  <2>2. Carries(in[i].pld, in[i].guid)'
    BY <1>2, <1>3, <2>1, StillCarried DEF Carries
  <2> QED  BY <1>1, <1>3, <2>2
<1>7. Correlated'
  BY <1>3, <1>4, <1>5, <1>6 DEF Correlated
<1> QED  BY <1>2, <1>7

(* It is stored under its own number.                                      *)
LEMMA StoreCorrelated ==
    ASSUME Typed, Apart, Correlated, Store, UNCHANGED in
    PROVE  Correlated'
<1>1. /\ pc.at = "store" /\ pc' = At("expire")
      /\ UNCHANGED <<call, cdata, dropped>>
      /\ DOMAIN cmap' = DOMAIN cmap \cup {pc.guid} /\ cmap'[pc.guid] = pc.pld
      /\ \A g \in DOMAIN cmap : cmap'[g] = cmap[g]
  BY DEF Store, Apart
<1>2. \A g \in DOMAIN cmap' : Carries(cmap[g], g)'
  BY <1>1 DEF Correlated, Carries
<1>3. ASSUME NEW i \in In, in[i] # Idle
      PROVE  /\ Carries(in[i].pld, in[i].guid)'
             /\ in[i].guid \notin DOMAIN cmap' /\ in[i].guid # pc'.guid
  <2>1. Carries(in[i].pld, in[i].guid) /\ in[i].guid # None
    BY <1>3, NotFree DEF Correlated
  <2>2. Carries(in[i].pld, in[i].guid)'
    BY <1>1, <2>1 DEF Carries
  <2> QED  BY <1>1, <1>3, <2>1, <2>2 DEF Correlated, At
<1> QED  BY <1>1, <1>2, <1>3 DEF Correlated, At

(* An IN thread takes out the entry that has the number of the answer.     *)
LEMMA CorrelateCorrelated ==
    ASSUME Typed, Apart, Correlated,
           NEW i \in In, NEW g \in Guid, Correlate(i, g)
    PROVE  Correlated'
<1>1. /\ g \in DOMAIN cmap /\ in[i] = Idle
      /\ UNCHANGED <<call, pc, cdata>> /\ dropped' = dropped \cup {cmap[g]}
      /\ in' = [in EXCEPT ![i] = [guid |-> g, pld |-> cmap[g]]]
  BY DEF Correlate
<1>2. /\ DOMAIN cmap' = DOMAIN cmap \ {g}
      /\ \A h \in DOMAIN cmap' : cmap'[h] = cmap[h]
  BY <1>1, RestrictType DEF Correlate, Typed
<1>3. /\ in'[i].guid = g /\ in'[i].pld = cmap[g]
      /\ \A j \in In \ {i} : in'[j] = in[j]
  BY <1>1 DEF Typed
<1>4. \A h \in DOMAIN cmap' : Carries(cmap[h], h)'
  BY <1>1, <1>2 DEF Correlated, Carries
<1>5. pc'.at = "store" => Carries(pc.pld, pc.guid)'
  BY <1>1 DEF Correlated, Carries
<1>6. g # pc.guid
  BY <1>1, MarkAssumption DEF Typed, Apart, At
<1>7. ASSUME NEW j \in In, in'[j] # Idle
      PROVE  /\ Carries(in[j].pld, in[j].guid)' /\ in'[j].pld \in dropped'
             /\ in'[j].guid \notin DOMAIN cmap' /\ in'[j].guid # pc'.guid
             /\ \A k \in In : in'[k] # Idle /\ in'[k].guid = in'[j].guid => j = k
  <2>1. CASE j = i
    <3>1. Carries(cmap[g], g)
      BY <1>1 DEF Correlated
    <3>2. Carries(in[j].pld, in[j].guid)'
      BY <1>1, <1>3, <2>1, <3>1 DEF Carries
    <3>3. \A k \in In : in'[k] # Idle /\ in'[k].guid = g => i = k
      BY <1>1, <1>3 DEF Correlated
    <3> QED  BY <1>1, <1>2, <1>3, <1>6, <2>1, <3>2, <3>3
  <2>2. CASE j # i
    <3>1. in'[j] = in[j] /\ in[j].guid # g
      BY <1>1, <1>3, <1>7, <2>2 DEF Correlated
    <3>2. Carries(in[j].pld, in[j].guid)'
      BY <1>1, <1>7, <3>1 DEF Correlated, Carries
    <3> QED  BY <1>1, <1>2, <1>3, <1>7, <3>1, <3>2 DEF Correlated
  <2> QED  BY <2>1, <2>2
<1> QED  BY <1>4, <1>5, <1>7 DEF Correlated

(* The time-out of some entries finishes their calls and no other.         *)
LEMMA ExpireCorrelated ==
    ASSUME Typed, Apart, Correlated, mishap = {}, Own,
           NEW gs \in SUBSET Guid, Expire(gs)
    PROVE  mishap' = {} /\ Correlated' /\ Own'
<1> DEFINE cs == {cdata[cmap[g]] : g \in gs}
<1>1. /\ gs \subseteq DOMAIN cmap /\ pc = At("expire") /\ pc' = At("next")
      /\ UNCHANGED <<cdata, in, dropped>>
      /\ call' = Finish(call, cs, "aborted") /\ mishap' = mishap \cup Twice(cs)
  BY DEF Expire, Typed, At
<1>2. /\ DOMAIN cmap' = DOMAIN cmap \ gs
      /\ \A h \in DOMAIN cmap' : cmap'[h] = cmap[h]
  BY <1>1, RestrictType DEF Expire, Typed
<1>3. \A c \in cs : c \in Call /\ call[c].st = "pending" /\ call[c].guid \in gs
  BY <1>1 DEF Correlated, Carries
<1>4. mishap' = {}
  BY <1>1, <1>3 DEF Twice
<1> HIDE DEF cs
<1>5. \A c \in Call : call[c].guid \notin gs => call'[c] = call[c]
  BY <1>1, <1>3 DEF Finish
<1>6. ASSUME NEW p, NEW g, Carries(p, g), g \notin gs PROVE Carries(p, g)'
  BY <1>1, <1>5, <1>6 DEF Carries
<1>7. Correlated'
  <2>1. \A g \in DOMAIN cmap' : Carries(cmap[g], g)'
    BY <1>2, <1>6 DEF Correlated, Carries
  <2>2. ASSUME NEW i \in In, in[i] # Idle
        PROVE  /\ Carries(in[i].pld, in[i].guid)'
               /\ in[i].guid \notin DOMAIN cmap' /\ in[i].guid # pc'.guid
    <3>1. /\ Carries(in[i].pld, in[i].guid) /\ in[i].guid \notin gs
          /\ in[i].guid # None
      BY <1>1, <2>2, NotFree DEF Correlated
    <3>2. Carries(in[i].pld, in[i].guid)'
      BY <1>1, <1>6, <3>1 DEF Carries
    <3> QED  BY <1>1, <1>2, <2>2, <3>1, <3>2 DEF Correlated, At
  <2> QED  BY <1>1, <2>1, <2>2 DEF Correlated, At
<1>8. Own'
  BY <1>1, FinishKeeps, MarkAssumption DEF Own, Typed
<1> QED  BY <1>4, <1>7, <1>8

(* An answer finishes the call that has its number.                        *)
LEMMA ReplyCorrelated ==
    ASSUME Typed, Apart, Correlated, mishap = {}, Own, NEW i \in In, Reply(i)
    PROVE  mishap' = {} /\ Correlated' /\ Own'
<1> DEFINE g == in[i].guid  c == cdata[in[i].pld]
<1>1. /\ in[i] # Idle /\ in' = [in EXCEPT ![i] = Idle]
      /\ UNCHANGED <<pc, cdata, cmap, dropped>>
      /\ call' = Finish(call, {c}, g) /\ mishap' = mishap \cup Twice({c})
  BY DEF Reply
<1>2. /\ c \in Call /\ call[c].st = "pending" /\ call[c].guid = g
      /\ g \notin DOMAIN cmap /\ g # pc.guid
      /\ \A j \in In : in[j] # Idle /\ in[j].guid = g => i = j
  BY <1>1 DEF Correlated, Carries
<1>3. /\ in'[i] = Idle /\ \A j \in In \ {i} : in'[j] = in[j]
  BY <1>1 DEF Typed
<1>4. mishap' = {}
  BY <1>1, <1>2 DEF Twice
<1> HIDE DEF g, c
<1>5. \A x \in Call : x # c => call'[x] = call[x]
  BY <1>1 DEF Finish
<1>6. ASSUME NEW p, NEW h, Carries(p, h), h # g PROVE Carries(p, h)'
  BY <1>1, <1>2, <1>5, <1>6 DEF Carries
<1>7. Correlated'
  <2>1. \A h \in DOMAIN cmap' : Carries(cmap[h], h)'
    <3>1. ASSUME NEW h \in DOMAIN cmap PROVE Carries(cmap[h], h)'
      <4>1. Carries(cmap[h], h) /\ h # g
        BY <1>2 DEF Correlated
      <4> QED  BY <1>1, <1>6, <4>1 DEF Carries
    <3> QED  BY <1>1, <3>1
  <2>2. ASSUME pc'.at = "store" PROVE Carries(pc.pld, pc.guid)'
    <3>1. Carries(pc.pld, pc.guid) /\ pc.guid # g
      BY <1>1, <1>2, <2>2 DEF Correlated
    <3> QED  BY <1>1, <1>6, <3>1 DEF Carries
  <2>3. ASSUME NEW j \in In, in'[j] # Idle
        PROVE  Carries(in[j].pld, in[j].guid)' /\ in'[j] = in[j]
    <3>1. in'[j] = in[j] /\ in[j].guid # g /\ Carries(in[j].pld, in[j].guid)
      BY <1>2, <1>3, <2>3 DEF Correlated
    <3> QED  BY <1>6, <3>1 DEF Carries
  <2> QED  BY <1>1, <2>1, <2>2, <2>3 DEF Correlated
<1>8. Own'
  <2>1. call'[c].guid = g /\ (call'[c].by = call[c].by \/ call'[c].by = g)
    BY <1>1, <1>2, FinishKeeps DEF Typed
  <2> QED  BY <1>2, <1>5, <2>1 DEF Own
<1> QED  BY <1>4, <1>7, <1>8

LEMMA NextAnswers ==
    Typed /\ OneSpare /\ Apart /\ Unanswered /\ Answers /\ [Next]_vars => Answers'
<1> SUFFICES ASSUME Typed, OneSpare, Apart, Unanswered, Answers, [Next]_vars,
                    "reused" \notin mishap'
             PROVE  mishap' = {} /\ Correlated' /\ Own'
  BY DEF Answers
<1>0. mishap = {} /\ Correlated /\ Own
  <2>1. "reused" \notin mishap
    BY DEF Next, Proceed, Request, Invalid, Refuse, SendFails, Send, Store, Expire,
           Delete, Wake, Sent, Lose, Correlate, Reply, vars
  <2> QED  BY <2>1 DEF Answers
<1>1. ASSUME Undisturbed, UNCHANGED <<cmap, in, mishap>>, dropped \subseteq dropped',
             pc' = pc \/ pc' = At("expire"), Own'
      PROVE  mishap' = {} /\ Correlated' /\ Own'
  BY <1>0, <1>1, QuietCorrelated
<1>2. ASSUME UNCHANGED call PROVE Own'
  BY <1>0, <1>2 DEF Own
<1>3. ASSUME NEW c \in Call, Invalid(c) \/ Refuse(c) \/ SendFails(c) \/ Send(c)
      PROVE  Own' /\ \A x \in Call : call[x].st = "pending" => call'[x] = call[x]
  <2>1. PICK d \in Call : /\ call[d].st = "none" /\ call'[d] = Fresh("created")
                          /\ \A x \in Call \ {c, d} : call'[x] = call[x]
    BY <1>3, ProceedKeeps DEF Typed
  <2>2. call[c].st = "requested" /\ call'[c].by \in {None, "aborted"}
    BY <1>3, ProceedKeeps DEF Typed, Unanswered
  <2> QED  BY <1>0, <2>1, <2>2, MarkAssumption DEF Own, Fresh
<1>4. ASSUME NEW c \in Call, Request(c) PROVE mishap' = {} /\ Correlated' /\ Own'
  <2>1. Own' /\ Undisturbed
    BY <1>0, <1>4 DEF Request, Own, Undisturbed, Typed, RPCBase
  <2> QED  BY <1>1, <1>4, <2>1 DEF Request
<1>5. ASSUME NEW c \in Call, Invalid(c) \/ Refuse(c) \/ SendFails(c)
      PROVE  mishap' = {} /\ Correlated' /\ Own'
  <2>1. \A p \in Payload \ pool : cdata'[p] = cdata[p]
    BY <1>5, AllocatedIs DEF Invalid, Refuse, SendFails, Typed
  <2>2. Undisturbed /\ Own'
    BY <1>3, <1>5, <2>1 DEF Undisturbed
  <2>3. /\ UNCHANGED <<cmap, in, mishap>> /\ dropped \subseteq dropped'
        /\ pc' = At("expire")
    BY <1>5 DEF Invalid, Refuse, SendFails
  <2> QED  BY <1>1, <2>2, <2>3
<1>6. ASSUME NEW c \in Call, Send(c) PROVE mishap' = {} /\ Correlated' /\ Own'
  <2>1. mishap' = mishap
    BY <1>6 DEF Send
  <2> QED  BY <1>0, <1>3, <1>6, <2>1, SendCorrelated
<1>7. CASE Store
  <2>1. UNCHANGED <<call, in, mishap>>
    BY <1>7 DEF Store
  <2> QED  BY <1>0, <1>2, <1>7, <2>1, StoreCorrelated
<1>8. ASSUME NEW gs \in SUBSET Guid, Expire(gs)
      PROVE  mishap' = {} /\ Correlated' /\ Own'
  BY <1>0, <1>8, ExpireCorrelated
<1>9. ASSUME NEW c \in Call, Delete(c) PROVE mishap' = {} /\ Correlated' /\ Own'
  <2>1. Own' /\ Undisturbed
    BY <1>0, <1>9, MarkAssumption DEF Delete, Own, Undisturbed, Typed, Fresh
  <2> QED  BY <1>1, <1>9, <2>1 DEF Delete
<1>10. ASSUME UNCHANGED <<call, cdata, cmap, in, mishap, dropped>>,
              pc' = pc \/ pc' = At("expire")
       PROVE  mishap' = {} /\ Correlated' /\ Own'
  BY <1>1, <1>2, <1>10 DEF Undisturbed
<1>11. CASE Wake \/ UNCHANGED vars
  BY <1>10, <1>11 DEF Wake, vars
<1>12. ASSUME NEW g \in Guid, Sent(g) \/ Lose(g)
       PROVE  mishap' = {} /\ Correlated' /\ Own'
  BY <1>10, <1>12 DEF Sent, Lose
<1>13. ASSUME NEW i \in In, NEW g \in Guid, Correlate(i, g)
       PROVE  mishap' = {} /\ Correlated' /\ Own'
  BY <1>0, <1>2, <1>13, CorrelateCorrelated DEF Correlate
<1>14. ASSUME NEW i \in In, Reply(i) PROVE mishap' = {} /\ Correlated' /\ Own'
  BY <1>0, <1>14, ReplyCorrelated
<1> QED  BY <1>4, <1>5, <1>6, <1>7, <1>8, <1>9, <1>11, <1>12, <1>13, <1>14
         DEF Next, Proceed

LEMMA InitAnswers == Init => Unanswered /\ Answers
<1> SUFFICES ASSUME Init PROVE Unanswered /\ Answers
  OBVIOUS
<1>1. \A c \in Call : call[c].by = None
  BY DEF Init, Fresh
<1>2. Correlated
  BY DEF Init, Correlated, At
<1> QED  BY <1>1, <1>2, MarkAssumption DEF Init, Unanswered, Answers, Own

(* Whoever takes the entry of a call out of the map, the answer or the     *)
(* time-out, finishes this call and no other, and it alone does (Property  *)
(* AnsweredOnce of Grpc): as long as no erased entry is reused before the  *)
(* IN thread has read it.                                                  *)
THEOREM AnswersCorrect == Spec => []AnsweredOnce
<1> DEFINE IInv == Typed /\ OneSpare /\ Apart /\ Unanswered /\ Answers
<1>1. Init => IInv
  BY InitTyped, InitApart, InitAnswers
<1>2. IInv /\ [Next]_vars => IInv'
  BY NextTyped, NextCalls, NextOneSpare, NextApart, NextUnanswered, NextAnswers
<1>3. IInv => AnsweredOnce
  BY DEF Answers, Own, AnsweredOnce, FinishedOnce, OwnAnswer
<1> QED  BY <1>1, <1>2, <1>3, PTL DEF Spec

=============================================================================
