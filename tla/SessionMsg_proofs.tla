-------------------------- MODULE SessionMsg_proofs --------------------------
(***************************************************************************)
(* What holds of a GDT session with any number of clients, and of the      *)
(* service messages that its streams carry.                                *)
(*                                                                         *)
(* Sessions: the variables have their types, thread_count counts what      *)
(* destroy_session() waits for, the handlers of a registration live as     *)
(* long as its stream, a registered client can be found, and, unless a     *)
(* packet for the id "*" arrives, ref_counter counts the holders of a      *)
(* client and no client is deleted under an IN thread that is forwarding   *)
(* to it.                                                                  *)
(*                                                                         *)
(* Messages: with any streams, pools and values, a message has one holder, *)
(* a parameter has one holder, and a message that is given to the user as  *)
(* complete is the one that was sent.  The inductive invariant is SmsgOK:  *)
(* Own() says where the parameters of a node are, Course() that sender,    *)
(* packet and receiver of a stream are at matching places of one order of  *)
(* the values, and Holds() who has which message.                          *)
(***************************************************************************)
EXTENDS GDTSession, ServiceMsg, FiniteSetTheorems, SequenceTheorems, WellFoundedInduction, TLAPS

Running == {c \in Client : life[c] \notin {"none", "gone"}}

(* thread_count is the server thread and the clients not yet deleted. *)
ThreadsCounted ==
    thread_count = Cardinality(Running) + IF server = "off" THEN 0 ELSE 1

(* A client is listed from connect() or the server loop until              *)
(* remove_client(), and inactive from then on.                             *)
Listed ==
    \A c \in Client :
       /\ c \in clients => life[c] \in {"up", "lost", "exit"}
       /\ life[c] \in {"exit", "removing", "gone", "stray"} => ~active[c]

(* connect() waits for a client that is active and not yet listed.         *)
Waiting ==
    \A c \in Client :
       reg[c].waiter = "caller" =>
         /\ c \in Outbound /\ c \notin clients
         /\ active[c] /\ life[c] \in {"up", "lost"}

IndInv == ThreadsCounted /\ Listed /\ Waiting

(* TypeOK but for thread_count. *)
Typed ==
    /\ clients \subseteq Client
    /\ life \in [Client -> Life]
    /\ active \in [Client -> BOOLEAN] /\ registered \in [Client -> BOOLEAN]
    /\ refc \in [Client -> 0 .. RefMod - 1]
    /\ fwd \in [Client -> SUBSET Client]
    /\ reg \in [Client -> Registration]
    /\ result \in [Outbound -> {"none", "client", "null"}]
    /\ server \in {"on", "stopping", "off"}
    /\ session \in {"up", "destroying", "destroyed"}

-----------------------------------------------------------------------------
LEMMA RefModType == RefMod \in Nat /\ RefMod > 1
BY SessionAssumption, FS_CardinalityType

LEMMA InitTyped == Init => Typed
BY RefModType DEF Init, Typed, Life, Registration, Client

LEMMA DecType == \A n \in 0 .. RefMod - 1 : Dec(n) \in 0 .. RefMod - 1
BY RefModType DEF Dec

LEMMA IncType == \A n \in 0 .. RefMod - 1 : (n + 1) % RefMod \in 0 .. RefMod - 1
BY RefModType

(* Whatever fields of a client's registration a step sets, it stays one. *)
LEMMA RegType ==
    ASSUME reg \in [Client -> Registration], NEW c \in Client,
           NEW s \in {"none", "open", "closing"}, NEW g \in BOOLEAN,
           NEW w \in {"none", "caller", "thread"}, NEW p \in BOOLEAN
    PROVE  /\ [reg EXCEPT ![c].stream = s] \in [Client -> Registration]
           /\ [reg EXCEPT ![c].waiter = w] \in [Client -> Registration]
           /\ [reg EXCEPT ![c].stream = s, ![c].waiter = w]
                \in [Client -> Registration]
           /\ [reg EXCEPT ![c].stream = s, ![c].got = g]
                \in [Client -> Registration]
           /\ [reg EXCEPT ![c].stream = s, ![c].posted = p]
                \in [Client -> Registration]
           /\ [reg EXCEPT ![c].waiter = w, ![c].posted = p]
                \in [Client -> Registration]
<1> reg[c] \in Registration
  OBVIOUS
<1>1. /\ [reg EXCEPT ![c].stream = s] \in [Client -> Registration]
      /\ [reg EXCEPT ![c].waiter = w] \in [Client -> Registration]
  BY Zenon DEF Registration
<1>2. /\ [reg EXCEPT ![c].stream = s, ![c].waiter = w] \in [Client -> Registration]
      /\ [reg EXCEPT ![c].stream = s, ![c].got = g] \in [Client -> Registration]
  BY Zenon DEF Registration
<1>3. /\ [reg EXCEPT ![c].stream = s, ![c].posted = p] \in [Client -> Registration]
      /\ [reg EXCEPT ![c].waiter = w, ![c].posted = p] \in [Client -> Registration]
  BY Zenon DEF Registration
<1> QED  BY <1>1, <1>2, <1>3

LEMMA ForcedType ==
    ASSUME reg \in [Client -> Registration], NEW c \in Client
    PROVE  Forced(c) \in [Client -> Registration]
<1>1. PICK s \in {"none", "open", "closing"} :
        s = IF reg[c].stream = "open" THEN "none" ELSE reg[c].stream
  BY DEF Registration
<1>2. PICK p \in BOOLEAN : p <=> reg[c].posted \/ reg[c].stream = "open"
  OBVIOUS
<1>3. [reg EXCEPT ![c].stream = s, ![c].posted = p] = Forced(c)
  BY <1>1, <1>2 DEF Forced, Registration
<1>4. [reg EXCEPT ![c].stream = s, ![c].posted = p] \in [Client -> Registration]
  BY Zenon, RegType
<1> QED  BY <1>3, <1>4

(* Every step of a client, the server and destroy_session() keeps the types. *)
LEMMA NextTyped == Typed /\ [Next]_vars => Typed'
<1> SUFFICES ASSUME Typed, [Next]_vars PROVE Typed'
  OBVIOUS
<1> USE DEF Typed
<1>1. ASSUME NEW c \in Client, Step(c) PROVE Typed'
  <2>1. CASE Lost(c)
    <3>1. reg' = Forced(c) \/ reg' = [reg EXCEPT ![c].stream = "none"]
      BY <2>1 DEF Lost
    <3>2. Forced(c) \in [Client -> Registration]
      BY ForcedType
    <3>3. [reg EXCEPT ![c].stream = "none"] \in [Client -> Registration]
      BY Zenon, RegType
    <3>4. reg' \in [Client -> Registration]
      BY <3>1, <3>2, <3>3
    <3> QED  BY Zenon, <2>1, <3>4 DEF Lost, Life
  <2>2. CASE InEnds(c)
    <3>1. reg' = Forced(c) \/ reg' = [reg EXCEPT ![c].stream = "none"]
      BY <2>2 DEF InEnds
    <3>2. Forced(c) \in [Client -> Registration]
      BY ForcedType
    <3>3. [reg EXCEPT ![c].stream = "none"] \in [Client -> Registration]
      BY RegType
    <3>4. reg' \in [Client -> Registration]
      BY <3>1, <3>2, <3>3
    <3> QED  BY <2>2, <3>4 DEF InEnds, Life
  <2>3. CASE ExitRemove(c)
    BY <2>3, DecType DEF ExitRemove, Life
  <2>4. CASE Free(c)
    BY <2>4 DEF Free, Life
  <2>5. CASE FindRoute(c)
    <3>1. PICK found \in Lookup(c) :
            /\ fwd' = [fwd EXCEPT ![c] = found.routes]
            /\ refc' = [r \in Client |-> IF found.counted /\ r \in found.routes
                                           THEN (refc[r] + 1) % RefMod
                                           ELSE refc[r]]
      BY <2>5 DEF FindRoute
    <3>2. found.routes \in SUBSET Client
      BY <3>1 DEF Lookup, Routable
    <3> QED  BY <2>5, <3>1, <3>2, IncType DEF FindRoute
  <2>6. CASE Forward(c)
    BY <2>6, DecType DEF Forward
  <2> QED  BY <1>1, <2>1, <2>2, <2>3, <2>4, <2>5, <2>6 DEF Step
<1>2. ASSUME NEW c \in Outbound, OutboundStep(c) PROVE Typed'
  <2> USE DEF Client
  <2>1. CASE Connect(c)
    BY Zenon, <2>1, RegType DEF Connect, Life
  <2>2. CASE RegEnd(c)
    <3>1. PICK got \in BOOLEAN :
            reg' = [reg EXCEPT ![c].stream = "closing", ![c].got = got]
      BY <2>2 DEF RegEnd
    <3>2. reg' \in [Client -> Registration]
      BY ZenonT(40), <3>1, RegType
    <3> QED  BY <2>2, <3>2 DEF RegEnd
  <2>3. CASE RegSent(c)
    BY Zenon, <2>3, RegType DEF RegSent
  <2>4. CASE RegTimeout(c)
    BY ZenonT(40), <2>4, RegType DEF RegTimeout
  <2>5. CASE RegReturn(c)
    BY ZenonT(40), <2>5, RegType DEF RegReturn
  <2>6. CASE Reconnected(c)
    BY Zenon, <2>6, RegType DEF Reconnected, Life
  <2> QED  BY <1>2, <2>1, <2>2, <2>3, <2>4, <2>5, <2>6 DEF OutboundStep
<1>3. ASSUME NEW c \in Inbound, InboundStep(c) PROVE Typed'
  <2> USE DEF Client
  <2>1. CASE Accept(c)
    BY ZenonT(40), <2>1, RegType DEF Accept, Life
  <2>2. CASE RegNew(c)
    <3>1. PICK got \in BOOLEAN :
            reg' = [reg EXCEPT ![c].stream = "open", ![c].got = got]
      BY <2>2 DEF RegNew
    <3>2. reg' \in [Client -> Registration]
      BY <3>1, RegType
    <3> QED  BY <2>2, <3>2 DEF RegNew
  <2>3. CASE RegDone(c)
    <3>1. reg' \in [Client -> Registration]
      BY <2>3, RegType DEF RegDone
    <3> QED  BY <2>3, <3>1 DEF RegDone
  <2>4. CASE RegThread(c)
    BY <2>4, RegType DEF RegThread
  <2> QED  BY <1>3, <2>1, <2>2, <2>3, <2>4 DEF InboundStep
<1>4. CASE StopServer
  BY <1>4 DEF StopServer
<1>5. CASE ServerEnds
  BY <1>5 DEF ServerEnds
<1>6. CASE Destroy
  BY <1>6 DEF Destroy
<1>7. CASE Destroyed
  BY <1>7 DEF Destroyed
<1>8. CASE UNCHANGED vars
  BY <1>8 DEF vars
<1> QED  BY <1>1, <1>2, <1>3, <1>4, <1>5, <1>6, <1>7, <1>8 DEF Next

-----------------------------------------------------------------------------
(* The list, the wait of connect(), and what destroy_session() waits for.  *)

LEMMA RunningFinite == IsFiniteSet(Running) /\ Cardinality(Running) \in Nat
BY SessionAssumption, FS_Subset, FS_CardinalityType DEF Running

LEMMA InitIndInv == Init => IndInv
<1> SUFFICES ASSUME Init PROVE IndInv
  OBVIOUS
<1>1. Running = {}
  BY DEF Init, Running
<1>2. ThreadsCounted
  BY <1>1, FS_EmptySet DEF Init, ThreadsCounted
<1>3. Listed /\ Waiting
  BY DEF Init, Listed, Waiting
<1> QED  BY <1>2, <1>3 DEF IndInv

(* A step that changes neither which clients run nor the server keeps the  *)
(* count.                                                                  *)
LEMMA CountStays ==
    ASSUME ThreadsCounted, thread_count' = thread_count, Running' = Running,
           (server = "off") = (server' = "off")
    PROVE  ThreadsCounted'
BY DEF ThreadsCounted

LEMMA CountUp ==
    ASSUME ThreadsCounted, NEW c \in Client, c \notin Running,
           Running' = Running \cup {c}, thread_count' = thread_count + 1,
           server' = server
    PROVE  ThreadsCounted'
<1>1. Cardinality(Running') = Cardinality(Running) + 1
  BY RunningFinite, FS_AddElement
<1> QED  BY <1>1, RunningFinite DEF ThreadsCounted

LEMMA CountDown ==
    ASSUME ThreadsCounted, NEW c \in Client, c \in Running,
           Running' = Running \ {c}, thread_count' = thread_count - 1,
           server' = server
    PROVE  ThreadsCounted'
<1>1. Cardinality(Running') = Cardinality(Running) - 1
  BY RunningFinite, FS_RemoveElement
<1> QED  BY <1>1, RunningFinite DEF ThreadsCounted

(* Nor does one that starts no connect() disturb the list, whatever it does *)
(* to registrations.                                                        *)
LEMMA ListStays ==
    ASSUME Listed, Waiting, clients' = clients, life' = life, active' = active,
           \A d \in Client : reg'[d].waiter = "caller" => reg[d].waiter = "caller"
    PROVE  Listed' /\ Waiting'
BY DEF Listed, Waiting

LEMMA NextIndInv == Typed /\ IndInv /\ [Next]_vars => IndInv'
<1> SUFFICES ASSUME Typed, IndInv, [Next]_vars PROVE IndInv'
  OBVIOUS
<1> USE DEF IndInv
<1>1. ASSUME NEW c \in Client, Lost(c) PROVE IndInv'
  <2>1. ThreadsCounted'
    BY <1>1, CountStays DEF Lost, Running, Typed
  <2>2. Listed' /\ Waiting'
    BY <1>1, SessionAssumption DEF Lost, Forced, Listed, Waiting, Typed, Registration, Client
  <2> QED  BY <2>1, <2>2
<1>2. ASSUME NEW c \in Client, InEnds(c) PROVE IndInv'
  <2>1. ThreadsCounted'
    BY <1>2, CountStays DEF InEnds, Running, Typed
  <2>2. Listed' /\ Waiting'
    BY <1>2 DEF InEnds, Forced, Listed, Waiting, Typed, Registration
  <2> QED  BY <2>1, <2>2
<1>3. ASSUME NEW c \in Client, ExitRemove(c) PROVE IndInv'
  <2>1. ThreadsCounted'
    BY <1>3, CountStays DEF ExitRemove, Running, Typed
  <2>2. Listed' /\ Waiting'
    BY <1>3 DEF ExitRemove, Listed, Waiting, Typed
  <2> QED  BY <2>1, <2>2
<1>4. ASSUME NEW c \in Client, Free(c) PROVE IndInv'
  <2>1. ThreadsCounted'
    BY <1>4, CountDown DEF Free, Running, Typed
  <2>2. Listed' /\ Waiting'
    BY <1>4 DEF Free, Listed, Waiting, Typed
  <2> QED  BY <2>1, <2>2
<1>5. ASSUME NEW c \in Client, FindRoute(c) \/ Forward(c) PROVE IndInv'
  <2>1. ThreadsCounted'
    BY <1>5, CountStays DEF FindRoute, Forward, Running
  <2>2. Listed' /\ Waiting'
    BY <1>5 DEF FindRoute, Forward, Listed, Waiting
  <2> QED  BY <2>1, <2>2
<1>6. ASSUME NEW c \in Client, c \in Outbound, Connect(c) PROVE IndInv'
  <2>1. ThreadsCounted'
    BY <1>6, CountUp DEF Connect, Running, Typed
  <2>2. Listed' /\ Waiting'
    BY <1>6 DEF Connect, Listed, Waiting, Typed, Registration
  <2> QED  BY <2>1, <2>2
<1>7. ASSUME NEW c \in Client, RegEnd(c) \/ RegSent(c) \/ RegTimeout(c) PROVE IndInv'
  <2>1. ThreadsCounted'
    BY <1>7, CountStays DEF RegEnd, RegSent, RegTimeout, Running
  <2>2. CASE RegEnd(c)
    <3>1. PICK got \in BOOLEAN :
            reg' = [reg EXCEPT ![c].stream = "closing", ![c].got = got]
      BY <2>2 DEF RegEnd
    <3>2. \A d \in Client : reg'[d].waiter = reg[d].waiter
      BY <3>1 DEF Typed, Registration
    <3>3. Listed' /\ Waiting'
      BY <2>2, <3>2, ListStays DEF RegEnd
    <3> QED  BY <2>1, <3>3
  <2>3. CASE RegSent(c) \/ RegTimeout(c)
    <3>1. reg' = [reg EXCEPT ![c].stream = "none", ![c].posted = TRUE]
      BY <2>3 DEF RegSent, RegTimeout
    <3>2. \A d \in Client : reg'[d].waiter = reg[d].waiter
      BY <3>1 DEF Typed, Registration
    <3>3. Listed' /\ Waiting'
      BY <2>3, <3>2, ListStays DEF RegSent, RegTimeout
    <3> QED  BY <2>1, <3>3
  <2> QED  BY <1>7, <2>2, <2>3
<1>8. ASSUME NEW c \in Client, RegReturn(c) PROVE IndInv'
  <2>1. ThreadsCounted'
    BY <1>8, CountStays DEF RegReturn, Running
  <2>2. Listed' /\ Waiting'
    BY <1>8 DEF RegReturn, Listed, Waiting, Typed, Registration
  <2> QED  BY <2>1, <2>2
<1>9. ASSUME NEW c \in Client, Reconnected(c) PROVE IndInv'
  <2>1. ThreadsCounted'
    BY <1>9, CountStays DEF Reconnected, Running, Typed
  <2>2. Listed' /\ Waiting'
    BY <1>9 DEF Reconnected, Listed, Waiting, Typed, Registration
  <2> QED  BY <2>1, <2>2
<1>10. ASSUME NEW c \in Client, Accept(c) PROVE IndInv'
  <2>1. ThreadsCounted'
    BY <1>10, CountUp DEF Accept, Running, Typed
  <2>2. Listed' /\ Waiting'
    BY <1>10 DEF Accept, Listed, Waiting, Typed, Registration
  <2> QED  BY <2>1, <2>2
<1>11. ASSUME NEW c \in Client, c \in Inbound, RegNew(c) \/ RegDone(c) \/ RegThread(c)
       PROVE IndInv'
  <2>1. ThreadsCounted'
    BY <1>11, CountStays DEF RegNew, RegDone, RegThread, Running
  <2>2. CASE RegNew(c)
    <3>1. PICK got \in BOOLEAN :
            reg' = [reg EXCEPT ![c].stream = "open", ![c].got = got]
      BY <2>2 DEF RegNew
    <3>2. \A d \in Client : reg'[d].waiter = reg[d].waiter
      BY <3>1 DEF Typed, Registration
    <3>3. Listed' /\ Waiting'
      BY <2>2, <3>2, ListStays DEF RegNew
    <3> QED  BY <2>1, <3>3
  <2>3. CASE RegDone(c)
    <3>1. /\ clients' = clients /\ life' = life
          /\ reg' = [reg EXCEPT ![c].stream = "none", ![c].posted = TRUE]
          /\ active' = active \/ active' = [active EXCEPT ![c] = FALSE]
      BY <2>3 DEF RegDone
    <3>2. \A d \in Client : /\ reg'[d].waiter = reg[d].waiter
                            /\ active'[d] => active[d]
                            /\ d # c => active'[d] = active[d]
      BY <3>1 DEF Typed, Registration
    <3>3. c \notin Outbound
      BY <1>11, SessionAssumption
    <3>4. Listed' /\ Waiting'
      BY <3>1, <3>2, <3>3 DEF Listed, Waiting
    <3> QED  BY <2>1, <3>4
  <2>4. CASE RegThread(c)
    <3>1. \A d \in Client : reg'[d].waiter = "caller" => reg[d].waiter = "caller"
      BY <2>4 DEF RegThread, Typed, Registration
    <3>2. Listed' /\ Waiting'
      BY <2>4, <3>1, ListStays DEF RegThread
    <3> QED  BY <2>1, <3>2
  <2> QED  BY <1>11, <2>2, <2>3, <2>4
<1>12. CASE StopServer \/ ServerEnds
  <2>1. ThreadsCounted'
    <3>1. Running' = Running
      BY <1>12 DEF StopServer, ServerEnds, Running
    <3> QED  BY <1>12, <3>1, RunningFinite DEF StopServer, ServerEnds, ThreadsCounted
  <2>2. Listed' /\ Waiting'
    BY <1>12 DEF StopServer, ServerEnds, Listed, Waiting
  <2> QED  BY <2>1, <2>2
<1>13. CASE Destroy
  <2>1. ThreadsCounted'
    BY <1>13, CountStays DEF Destroy, Running
  <2>2. Listed' /\ Waiting'
    BY <1>13 DEF Destroy, Listed, Waiting, Typed
  <2> QED  BY <2>1, <2>2
<1>14. CASE Destroyed \/ UNCHANGED vars
  <2>1. ThreadsCounted'
    BY <1>14, CountStays DEF Destroyed, vars, Running
  <2>2. Listed' /\ Waiting'
    BY <1>14 DEF Destroyed, vars, Listed, Waiting
  <2> QED  BY <2>1, <2>2
<1> QED
  BY <1>1, <1>2, <1>3, <1>4, <1>5, <1>6, <1>7, <1>8, <1>9, <1>10, <1>11,
     <1>12, <1>13, <1>14
     DEF Next, Step, OutboundStep, InboundStep, Client
-----------------------------------------------------------------------------
(* The variables of a session have their types, and thread_count is never   *)
(* negative: destroy_session(), which waits for zero, is not overtaken by a *)
(* client that is taken off twice (client_loop, remove_client()).           *)
THEOREM TypeCorrect == Spec => []TypeOK
<1>1. Init => Typed /\ IndInv
  BY InitTyped, InitIndInv
<1>2. Typed /\ IndInv /\ [Next]_vars => (Typed /\ IndInv)'
  BY NextTyped, NextIndInv
<1>3. Typed /\ IndInv => TypeOK
  BY RunningFinite DEF Typed, IndInv, ThreadsCounted, TypeOK
<1> QED  BY <1>1, <1>2, <1>3, PTL DEF Spec

-----------------------------------------------------------------------------
(* References.                                                              *)

RefInv == RefcIsHolders /\ NoUseAfterDelete

Removed == {"removing", "gone"}

LEMMA HoldersFinite ==
    ASSUME NEW r \in Client
    PROVE  /\ IsFiniteSet(Holders(r)) /\ IsFiniteSet(Client)
           /\ Cardinality(Holders(r)) \in Nat
           /\ Cardinality(Client) \in Nat
           /\ Cardinality(Holders(r)) <= Cardinality(Client)
BY SessionAssumption, FS_Subset, FS_CardinalityType DEF Holders

LEMMA RefsStay ==
    ASSUME Typed, RefInv, fwd' = fwd, refc' = refc,
           \A r \in Client : /\ life'[r] \in Removed <=> life[r] \in Removed
                             /\ life'[r] = "gone" => life[r] = "gone"
    PROVE  RefInv'
<1>1. NoUseAfterDelete'
  BY DEF Typed, RefInv, NoUseAfterDelete
<1>2. \A r \in Client : Holders(r)' = Holders(r)
  BY DEF Holders
<1>3. RefcIsHolders'
  BY <1>2 DEF RefInv, RefcIsHolders, Removed
<1> QED  BY <1>1, <1>3 DEF RefInv

LEMMA InitRefInv == Init => RefInv
<1> SUFFICES ASSUME Init PROVE RefInv
  OBVIOUS
<1>1. \A r \in Client : Holders(r) = {}
  BY DEF Init, Holders
<1>2. \A r \in Client : Cardinality(Holders(r)) = 0
  BY <1>1, FS_EmptySet
<1>3. RefcIsHolders
  BY <1>2 DEF Init, RefcIsHolders
<1>4. NoUseAfterDelete
  BY DEF Init, NoUseAfterDelete
<1> QED  BY <1>3, <1>4 DEF RefInv

(* A lookup counts the thread that it hands the route to; no more threads   *)
(* than clients can, so that the counter does not wrap.                     *)
LEMMA LookupCounts ==
    ASSUME "broadcast" \notin Faults, Typed, Listed, RefInv,
           NEW c \in Client, FindRoute(c)
    PROVE  RefInv'
<1>1. PICK r \in Routable :
        /\ fwd' = [fwd EXCEPT ![c] = {r}]
        /\ refc' = [x \in Client |-> IF x = r THEN (refc[x] + 1) % RefMod
                                              ELSE refc[x]]
  <2>1. PICK found \in Lookup(c) :
          /\ fwd' = [fwd EXCEPT ![c] = found.routes]
          /\ refc' = [x \in Client |-> IF found.counted /\ x \in found.routes
                                         THEN (refc[x] + 1) % RefMod
                                         ELSE refc[x]]
    BY DEF FindRoute
  <2>2. PICK r \in Routable : found = [routes |-> {r}, counted |-> TRUE]
    BY DEF Lookup
  <2>3. found.routes = {r} /\ found.counted
    BY <2>2
  <2> QED  BY <2>1, <2>3
<1>2. /\ r \in Client /\ life[r] # "gone" /\ life[r] # "removing"
      /\ fwd[c] = {} /\ life' = life
  BY DEF FindRoute, Routable, Typed, Listed
<1>3. NoUseAfterDelete'
  BY <1>1, <1>2 DEF RefInv, NoUseAfterDelete, Typed
<1>4. \A x \in Client : x # r => Holders(x)' = Holders(x)
  BY <1>1, <1>2 DEF Holders, Typed
<1>5. Holders(r)' = Holders(r) \cup {c} /\ c \notin Holders(r)
  BY <1>1, <1>2 DEF Holders, Typed
<1>6. Cardinality(Holders(r)') = Cardinality(Holders(r)) + 1
  BY <1>2, <1>5, HoldersFinite, FS_AddElement
<1>7. Cardinality(Holders(r)') <= Cardinality(Client)
  BY <1>2, <1>5, HoldersFinite, FS_Subset DEF Holders
<1>8. refc[r] = Cardinality(Holders(r)) + 1
  BY <1>2 DEF RefInv, RefcIsHolders
<1>9. (refc[r] + 1) % RefMod = refc[r] + 1
  BY <1>2, <1>6, <1>7, <1>8, HoldersFinite, SessionAssumption
<1>10. refc'[r] = Cardinality(Holders(r)') + 1
  BY <1>1, <1>2, <1>6, <1>8, <1>9, HoldersFinite
<1>11. RefcIsHolders'
  BY <1>1, <1>2, <1>4, <1>10 DEF RefInv, RefcIsHolders
<1> QED  BY <1>3, <1>11 DEF RefInv

(* A thread that has queued the payload gives up the one reference it has.  *)
LEMMA ForwardCounts ==
    ASSUME Typed, RefInv, NEW c \in Client, Forward(c)
    PROVE  RefInv'
<1>1. PICK r \in fwd[c] : /\ fwd' = [fwd EXCEPT ![c] = @ \ {r}]
                          /\ refc' = [refc EXCEPT ![r] = Dec(@)]
                          /\ life' = life
  BY DEF Forward
<1>2. r \in Client
  BY DEF Typed
<1>3. NoUseAfterDelete'
  BY <1>1 DEF RefInv, NoUseAfterDelete, Typed
<1>4. \A x \in Client : x # r => Holders(x)' = Holders(x)
  BY <1>1 DEF Holders, Typed
<1>5. Holders(r)' = Holders(r) \ {c} /\ c \in Holders(r)
  BY <1>1 DEF Holders, Typed
<1>6. /\ Cardinality(Holders(r)') = Cardinality(Holders(r)) - 1
      /\ Cardinality(Holders(r)') \in Nat
  BY <1>2, <1>5, HoldersFinite, FS_RemoveElement, FS_CardinalityType
<1>7. refc[r] = Cardinality(Holders(r))
                  + IF life[r] \in Removed THEN 0 ELSE 1
  BY <1>2 DEF RefInv, RefcIsHolders, Removed
<1>8. refc[r] # 0
  BY <1>2, <1>6, <1>7, HoldersFinite
<1>9. refc'[r] = refc[r] - 1
  BY <1>1, <1>2, <1>8 DEF Dec, Typed
<1>10. refc'[r] = Cardinality(Holders(r)')
                    + IF life'[r] \in Removed THEN 0 ELSE 1
  BY <1>1, <1>2, <1>6, <1>7, <1>9, HoldersFinite
<1>11. \A x \in Client : x # r => refc'[x] = refc[x]
  BY <1>1 DEF Typed
<1>12. RefcIsHolders'
  BY <1>1, <1>4, <1>10, <1>11 DEF RefInv, RefcIsHolders, Removed
<1> QED  BY <1>3, <1>12 DEF RefInv

(* remove_client() gives up the reference of the list.                      *)
LEMMA RemoveCounts ==
    ASSUME Typed, RefInv, NEW c \in Client, ExitRemove(c)
    PROVE  RefInv'
<1>1. fwd' = fwd /\ \A x \in Client : Holders(x)' = Holders(x)
  BY DEF ExitRemove, Holders
<1>2. NoUseAfterDelete'
  BY <1>1 DEF ExitRemove, RefInv, NoUseAfterDelete, Typed
<1>3. refc[c] = Cardinality(Holders(c)) + 1
  BY DEF ExitRemove, RefInv, RefcIsHolders
<1>4. CASE life' = [life EXCEPT ![c] = "stray"] /\ refc' = refc
  <2>1. life[c] = "exit"
    BY DEF ExitRemove
  <2>2. \A x \in Client : /\ life'[x] \in Removed <=> life[x] \in Removed
                          /\ life'[x] = "gone" => life[x] = "gone"
    BY <1>4, <2>1 DEF Typed, Removed
  <2> QED  BY <1>1, <1>4, <2>2, RefsStay
<1>5. CASE life' = [life EXCEPT ![c] = "removing"]
           /\ refc' = [refc EXCEPT ![c] = Dec(@)]
  <2>1. refc'[c] = Cardinality(Holders(c))
    BY <1>3, <1>5, HoldersFinite DEF Dec, Typed
  <2>2. \A x \in Client : x # c => refc'[x] = refc[x] /\ life'[x] = life[x]
    BY <1>5 DEF Typed
  <2>3. life'[c] = "removing"
    BY <1>5 DEF Typed
  <2>4. RefcIsHolders'
    BY <1>1, <2>1, <2>2, <2>3, HoldersFinite DEF RefInv, RefcIsHolders
  <2> QED  BY <1>2, <2>4 DEF RefInv
<1> QED  BY <1>4, <1>5 DEF ExitRemove

(* A client is deleted when its counter is zero: nobody holds it.           *)
LEMMA FreeUnheld ==
    ASSUME Typed, RefInv, NEW c \in Client, Free(c)
    PROVE  RefInv'
<1>1. Cardinality(Holders(c)) = 0
  BY HoldersFinite DEF Free, RefInv, RefcIsHolders
<1>2. Holders(c) = {}
  BY <1>1, HoldersFinite, FS_EmptySet
<1>3. NoUseAfterDelete'
  BY <1>2 DEF Free, Holders, RefInv, NoUseAfterDelete, Typed
<1>4. \A x \in Client : Holders(x)' = Holders(x)
  BY DEF Free, Holders
<1>5. \A x \in Client : life'[x] \in Removed <=> life[x] \in Removed
  BY DEF Free, Removed, Typed
<1>6. RefcIsHolders'
  BY <1>4, <1>5 DEF Free, RefInv, RefcIsHolders, Removed
<1> QED  BY <1>3, <1>6 DEF RefInv

LEMMA NextRefInv ==
    ASSUME "broadcast" \notin Faults, Typed, Listed, RefInv, [Next]_vars
    PROVE  RefInv'
<1>1. ASSUME NEW c \in Client, Lost(c) \/ InEnds(c) PROVE RefInv'
  BY <1>1, RefsStay DEF Lost, InEnds, Typed, Removed
<1>2. ASSUME NEW c \in Client,
             \/ Connect(c) \/ RegEnd(c) \/ RegSent(c) \/ RegTimeout(c)
             \/ RegReturn(c) \/ Reconnected(c)
      PROVE  RefInv'
  <2>1. /\ fwd' = fwd /\ refc' = refc
        /\ \/ life' = life
           \/ life[c] \in {"none", "lost"} /\ life' = [life EXCEPT ![c] = "up"]
    BY <1>2 DEF Connect, RegEnd, RegSent, RegTimeout, RegReturn, Reconnected
  <2> QED  BY <2>1, RefsStay DEF Typed, Removed
<1>3. ASSUME NEW c \in Client,
             Accept(c) \/ RegNew(c) \/ RegDone(c) \/ RegThread(c)
      PROVE  RefInv'
  <2>1. /\ fwd' = fwd /\ refc' = refc
        /\ \/ life' = life
           \/ life[c] = "none" /\ life' = [life EXCEPT ![c] = "up"]
    BY <1>3 DEF Accept, RegNew, RegDone, RegThread
  <2> QED  BY <2>1, RefsStay DEF Typed, Removed
<1>4. CASE \/ StopServer \/ ServerEnds \/ Destroy \/ Destroyed
           \/ UNCHANGED vars
  <2>1. fwd' = fwd /\ refc' = refc /\ life' = life
    BY <1>4 DEF StopServer, ServerEnds, Destroy, Destroyed, vars
  <2> QED  BY <2>1, RefsStay
<1> QED
  BY <1>1, <1>2, <1>3, <1>4, LookupCounts, ForwardCounts, RemoveCounts,
     FreeUnheld DEF Next, Step, OutboundStep, InboundStep, Client

(* Without a packet for the id "*" (gdt.cpp:1863 takes a reference off      *)
(* every route of such a packet, which find_route() has not counted),       *)
(* ref_counter is the number of IN threads that hold the client, and one    *)
(* for the list.                                                            *)
THEOREM RefcCorrect ==
    ASSUME "broadcast" \notin Faults
    PROVE  Spec => []RefcIsHolders
<1>1. Init => Typed /\ IndInv /\ RefInv
  BY InitTyped, InitIndInv, InitRefInv
<1>2. Typed /\ IndInv /\ RefInv /\ [Next]_vars => (Typed /\ IndInv /\ RefInv)'
  BY NextTyped, NextIndInv, NextRefInv DEF IndInv
<1>3. Typed /\ IndInv /\ RefInv => RefcIsHolders
  BY DEF RefInv
<1> QED  BY <1>1, <1>2, <1>3, PTL DEF Spec

(* Under the same condition remove_client() deletes no client while an IN   *)
(* thread is forwarding to it, whatever number of clients there are.        *)
THEOREM DeleteCorrect ==
    ASSUME "broadcast" \notin Faults
    PROVE  Spec => []NoUseAfterDelete
<1>1. Init => Typed /\ IndInv /\ RefInv
  BY InitTyped, InitIndInv, InitRefInv
<1>2. Typed /\ IndInv /\ RefInv /\ [Next]_vars => (Typed /\ IndInv /\ RefInv)'
  BY NextTyped, NextIndInv, NextRefInv DEF IndInv
<1>3. Typed /\ IndInv /\ RefInv => NoUseAfterDelete
  BY DEF RefInv
<1> QED  BY <1>1, <1>2, <1>3, PTL DEF Spec
-----------------------------------------------------------------------------
(* The handlers of a peer's registration, and the list.                     *)

(* A peer's stream is open only while reg_timeout_loop has nothing to wake  *)
(* up for.                                                                  *)
HandInv ==
    \A c \in Inbound :
       /\ reg[c].stream # "closing"
       /\ reg[c].stream = "open" =>
            active[c] /\ ~reg[c].posted /\ reg[c].waiter = "thread"

(* Every active client is listed, or connect() has it, or has lost it.      *)
KnownInv ==
    \A c \in Client : active[c] =>
       \/ c \in clients
       \/ c \in Outbound /\ (reg[c].waiter = "caller" \/ result[c] = "null")

(* Steps of others leave a client's registration alone.                     *)
LEMMA HandStays ==
    ASSUME HandInv, NEW c \in Outbound, active' = [active EXCEPT ![c] = active'[c]],
           Typed, Typed', \A d \in Client \ {c} : reg'[d] = reg[d]
    PROVE  HandInv'
<1>1. \A d \in Inbound : d \in Client \ {c}
  BY SessionAssumption DEF Client
<1>2. \A d \in Client \ {c} : active'[d] = active[d]
  BY DEF Typed
<1> QED  BY <1>1, <1>2 DEF HandInv

LEMMA NextHandInv ==
    ASSUME "midreg" \notin Faults, Typed, HandInv, [Next]_vars
    PROVE  HandInv'
<1> USE DEF Client
<1>0. Typed'
  BY NextTyped
<1>1. ASSUME NEW c \in Client, Lost(c) PROVE HandInv'
  <2>1. CASE c \in Inbound
    <3>1. reg' = Forced(c) /\ reg'[c].stream = "none"
      BY <1>1, <2>1 DEF Lost, Forced, HandInv, Typed, Registration
    <3>2. \A d \in Client : d # c => reg'[d] = reg[d] /\ active'[d] = active[d]
      BY <1>1, <3>1 DEF Lost, Forced, Typed
    <3> QED  BY <3>1, <3>2 DEF HandInv
  <2>2. CASE c \in Outbound
    <3>1. active' = active
      BY <1>1, <2>2 DEF Lost
    <3>2. \A d \in Client \ {c} : reg'[d] = reg[d]
      BY <1>1 DEF Lost, Forced, Typed
    <3> QED  BY <1>0, <2>2, <3>1, <3>2, HandStays DEF Typed
  <2> QED  BY <2>1, <2>2
<1>2. ASSUME NEW c \in Client, InEnds(c) PROVE HandInv'
  <2>1. /\ \A d \in Client \ {c} : reg'[d] = reg[d]
        /\ active' = active /\ ~active[c]
    BY <1>2 DEF InEnds, Forced, Typed
  <2>2. CASE c \in Inbound
    <3>1. reg[c].stream = "none"
      BY <2>1, <2>2 DEF HandInv, Typed, Registration
    <3>2. reg'[c].stream = "none"
      BY <1>2, <3>1 DEF InEnds, Forced, Typed, Registration
    <3> QED  BY <2>1, <3>2 DEF HandInv
  <2>3. CASE c \in Outbound
    BY <1>0, <2>1, <2>3, HandStays DEF Typed
  <2> QED  BY <2>2, <2>3
<1>3. ASSUME NEW c \in Client,
             ExitRemove(c) \/ Free(c) \/ FindRoute(c) \/ Forward(c)
      PROVE  HandInv'
  BY <1>3 DEF ExitRemove, Free, FindRoute, Forward, HandInv
<1>4. ASSUME NEW c \in Outbound, OutboundStep(c) PROVE HandInv'
  <2>1. \A d \in Client \ {c} : reg'[d] = reg[d]
    BY <1>4 DEF OutboundStep, Connect, RegEnd, RegSent, RegTimeout, RegReturn,
                Reconnected, Typed
  <2>2. active' = active \/ active' = [active EXCEPT ![c] = TRUE]
    BY <1>4 DEF OutboundStep, Connect, RegEnd, RegSent, RegTimeout, RegReturn,
                Reconnected
  <2>3. active' = [active EXCEPT ![c] = active'[c]]
    BY <2>2 DEF Typed
  <2> QED  BY <1>0, <2>1, <2>3, HandStays
<1>5. ASSUME NEW c \in Inbound, InboundStep(c) PROVE HandInv'
  <2>1. \A d \in Client \ {c} : reg'[d] = reg[d] /\ active'[d] = active[d]
    BY <1>5 DEF InboundStep, Accept, RegNew, RegDone, RegThread, Typed
  <2>2. /\ reg'[c].stream # "closing"
        /\ reg'[c].stream = "open" =>
             active'[c] /\ ~reg'[c].posted /\ reg'[c].waiter = "thread"
    <3>1. CASE Accept(c)
      BY <3>1 DEF Accept, HandInv, Typed, Registration
    <3>2. CASE RegNew(c)
      <4>1. PICK got \in BOOLEAN :
              reg' = [reg EXCEPT ![c].stream = "open", ![c].got = got]
        BY <3>2 DEF RegNew
      <4> QED  BY <3>2, <4>1 DEF RegNew, Typed, Registration
    <3>3. CASE RegDone(c)
      <4>1. reg' = [reg EXCEPT ![c].stream = "none", ![c].posted = TRUE]
        BY <3>3 DEF RegDone
      <4> QED  BY <4>1 DEF Typed, Registration
    <3>4. CASE RegThread(c)
      BY <3>4 DEF RegThread, HandInv, Typed, Registration
    <3> QED  BY <1>5, <3>1, <3>2, <3>3, <3>4 DEF InboundStep
  <2> QED  BY <2>1, <2>2 DEF HandInv
<1>6. CASE StopServer \/ ServerEnds \/ Destroyed \/ UNCHANGED vars
  BY <1>6 DEF StopServer, ServerEnds, Destroyed, vars, HandInv
<1>7. CASE Destroy
  BY <1>7 DEF Destroy, HandInv
<1> QED
  BY <1>1, <1>2, <1>3, <1>4, <1>5, <1>6, <1>7 DEF Next, Step

LEMMA NextKnownInv ==
    ASSUME Typed, Listed, KnownInv, [Next]_vars
    PROVE  KnownInv'
<1>1. ASSUME NEW c \in Client, Lost(c) \/ InEnds(c) PROVE KnownInv'
  <2>1. \A d \in Client : /\ reg'[d].waiter = reg[d].waiter
                          /\ active'[d] => active[d]
    BY <1>1 DEF Lost, InEnds, Forced, Typed, Registration
  <2> QED  BY <1>1, <2>1 DEF Lost, InEnds, KnownInv
<1>2. ASSUME NEW c \in Client, ExitRemove(c) PROVE KnownInv'
  <2>1. ~active[c] /\ active' = active /\ reg' = reg /\ result' = result
    BY <1>2 DEF ExitRemove, Listed
  <2>2. \A d \in Client : d # c /\ d \in clients => d \in clients'
    BY <1>2 DEF ExitRemove
  <2> QED  BY <2>1, <2>2 DEF KnownInv
<1>3. ASSUME NEW c \in Client, Free(c) \/ FindRoute(c) \/ Forward(c)
      PROVE  KnownInv'
  BY <1>3 DEF Free, FindRoute, Forward, KnownInv
<1>4. ASSUME NEW c \in Outbound, OutboundStep(c) PROVE KnownInv'
  <2> USE DEF Client
  <2>1. CASE Connect(c)
    BY <2>1 DEF Connect, KnownInv, Typed, Registration
  <2>2. CASE RegEnd(c) \/ RegSent(c) \/ RegTimeout(c)
    <3>1. \/ \E got \in BOOLEAN :
                reg' = [reg EXCEPT ![c].stream = "closing", ![c].got = got]
          \/ reg' = [reg EXCEPT ![c].stream = "none", ![c].posted = TRUE]
      BY <2>2 DEF RegEnd, RegSent, RegTimeout
    <3>2. \A d \in Client : reg'[d].waiter = reg[d].waiter
      BY <3>1 DEF Typed, Registration
    <3>3. active' = active /\ clients' = clients /\ result' = result
      BY <2>2 DEF RegEnd, RegSent, RegTimeout
    <3> QED  BY <3>2, <3>3 DEF KnownInv
  <2>3. CASE RegReturn(c)
    <3>1. \A d \in Client : d # c => /\ reg'[d] = reg[d]
                                     /\ d \in clients' <=> d \in clients
                                     /\ d \in Outbound => result'[d] = result[d]
      BY <2>3 DEF RegReturn, Typed
    <3>2. active' = active
      BY <2>3 DEF RegReturn
    <3>3. reg[c].waiter = "caller" => c \in clients' \/ result'[c] = "null"
      BY <2>3 DEF RegReturn, Typed
    <3>4. reg[c].waiter # "caller" => clients' = clients /\ result' = result
      BY <2>3 DEF RegReturn
    <3> QED  BY <3>1, <3>2, <3>3, <3>4 DEF KnownInv
  <2>4. CASE Reconnected(c)
    BY <2>4 DEF Reconnected, KnownInv, Typed, Registration
  <2> QED  BY <1>4, <2>1, <2>2, <2>3, <2>4 DEF OutboundStep
<1>5. ASSUME NEW c \in Inbound, InboundStep(c) PROVE KnownInv'
  <2> USE DEF Client
  <2>1. CASE Accept(c)
    BY <2>1, SessionAssumption DEF Accept, KnownInv, Typed, Registration
  <2>2. CASE RegNew(c)
    <3>1. PICK got \in BOOLEAN :
            reg' = [reg EXCEPT ![c].stream = "open", ![c].got = got]
      BY <2>2 DEF RegNew
    <3>2. \A d \in Client : reg'[d].waiter = reg[d].waiter
      BY <3>1 DEF Typed, Registration
    <3> QED  BY <2>2, <3>2 DEF RegNew, KnownInv
  <2>3. CASE RegDone(c)
    <3>1. reg' = [reg EXCEPT ![c].stream = "none", ![c].posted = TRUE]
      BY <2>3 DEF RegDone
    <3>2. \A d \in Client : reg'[d].waiter = reg[d].waiter
      BY <3>1 DEF Typed, Registration
    <3>3. \A d \in Client : active'[d] => active[d]
      BY <2>3 DEF RegDone, Typed
    <3> QED  BY <2>3, <3>2, <3>3 DEF RegDone, KnownInv
  <2>4. CASE RegThread(c)
    <3>1. \A d \in Client : reg[d].waiter = "caller" => reg'[d].waiter = "caller"
      BY <2>4 DEF RegThread, Typed, Registration
    <3> QED  BY <2>4, <3>1 DEF RegThread, KnownInv
  <2> QED  BY <1>5, <2>1, <2>2, <2>3, <2>4 DEF InboundStep
<1>6. CASE StopServer \/ ServerEnds \/ Destroyed \/ UNCHANGED vars
  BY <1>6 DEF StopServer, ServerEnds, Destroyed, vars, KnownInv
<1>7. CASE Destroy
  BY <1>7 DEF Destroy, KnownInv
<1> QED
  BY <1>1, <1>2, <1>3, <1>4, <1>5, <1>6, <1>7 DEF Next, Step

(* Unless the session is destroyed in the middle of a registration,         *)
(* reg_timeout_loop frees the two handlers of a registration only after the *)
(* peer's stream has ended, so that IN calls no freed handler.              *)
THEOREM HandlersCorrect ==
    ASSUME "midreg" \notin Faults
    PROVE  Spec => []HandlersLive
<1>1. Init => Typed /\ HandInv
  BY InitTyped DEF Init, HandInv, Client
<1>2. Typed /\ HandInv /\ [Next]_vars => (Typed /\ HandInv)'
  BY NextTyped, NextHandInv
<1>3. HandInv => HandlersLive
  BY DEF HandInv, HandlersLive
<1> QED  BY <1>1, <1>2, <1>3, PTL DEF Spec

(* A client that has registered and is active can be found as a route,      *)
(* unless connect() has not returned yet or has returned nothing            *)
(* (gdt.cpp:5180).                                                          *)
THEOREM ListCorrect == Spec => []RegisteredIsListed
<1>1. Init => Typed /\ IndInv /\ KnownInv
  BY InitTyped, InitIndInv DEF Init, KnownInv
<1>2. Typed /\ IndInv /\ KnownInv /\ [Next]_vars
        => (Typed /\ IndInv /\ KnownInv)'
  BY NextTyped, NextIndInv, NextKnownInv DEF IndInv
<1>3. KnownInv => RegisteredIsListed
  BY DEF KnownInv, RegisteredIsListed
<1> QED  BY <1>1, <1>2, <1>3, PTL DEF Spec

-----------------------------------------------------------------------------
(* Service messages: numbers, sets of numbers. *)

(* A set of numbers has a smallest one. *)
LEMMA LeastNatural ==
    ASSUME NEW T \in SUBSET Nat, T # {}
    PROVE  \E x \in T : \A y \in T : x <= y
<1> DEFINE R == OpToRel(<, Nat)
<1>1. IsWellFoundedOn(R, Nat)
  BY NatLessThanWellFounded
<1>2. \A x, y \in Nat : y < x => <<y, x>> \in R
  BY DEF OpToRel
<1> HIDE DEF R
<1>3. PICK x \in T : \A y \in T : ~ (<<y, x>> \in R)
  BY <1>1, WFMin
<1>4. ASSUME NEW y \in T PROVE x <= y
  <2>1. x \in Nat /\ y \in Nat /\ ~ (y < x)
    BY <1>2, <1>3
  <2> QED  BY <2>1
<1> QED  BY <1>3, <1>4

(* Induction: a set of numbers with 0 and every successor up to n has n.   *)
LEMMA AllUpTo ==
    ASSUME NEW n \in Nat, NEW T, 0 \in T,
           \A k \in 0 .. n - 1 : k \in T => k + 1 \in T
    PROVE  \A k \in 0 .. n : k \in T
<1> SUFFICES ASSUME NEW j \in 0 .. n, j \notin T PROVE FALSE
  OBVIOUS
<1> DEFINE U == {k \in 0 .. n : k \notin T}
<1>0. U \in SUBSET Nat /\ j \in U
  OBVIOUS
<1>1. PICK k \in U : \A y \in U : k <= y
  <2> HIDE DEF U
  <2> QED  BY <1>0, LeastNatural
<1>2. k # 0 /\ k \in Nat /\ k <= n /\ k \notin T
  BY <1>1
<1>3. k - 1 \in 0 .. n - 1 /\ k - 1 \notin U /\ k - 1 \in 0 .. n
  BY <1>1, <1>2
<1>4. k - 1 \in T
  BY <1>3
<1>5. k - 1 + 1 = k
  BY <1>2
<1> QED  BY <1>2, <1>3, <1>4, <1>5

(* Max() of a set of positions. *)
LEMMA MaxIs ==
    ASSUME NEW k \in Nat, NEW S \in SUBSET (1 .. k), S # {}
    PROVE  Max(S) \in S /\ \A y \in S : y <= Max(S)
<1> DEFINE B == {j \in Nat : \A y \in S : y <= j}
<1>1. B \in SUBSET Nat /\ k \in B
  OBVIOUS
<1>2. PICK b \in B : \A c \in B : b <= c
  <2> HIDE DEF B
  <2> QED  BY <1>1, LeastNatural
<1>3. b \in Nat /\ \A y \in S : y <= b /\ y \in Nat /\ y >= 1
  BY <1>2
<1>4. b \in S
  <2> SUFFICES ASSUME b \notin S PROVE FALSE
    OBVIOUS
  <2>0. PICK x \in S : TRUE
    OBVIOUS
  <2>1. b - 1 \in Nat /\ \A y \in S : y <= b - 1
    <3>1. b >= 1
      BY <1>3, <2>0
    <3>2. \A y \in S : y # b
      OBVIOUS
    <3> QED  BY <1>3, <3>1, <3>2
  <2> QED  BY <1>2, <1>3, <2>1
<1>5. \E x \in S : \A y \in S : x >= y
  BY <1>3, <1>4
<1>6. Max(S) \in S /\ \A y \in S : Max(S) >= y
  BY <1>5 DEF Max
<1> QED  BY <1>3, <1>6

(* The last position of all is the largest. *)
LEMMA MaxLast ==
    ASSUME NEW k \in Nat, NEW S \in SUBSET (1 .. k), k \in S
    PROVE  Max(S) = k
<1>1. Max(S) \in 1 .. k /\ k <= Max(S)
  BY MaxIs
<1> QED  BY <1>1

-----------------------------------------------------------------------------
(* Loops and folds. *)

(* One step of each of the loops: of free_smsg(), of the allocations, of   *)
(* send(), of the handlers, and of the folds that only compute.            *)
NewOne(a, i) == IF ~Available(a.g, TypeOf(i)) THEN a
                ELSE [g |-> NewParam(a.g, i, 0, Size[i]),
                      ps |-> Append(a.ps, NextParam(a.g, TypeOf(i)))]

Does(k, c, x, y) ==
    CASE k = "free"  -> FreeParam(x, y)
      [] k = "new"   -> NewOne(x, y)
      [] k = "link"  -> Link(x, y)
      [] k = "count" -> x + Fragments(c.prm[y].id)
      [] k = "put"   -> Put(c[1], c[2], x)
      [] k = "recv"  -> RecvParam(x, c, y)
      [] k = "size"  -> x + y.len + Overhead
      [] k = "join"  -> x \o y

(* A loop over the first n elements of q. *)
IsRun(r, k, c, n, q, x) == r[0] = x /\ \A j \in 0 .. n - 1 : r[j + 1] = Does(k, c, r[j], q[j + 1])

(* A loop over n elements comes to an end. *)
LEMMA RunExists ==
    ASSUME NEW k, NEW c, NEW n \in Nat, NEW q, NEW x
    PROVE  \E r : IsRun(r, k, c, n, q, x)
<1> DEFINE T == {l \in 0 .. n : \E r : IsRun(r, k, c, l, q, x)}
<1>1. 0 \in T
  <2> DEFINE r == [j \in {0} |-> x]
  <2>1. r[0] = x /\ \A j \in 0 .. 0 - 1 : FALSE
    OBVIOUS
  <2> HIDE DEF r
  <2>2. IsRun(r, k, c, 0, q, x)
    BY <2>1 DEF IsRun
  <2> QED  BY <2>2
<1>2. ASSUME NEW l \in 0 .. n - 1, l \in T PROVE l + 1 \in T
  <2>1. PICK r : IsRun(r, k, c, l, q, x)
    BY <1>2
  <2> DEFINE s == [j \in 0 .. l + 1 |-> IF j = l + 1 THEN Does(k, c, r[l], q[l + 1]) ELSE r[j]]
  <2>2. \A j \in 0 .. l : s[j] = r[j] /\ s[l + 1] = Does(k, c, r[l], q[l + 1])
    OBVIOUS
  <2> HIDE DEF s
  <2>3. s[0] = x
    BY <2>1, <2>2 DEF IsRun
  <2>4. ASSUME NEW j \in 0 .. l PROVE s[j + 1] = Does(k, c, s[j], q[j + 1])
    <3>1. CASE j = l
      BY <2>2, <3>1
    <3>2. CASE j # l
      <4>1. j \in 0 .. l - 1 /\ j + 1 \in 0 .. l
        BY <3>2
      <4> QED  BY <2>1, <2>2, <4>1 DEF IsRun
    <3> QED  BY <3>1, <3>2
  <2>5. IsRun(s, k, c, l + 1, q, x)
    BY <2>3, <2>4 DEF IsRun
  <2> QED  BY <2>5
<1> HIDE DEF T
<1>3. \A l \in 0 .. n : l \in T
  BY <1>1, <1>2, AllUpTo
<1> QED  BY <1>3 DEF T

(* The same loop over the same elements comes to the same. *)
LEMMA RunsAgree ==
    ASSUME NEW k, NEW c, NEW m \in Nat, NEW q, NEW z, NEW x, NEW r, NEW s,
           IsRun(r, k, c, m, q, x), IsRun(s, k, c, m, z, x),
           \A j \in 1 .. m : q[j] = z[j]
    PROVE  \A j \in 0 .. m : r[j] = s[j]
<1> DEFINE T == {j \in 0 .. m : r[j] = s[j]}
<1>1. 0 \in T
  BY DEF IsRun
<1>2. ASSUME NEW j \in 0 .. m - 1, j \in T PROVE j + 1 \in T
  <2>1. j + 1 \in 0 .. m /\ j + 1 \in 1 .. m /\ r[j] = s[j]
    BY <1>2
  <2>2. r[j + 1] = Does(k, c, r[j], q[j + 1]) /\ s[j + 1] = Does(k, c, s[j], z[j + 1])
    BY <2>1 DEF IsRun
  <2> QED  BY <2>1, <2>2
<1> HIDE DEF T
<1>3. \A j \in 0 .. m : j \in T
  BY <1>1, <1>2, AllUpTo
<1> QED  BY <1>3 DEF T

(* FoldLeft() over q, as a function of the positions already folded. *)
IsFold(f, k, c, n, q, x) ==
    f = [S \in SUBSET (1 .. n) |->
           IF S = {} THEN x ELSE Does(k, c, f[S \ {Max(S)}], q[Max(S)])]

(* FoldLeft() has such a function: the recursion over positions is sound. *)
LEMMA FoldExists ==
    ASSUME NEW k, NEW c, NEW n \in Nat, NEW q, NEW x
    PROVE  \E f : IsFold(f, k, c, n, q, x)
<1> DEFINE Is(f, l) == \A S \in SUBSET (1 .. l) :
               f[S] = IF S = {} THEN x ELSE Does(k, c, f[S \ {Max(S)}], q[Max(S)])
           T == {l \in 0 .. n : \E f : Is(f, l)}
<1>1. 0 \in T
  <2> DEFINE f == [S \in SUBSET (1 .. 0) |-> x]
  <2>1. \A S \in SUBSET (1 .. 0) : S = {} /\ f[S] = x
    OBVIOUS
  <2> HIDE DEF f
  <2>2. Is(f, 0)
    BY <2>1
  <2>3. 0 \in 0 .. n
    OBVIOUS
  <2> HIDE DEF Is
  <2> QED  BY <2>2, <2>3
<1>2. ASSUME NEW l \in 0 .. n - 1, l \in T PROVE l + 1 \in T
  <2>1. PICK f : Is(f, l)
    BY <1>2
  <2> DEFINE g == [S \in SUBSET (1 .. l + 1) |->
                     IF l + 1 \in S THEN Does(k, c, f[S \ {l + 1}], q[l + 1]) ELSE f[S]]
  <2>2. ASSUME NEW S \in SUBSET (1 .. l + 1)
        PROVE  g[S] = IF S = {} THEN x ELSE Does(k, c, g[S \ {Max(S)}], q[Max(S)])
    <3>1. CASE l + 1 \in S
      <4>1. Max(S) = l + 1
        BY <3>1, MaxLast
      <4>2. S \ {l + 1} \in SUBSET (1 .. l) /\ l + 1 \notin S \ {l + 1}
             /\ S \ {l + 1} \in SUBSET (1 .. l + 1)
        OBVIOUS
      <4>3. g[S \ {l + 1}] = f[S \ {l + 1}]
        BY <4>2
      <4>5. g[S] = Does(k, c, f[S \ {l + 1}], q[l + 1])
        BY <3>1
      <4> QED  BY <3>1, <4>1, <4>3, <4>5
    <3>2. CASE l + 1 \notin S
      <4>1. S \in SUBSET (1 .. l)
        BY <3>2
      <4>2. g[S] = f[S]
        BY <3>2, <4>1
      <4>3. CASE S # {}
        <5>1. Max(S) \in S
          <6>1. l \in Nat
            OBVIOUS
          <6> QED  BY <4>1, <4>3, <6>1, MaxIs
        <5>2. S \ {Max(S)} \in SUBSET (1 .. l) /\ l + 1 \notin S \ {Max(S)}
               /\ S \ {Max(S)} \in SUBSET (1 .. l + 1)
          BY <3>2, <4>1
        <5>3. g[S \ {Max(S)}] = f[S \ {Max(S)}]
          BY <5>2
        <5>4. f[S] = Does(k, c, f[S \ {Max(S)}], q[Max(S)])
          BY <2>1, <4>1, <4>3
        <5> QED  BY <4>2, <4>3, <5>3, <5>4
      <4>4. CASE S = {}
        BY <2>1, <4>1, <4>2, <4>4
      <4> QED  BY <4>3, <4>4
    <3> QED  BY <3>1, <3>2
  <2> HIDE DEF g
  <2>3. Is(g, l + 1)
    BY <2>2
  <2>4. l + 1 \in 0 .. n
    OBVIOUS
  <2> HIDE DEF Is
  <2> QED  BY <2>3, <2>4
<1> HIDE DEF T
<1>3. \A l \in 0 .. n : l \in T
  BY <1>1, <1>2, AllUpTo
<1>4. n \in T
  BY <1>3
<1>5. PICK f : Is(f, n)
  BY <1>4 DEF T
<1> DEFINE g == [S \in SUBSET (1 .. n) |-> f[S]]
<1>6. ASSUME NEW S \in SUBSET (1 .. n)
      PROVE  g[S] = IF S = {} THEN x ELSE Does(k, c, g[S \ {Max(S)}], q[Max(S)])
  <2>1. S \ {Max(S)} \in SUBSET (1 .. n)
    OBVIOUS
  <2> QED  BY <1>5, <2>1
<1>7. g = [S \in SUBSET (1 .. n) |-> g[S]]
  OBVIOUS
<1> HIDE DEF g
<1>8. IsFold(g, k, c, n, q, x)
  BY <1>6, <1>7 DEF IsFold
<1> QED  BY <1>8

(* What a fold computes is what the loop comes to. *)
LEMMA FoldIsRun ==
    ASSUME NEW k, NEW c, NEW n \in Nat, NEW q, NEW x, NEW f, IsFold(f, k, c, n, q, x)
    PROVE  \E r : IsRun(r, k, c, n, q, x) /\ r[n] = f[1 .. n]
<1> DEFINE r == [j \in 0 .. n |-> f[1 .. j]]
<1>0. \A j \in 0 .. n : r[j] = f[1 .. j]
  OBVIOUS
<1> HIDE DEF r
<1>1. r[0] = x
  <2>1. 1 .. 0 = {} /\ {} \in SUBSET (1 .. n)
    OBVIOUS
  <2>2. f[{}] = x
    BY <2>1 DEF IsFold
  <2> QED  BY <1>0, <2>1, <2>2
<1>2. ASSUME NEW j \in 0 .. n - 1 PROVE r[j + 1] = Does(k, c, r[j], q[j + 1])
  <2>1. Max(1 .. j + 1) = j + 1
    BY MaxLast
  <2>2. (1 .. j + 1) \ {j + 1} = 1 .. j
    OBVIOUS
  <2>3. 1 .. j + 1 \in SUBSET (1 .. n) /\ j + 1 \in 1 .. j + 1 /\ j + 1 \in 0 .. n /\ j \in 0 .. n
    OBVIOUS
  <2>4. f[1 .. j + 1] = Does(k, c, f[(1 .. j + 1) \ {Max(1 .. j + 1)}], q[Max(1 .. j + 1)])
    BY <2>3 DEF IsFold
  <2> QED  BY <1>0, <2>1, <2>2, <2>3, <2>4
<1> QED  BY <1>0, <1>1, <1>2 DEF IsRun

(* The fragments of some parameters; the size of a packet. *)
CountOf(g, q) == FoldLeft(LAMBDA c, p : c + Fragments(g.prm[p].id), 0, q)
SizeOf(q) == FoldLeft(LAMBDA c, t : c + t.len + Overhead, 0, q)

(* The folds of the model are such loops. *)
LEMMA FreeRun ==
    ASSUME NEW g, NEW n \in Nat, NEW q, DOMAIN q = 1 .. n
    PROVE  \E r : /\ IsRun(r, "free", g, n, q, g)
                  /\ FoldLeft(FreeParam, g, q) = r[n]
<1> DEFINE F(f) == [S \in SUBSET (1 .. n) |-> IF S = {} THEN g
                      ELSE FreeParam(f[S \ {Max(S)}], q[Max(S)])]
           f == CHOOSE f : f = F(f)
<1>1. \A h : IsFold(h, "free", g, n, q, g) <=> h = F(h)
  BY DEF IsFold, Does
<1>2. \E h : h = F(h)
  <2> HIDE DEF F
  <2> QED  BY <1>1, FoldExists
<1>3. FoldLeft(FreeParam, g, q) = f[1 .. n]
  BY DEF FoldLeft, MapThenFoldSet
<1> HIDE DEF F
<1>4. f = F(f)
  BY <1>2
<1> HIDE DEF f
<1> QED  BY <1>1, <1>3, <1>4, FoldIsRun

(* NewParams() is the loop of the allocations, *)
LEMMA NewRun ==
    ASSUME NEW g, NEW n \in Nat, NEW q, DOMAIN q = 1 .. n
    PROVE  \E r : /\ IsRun(r, "new", g, n, q, [g |-> g, ps |-> <<>>])
                  /\ NewParams(g, q) = r[n]
<1> DEFINE F(f) == [S \in SUBSET (1 .. n) |-> IF S = {} THEN [g |-> g, ps |-> <<>>]
                      ELSE NewOne(f[S \ {Max(S)}], q[Max(S)])]
           f == CHOOSE f : f = F(f)
<1>1. \A h : IsFold(h, "new", g, n, q, [g |-> g, ps |-> <<>>]) <=> h = F(h)
  BY DEF IsFold, Does
<1>2. \E h : h = F(h)
  <2> HIDE DEF F
  <2> QED  BY <1>1, FoldExists
<1>3. NewParams(g, q) = f[1 .. n]
  BY DEF FoldLeft, MapThenFoldSet, NewParams, NewOne
<1> HIDE DEF F
<1>4. f = F(f)
  BY <1>2
<1> HIDE DEF f
<1> QED  BY <1>1, <1>3, <1>4, FoldIsRun

(* Open() begins with the loop of send() over the parameters, *)
LEMMA LinkRun ==
    ASSUME NEW g, NEW n \in Nat, NEW q, DOMAIN q = 1 .. n
    PROVE  \E r : /\ IsRun(r, "link", g, n, q, g)
                  /\ FoldLeft(Link, g, q) = r[n]
<1> DEFINE F(f) == [S \in SUBSET (1 .. n) |-> IF S = {} THEN g
                      ELSE Link(f[S \ {Max(S)}], q[Max(S)])]
           f == CHOOSE f : f = F(f)
<1>1. \A h : IsFold(h, "link", g, n, q, g) <=> h = F(h)
  BY DEF IsFold, Does
<1>2. \E h : h = F(h)
  <2> HIDE DEF F
  <2> QED  BY <1>1, FoldExists
<1>3. FoldLeft(Link, g, q) = f[1 .. n]
  BY DEF FoldLeft, MapThenFoldSet
<1> HIDE DEF F
<1>4. f = F(f)
  BY <1>2
<1> HIDE DEF f
<1> QED  BY <1>1, <1>3, <1>4, FoldIsRun

(* and with one that counts their fragments. *)
LEMMA CountRun ==
    ASSUME NEW g, NEW n \in Nat, NEW q, DOMAIN q = 1 .. n
    PROVE  \E r : /\ IsRun(r, "count", g, n, q, 0)
                  /\ CountOf(g, q) = r[n]
<1> DEFINE F(f) == [S \in SUBSET (1 .. n) |-> IF S = {} THEN 0
                      ELSE f[S \ {Max(S)}] + Fragments(g.prm[q[Max(S)]].id)]
           f == CHOOSE f : f = F(f)
<1>1. \A h : IsFold(h, "count", g, n, q, 0) <=> h = F(h)
  BY DEF IsFold, Does
<1>2. \E h : h = F(h)
  <2> HIDE DEF F
  <2> QED  BY <1>1, FoldExists
<1>3. CountOf(g, q) = f[1 .. n]
  BY DEF FoldLeft, MapThenFoldSet, CountOf
<1> HIDE DEF F
<1>4. f = F(f)
  BY <1>2
<1> HIDE DEF f
<1> QED  BY <1>1, <1>3, <1>4, FoldIsRun

(* RecvParams() is the loop of the handlers over a packet. *)
LEMMA RecvRun ==
    ASSUME NEW g, NEW m, NEW n \in Nat, NEW q, DOMAIN q = 1 .. n
    PROVE  \E r : /\ IsRun(r, "recv", m, n, q, g)
                  /\ RecvParams(g, m, q) = r[n]
<1> DEFINE F(f) == [S \in SUBSET (1 .. n) |-> IF S = {} THEN g
                      ELSE RecvParam(f[S \ {Max(S)}], m, q[Max(S)])]
           f == CHOOSE f : f = F(f)
<1>1. \A h : IsFold(h, "recv", m, n, q, g) <=> h = F(h)
  BY DEF IsFold, Does
<1>2. \E h : h = F(h)
  <2> HIDE DEF F
  <2> QED  BY <1>1, FoldExists
<1>3. RecvParams(g, m, q) = f[1 .. n]
  BY DEF FoldLeft, MapThenFoldSet, RecvParams
<1> HIDE DEF F
<1>4. f = F(f)
  BY <1>2
<1> HIDE DEF f
<1> QED  BY <1>1, <1>3, <1>4, FoldIsRun

(* The size of a packet is added up. *)
LEMMA SizeRun ==
    ASSUME NEW n \in Nat, NEW q, DOMAIN q = 1 .. n
    PROVE  \E r : /\ IsRun(r, "size", 0, n, q, 0)
                  /\ SizeOf(q) = r[n]
<1> DEFINE F(f) == [S \in SUBSET (1 .. n) |-> IF S = {} THEN 0
                      ELSE f[S \ {Max(S)}] + q[Max(S)].len + Overhead]
           f == CHOOSE f : f = F(f)
<1>1. \A h : IsFold(h, "size", 0, n, q, 0) <=> h = F(h)
  BY DEF IsFold, Does
<1>2. \E h : h = F(h)
  <2> HIDE DEF F
  <2> QED  BY <1>1, FoldExists
<1>3. SizeOf(q) = f[1 .. n]
  BY DEF FoldLeft, MapThenFoldSet, SizeOf
<1> HIDE DEF F
<1>4. f = F(f)
  BY <1>2
<1> HIDE DEF f
<1> QED  BY <1>1, <1>3, <1>4, FoldIsRun

(* SumFunctionOnSet(): what it adds up, and what it is of zeros and ones.  *)
AnyOf(s) == CHOOSE x \in s : TRUE
SumStep(f, fun, S) == [s \in SUBSET S |-> IF s = {} THEN 0 ELSE fun[AnyOf(s)] + f[s \ {AnyOf(s)}]]
IsSum(f, fun, S) == \A s \in SUBSET S : f[s] = IF s = {} THEN 0 ELSE fun[AnyOf(s)] + f[s \ {AnyOf(s)}]

(* The function on subsets that SumFunctionOnSet() chooses exists, *)
LEMMA SumExists ==
    ASSUME NEW S, IsFiniteSet(S), NEW fun
    PROVE  \E f : f = SumStep(f, fun, S)
<1> DEFINE n == Cardinality(S)
           Is(f, l) == \A s \in SUBSET S : Cardinality(s) <= l =>
                         f[s] = IF s = {} THEN 0 ELSE fun[AnyOf(s)] + f[s \ {AnyOf(s)}]
           T == {l \in 0 .. n : \E f : Is(f, l)}
<1>0. n \in Nat /\ \A s \in SUBSET S : IsFiniteSet(s) /\ Cardinality(s) \in Nat /\ Cardinality(s) <= n
  BY FS_CardinalityType, FS_Subset
<1>a. \A s \in SUBSET S : s # {} => /\ AnyOf(s) \in s /\ s \ {AnyOf(s)} \in SUBSET S
                                    /\ Cardinality(s \ {AnyOf(s)}) = Cardinality(s) - 1
  <2> SUFFICES ASSUME NEW s \in SUBSET S, s # {}
               PROVE  /\ AnyOf(s) \in s /\ s \ {AnyOf(s)} \in SUBSET S
                      /\ Cardinality(s \ {AnyOf(s)}) = Cardinality(s) - 1
    OBVIOUS
  <2>1. AnyOf(s) \in s
    BY DEF AnyOf
  <2> QED  BY <1>0, <2>1, FS_RemoveElement
<1> HIDE DEF n
<1>1. 0 \in T
  <2> DEFINE f == [s \in SUBSET S |-> 0]
  <2>1. \A s \in SUBSET S : Cardinality(s) <= 0 => s = {}
    BY <1>0, FS_EmptySet
  <2>2. \A s \in SUBSET S : f[s] = 0
    OBVIOUS
  <2> HIDE DEF f
  <2>3. Is(f, 0)
    BY <2>1, <2>2
  <2>4. 0 \in 0 .. n
    BY <1>0
  <2> HIDE DEF Is
  <2> QED  BY <2>3, <2>4
<1>2. ASSUME NEW l \in 0 .. n - 1, l \in T PROVE l + 1 \in T
  <2>1. PICK f : Is(f, l)
    BY <1>2
  <2> DEFINE g == [s \in SUBSET S |-> IF s = {} THEN 0 ELSE fun[AnyOf(s)] + f[s \ {AnyOf(s)}]]
  <2>2. ASSUME NEW s \in SUBSET S, Cardinality(s) <= l
        PROVE  g[s] = f[s]
    BY <2>1, <2>2
  <2>3. \A s \in SUBSET S : g[s] = IF s = {} THEN 0 ELSE fun[AnyOf(s)] + f[s \ {AnyOf(s)}]
    OBVIOUS
  <2> HIDE DEF g
  <2>4. ASSUME NEW s \in SUBSET S, Cardinality(s) <= l + 1, s # {}
        PROVE  g[s] = fun[AnyOf(s)] + g[s \ {AnyOf(s)}]
    <3>1. s \ {AnyOf(s)} \in SUBSET S /\ Cardinality(s \ {AnyOf(s)}) <= l
      BY <1>0, <1>a, <2>4
    <3> QED  BY <2>2, <2>3, <2>4, <3>1
  <2>5. Is(g, l + 1)
    BY <2>3, <2>4
  <2>6. l + 1 \in 0 .. n
    BY <1>0
  <2> HIDE DEF Is
  <2> QED  BY <2>5, <2>6
<1> HIDE DEF T
<1>3. n \in T
  <2>1. \A l \in 0 .. n : l \in T
    BY <1>0, <1>1, <1>2, AllUpTo
  <2> QED  BY <1>0, <2>1
<1>4. PICK f : Is(f, n)
  BY <1>3 DEF T
<1> DEFINE g == [s \in SUBSET S |-> f[s]]
<1>5. \A s \in SUBSET S : g[s] = IF s = {} THEN 0 ELSE fun[AnyOf(s)] + g[s \ {AnyOf(s)}]
  BY <1>0, <1>a, <1>4
<1>6. g = [s \in SUBSET S |-> g[s]]
  OBVIOUS
<1> HIDE DEF g
<1>7. g = SumStep(g, fun, S)
  BY <1>5, <1>6 DEF SumStep
<1> QED  BY <1>7

(* and it is the sum. *)
LEMMA SumIs ==
    ASSUME NEW S, IsFiniteSet(S), NEW fun
    PROVE  \E f : IsSum(f, fun, S) /\ SumFunctionOnSet(fun, S) = f[S]
<1> DEFINE f == CHOOSE f : f = SumStep(f, fun, S)
<1>1. f = SumStep(f, fun, S)
  BY SumExists
<1>2. SumFunctionOnSet(fun, S) = f[S]
  BY DEF SumFunctionOnSet, FoldFunctionOnSet, MapThenFoldSet, AnyOf, SumStep
<1> HIDE DEF f
<1>3. IsSum(f, fun, S)
  BY <1>1 DEF IsSum, SumStep
<1> QED  BY <1>2, <1>3

(* Zeros and ones add up to the number of the ones. *)
LEMMA SumOfOnes ==
    ASSUME NEW S, IsFiniteSet(S), NEW fun, \A x \in S : fun[x] \in {0, 1}
    PROVE  SumFunctionOnSet(fun, S) = Cardinality({x \in S : fun[x] = 1})
<1>1. PICK f : IsSum(f, fun, S) /\ SumFunctionOnSet(fun, S) = f[S]
  BY SumIs
<1> DEFINE n == Cardinality(S)
           Ones(s) == {x \in s : fun[x] = 1}
           T == {l \in 0 .. n : \A s \in SUBSET S : Cardinality(s) = l => f[s] = Cardinality(Ones(s))}
<1>0. n \in Nat /\ \A s \in SUBSET S : IsFiniteSet(s) /\ Cardinality(s) \in Nat /\ Cardinality(s) <= n
  BY FS_CardinalityType, FS_Subset
<1> HIDE DEF n
<1>2. 0 \in T
  <2>1. ASSUME NEW s \in SUBSET S, Cardinality(s) = 0 PROVE f[s] = Cardinality(Ones(s))
    <3>1. s = {}
      BY <1>0, <2>1, FS_EmptySet
    <3>2. Ones(s) = {}
      BY <3>1
    <3> QED  BY <1>1, <3>1, <3>2, FS_EmptySet DEF IsSum
  <2>2. 0 \in 0 .. n
    BY <1>0
  <2> HIDE DEF Ones
  <2> QED  BY <2>1, <2>2
<1>3. ASSUME NEW l \in 0 .. n - 1, l \in T PROVE l + 1 \in T
  <2>1. ASSUME NEW s \in SUBSET S, Cardinality(s) = l + 1 PROVE f[s] = Cardinality(Ones(s))
    <3> DEFINE x == AnyOf(s)  t == s \ {x}
    <3>1. s # {}
      BY <1>0, <2>1, FS_EmptySet
    <3>2. x \in s /\ x \in S
      BY <3>1 DEF AnyOf
    <3>3. t \in SUBSET S /\ Cardinality(t) = l
      <4>1. IsFiniteSet(s) /\ Cardinality(s) = l + 1
        BY <1>0, <2>1
      <4> HIDE DEF x
      <4>2. Cardinality(s \ {x}) = Cardinality(s) - 1
        BY <3>2, <4>1, FS_RemoveElement
      <4> QED  BY <4>1, <4>2
    <3>4. f[t] = Cardinality(Ones(t))
      BY <1>3, <3>3
    <3>5. f[s] = fun[x] + f[t]
      BY <1>1, <3>1 DEF IsSum
    <3> HIDE DEF x
    <3>6. IsFiniteSet(Ones(t)) /\ Cardinality(Ones(t)) \in Nat
      BY <1>0, <3>3, FS_Subset, FS_CardinalityType
    <3>7. CASE fun[x] = 1
      <4>1. Ones(s) = Ones(t) \cup {x} /\ x \notin Ones(t)
        BY <3>2, <3>7
      <4> HIDE DEF Ones, t
      <4>2. Cardinality(Ones(s)) = Cardinality(Ones(t)) + 1
        BY <3>6, <4>1, FS_AddElement
      <4> QED  BY <3>4, <3>5, <3>6, <3>7, <4>2
    <3>8. CASE fun[x] = 0
      <4>1. Ones(s) = Ones(t)
        BY <3>2, <3>8
      <4> HIDE DEF Ones, t
      <4> QED  BY <3>4, <3>5, <3>6, <3>8, <4>1
    <3> QED  BY <3>2, <3>7, <3>8
  <2>2. l + 1 \in 0 .. n
    BY <1>0
  <2> HIDE DEF Ones
  <2> QED  BY <2>1, <2>2
<1>4. n \in T
  <2> HIDE DEF T
  <2>1. \A l \in 0 .. n : l \in T
    BY <1>0, <1>2, <1>3, AllUpTo
  <2> QED  BY <1>0, <2>1
<1>5. f[S] = Cardinality(Ones(S))
  BY <1>4 DEF n
<1> QED  BY <1>1, <1>5

-----------------------------------------------------------------------------
(* FlattenSeq(): it joins one sequence after the other.                    *)
LEMMA FlattenRun ==
    ASSUME NEW n \in Nat, NEW A, NEW q \in [1 .. n -> Seq(A)]
    PROVE  \E r : IsRun(r, "join", 0, n, q, <<>>) /\ FlattenSeq(q) = r[n]
<1>0. q \in Seq(Seq(A)) /\ Len(q) = n
  OBVIOUS
<1>1. CASE n = 0
  <2>1. q = <<>> /\ FlattenSeq(q) = <<>>
    BY <1>0, <1>1 DEF FlattenSeq
  <2>2. PICK r : IsRun(r, "join", 0, n, q, <<>>)
    BY RunExists
  <2> QED  BY <1>1, <2>1, <2>2 DEF IsRun
<1>2. CASE n # 0
  <2> DEFINE J(x, y) == x \o y
             F(f) == [i \in 1 .. n |-> IF i = 1 THEN q[1] ELSE J(f[i - 1], q[i])]
             h == CHOOSE h : h = F(h)
  <2>1. PICK s : IsRun(s, "join", 0, n, q, <<>>)
    BY RunExists
  <2>2. s[0] = <<>> /\ \A j \in 0 .. n - 1 : s[j + 1] = s[j] \o q[j + 1]
    BY <2>1 DEF IsRun, Does
  <2>3. s[1] = q[1]
    <3>1. 0 \in 0 .. n - 1 /\ q[1] \in Seq(A) /\ 0 + 1 = 1
      BY <1>2
    <3>2. s[1] = s[0] \o q[1]
      BY <2>2, <3>1
    <3>3. <<>> \o q[1] = q[1]
      BY <3>1
    <3> QED  BY <2>2, <3>2, <3>3
  <2> DEFINE g == [i \in 1 .. n |-> s[i]]
  <2>4. g = F(g)
    <3>1. ASSUME NEW i \in 1 .. n PROVE g[i] = IF i = 1 THEN q[1] ELSE g[i - 1] \o q[i]
      <4>1. CASE i = 1
        BY <2>3, <4>1
      <4>2. CASE i # 1
        <5>1. i - 1 \in 0 .. n - 1 /\ i - 1 + 1 = i /\ i - 1 \in 1 .. n
          BY <4>2
        <5>2. s[i] = s[i - 1] \o q[i]
          BY <2>2, <5>1
        <5> QED  BY <4>2, <5>1, <5>2
      <4> QED  BY <4>1, <4>2
    <3>2. g = [i \in 1 .. n |-> g[i]]
      OBVIOUS
    <3> HIDE DEF g
    <3> QED  BY <3>1, <3>2
  <2> HIDE DEF g
  <2>5. h = F(h)
    <3> HIDE DEF F
    <3> QED  BY <2>4
  <2>6. FlattenSeq(q) = h[n]
    BY <1>0, <1>2 DEF FlattenSeq
  <2> HIDE DEF h, J
  <2> DEFINE r == [j \in 0 .. n |-> IF j = 0 THEN <<>> ELSE h[j]]
  <2>7. ASSUME NEW j \in 0 .. n - 1 PROVE r[j + 1] = J(r[j], q[j + 1])
    <3>1. CASE j = 0
      <4>1. r[j + 1] = h[1] /\ r[j] = <<>> /\ 1 \in 1 .. n /\ j + 1 = 1
        BY <1>2, <3>1
      <4>2. h[1] = q[1] /\ q[1] \in Seq(A)
        BY <2>5, <4>1
      <4>3. J(<<>>, q[1]) = q[1]
        BY <4>2 DEF J
      <4> QED  BY <4>1, <4>2, <4>3
    <3>2. CASE j # 0
      <4>1. j + 1 \in 1 .. n /\ j + 1 # 1 /\ j + 1 - 1 = j
        BY <3>2
      <4>2. \A i \in 1 .. n, k \in Nat : i # 1 /\ k = i - 1 => h[i] = J(h[k], q[i])
        BY <2>5
      <4>3. r[j + 1] = h[j + 1] /\ r[j] = h[j]
        BY <3>2
      <4> HIDE DEF r
      <4>4. h[j + 1] = J(h[j], q[j + 1])
        BY <4>1, <4>2
      <4> QED  BY <4>3, <4>4
    <3> QED  BY <3>1, <3>2
  <2>8. r[0] = <<>> /\ r[n] = h[n]
    BY <1>2
  <2> HIDE DEF r
  <2>9. IsRun(r, "join", 0, n, q, <<>>)
    BY <2>7, <2>8 DEF IsRun, Does, J
  <2> QED  BY <2>6, <2>8, <2>9
<1> QED  BY <1>1, <1>2

(* Two sequences without an element in common. *)
LEMMA JoinIs ==
    ASSUME NEW A, NEW x \in Seq(A), NEW y \in Seq(A)
    PROVE  /\ x \o y \in Seq(A) /\ Range(x \o y) = Range(x) \cup Range(y)
           /\ IsInjective(x) /\ IsInjective(y) /\ Range(x) \cap Range(y) = {} => IsInjective(x \o y)
           /\ Len(x \o y) = Len(x) + Len(y)
           /\ \A j \in 1 .. Len(x) : (x \o y)[j] = x[j]
           /\ \A j \in 1 .. Len(y) : (x \o y)[Len(x) + j] = y[j]
<1> DEFINE z == x \o y
<1>1. /\ z \in Seq(A) /\ Len(z) = Len(x) + Len(y)
      /\ \A j \in 1 .. Len(z) : z[j] = IF j <= Len(x) THEN x[j] ELSE y[j - Len(x)]
  OBVIOUS
<1>2. DOMAIN z = 1 .. Len(z) /\ DOMAIN x = 1 .. Len(x) /\ DOMAIN y = 1 .. Len(y)
      /\ Len(x) \in Nat /\ Len(y) \in Nat
  BY <1>1
<1> HIDE DEF z
<1>3. \A j \in 1 .. Len(x) : j \in 1 .. Len(z) /\ z[j] = x[j]
  BY <1>1, <1>2
<1>4. \A j \in 1 .. Len(y) : Len(x) + j \in 1 .. Len(z) /\ z[Len(x) + j] = y[j]
  <2> SUFFICES ASSUME NEW j \in 1 .. Len(y)
               PROVE  Len(x) + j \in 1 .. Len(z) /\ z[Len(x) + j] = y[j]
    OBVIOUS
  <2>1. Len(x) + j \in 1 .. Len(z) /\ ~(Len(x) + j <= Len(x)) /\ Len(x) + j - Len(x) = j
    BY <1>1, <1>2
  <2> QED  BY <1>1, <2>1
<1>5. ASSUME NEW j \in 1 .. Len(z)
      PROVE  \/ j \in 1 .. Len(x) /\ z[j] = x[j]
             \/ j - Len(x) \in 1 .. Len(y) /\ z[j] = y[j - Len(x)]
  BY <1>1, <1>2
<1>6. Range(z) = Range(x) \cup Range(y)
  <2>1. ASSUME NEW v \in Range(z) PROVE v \in Range(x) \cup Range(y)
    <3>1. PICK j \in 1 .. Len(z) : z[j] = v
      BY <1>2, <2>1 DEF Range
    <3> QED  BY <1>2, <1>5, <3>1 DEF Range
  <2>2. ASSUME NEW v \in Range(x) PROVE v \in Range(z)
    BY <1>2, <1>3, <2>2 DEF Range
  <2>3. ASSUME NEW v \in Range(y) PROVE v \in Range(z)
    <3>1. PICK j \in 1 .. Len(y) : y[j] = v
      BY <1>2, <2>3 DEF Range
    <3> QED  BY <1>2, <1>4, <3>1 DEF Range
  <2> QED  BY <2>1, <2>2, <2>3
<1>7. ASSUME IsInjective(x), IsInjective(y), Range(x) \cap Range(y) = {},
             NEW j \in 1 .. Len(z), NEW k \in 1 .. Len(z), z[j] = z[k]
      PROVE  j = k
  <2>1. CASE j \in 1 .. Len(x) /\ z[j] = x[j] /\ k \in 1 .. Len(x) /\ z[k] = x[k]
    BY <1>2, <1>7, <2>1 DEF IsInjective
  <2>2. CASE /\ j - Len(x) \in 1 .. Len(y) /\ z[j] = y[j - Len(x)]
             /\ k - Len(x) \in 1 .. Len(y) /\ z[k] = y[k - Len(x)]
    <3>1. j - Len(x) = k - Len(x)
      BY <1>2, <1>7, <2>2 DEF IsInjective
    <3> QED  BY <1>2, <3>1
  <2>3. CASE j \in 1 .. Len(x) /\ z[j] = x[j] /\ k - Len(x) \in 1 .. Len(y) /\ z[k] = y[k - Len(x)]
    BY <1>2, <1>7, <2>3 DEF Range
  <2>4. CASE k \in 1 .. Len(x) /\ z[k] = x[k] /\ j - Len(x) \in 1 .. Len(y) /\ z[j] = y[j - Len(x)]
    BY <1>2, <1>7, <2>4 DEF Range
  <2> QED  BY <1>5, <2>1, <2>2, <2>3, <2>4
<1>8. IsInjective(x) /\ IsInjective(y) /\ Range(x) \cap Range(y) = {} => IsInjective(z)
  BY <1>2, <1>7 DEF IsInjective
<1> QED  BY <1>1, <1>3, <1>4, <1>6, <1>8 DEF z

(* Sequences of different elements are joined to one of different          *)
(* elements.                                                               *)
LEMMA FlattenIs ==
    ASSUME NEW n \in Nat, NEW A, NEW q \in [1 .. n -> Seq(A)],
           \A j \in 1 .. n : IsInjective(q[j]),
           \A j, k \in 1 .. n : j # k => Range(q[j]) \cap Range(q[k]) = {}
    PROVE  /\ FlattenSeq(q) \in Seq(A) /\ IsInjective(FlattenSeq(q))
           /\ Range(FlattenSeq(q)) = UNION {Range(q[j]) : j \in 1 .. n}
<1>1. PICK r : IsRun(r, "join", 0, n, q, <<>>) /\ FlattenSeq(q) = r[n]
  BY FlattenRun
<1> DEFINE U(k) == UNION {Range(q[j]) : j \in 1 .. k}
           Right(k) == r[k] \in Seq(A) /\ IsInjective(r[k]) /\ Range(r[k]) = U(k)
           T == {k \in 0 .. n : Right(k)}
<1>2. 0 \in T
  <2>1. r[0] = <<>> /\ U(0) = {}
    BY <1>1 DEF IsRun
  <2>2. <<>> \in Seq(A) /\ IsInjective(<<>>) /\ Range(<<>>) = {}
    BY DEF IsInjective, Range
  <2>3. Right(0)
    <3> HIDE DEF U
    <3> QED  BY <2>1, <2>2
  <2> HIDE DEF Right
  <2> QED  BY <2>3
<1>3. ASSUME NEW k \in 0 .. n - 1, k \in T PROVE k + 1 \in T
  <2>1. r[k] \in Seq(A) /\ IsInjective(r[k]) /\ Range(r[k]) = U(k)
    BY <1>3
  <2>2. r[k + 1] = r[k] \o q[k + 1]
    BY <1>1 DEF IsRun, Does
  <2>3. k + 1 \in 1 .. n /\ k + 1 \in 0 .. n /\ q[k + 1] \in Seq(A) /\ IsInjective(q[k + 1])
    OBVIOUS
  <2>4. Range(r[k]) \cap Range(q[k + 1]) = {}
    <3>1. \A j \in 1 .. k : j \in 1 .. n /\ j # k + 1
      OBVIOUS
    <3>2. \A j \in 1 .. k : Range(q[j]) \cap Range(q[k + 1]) = {}
      BY <2>3, <3>1
    <3> QED  BY <2>1, <3>2
  <2>5. U(k + 1) = U(k) \cup Range(q[k + 1])
    <3>1. \A j : j \in 1 .. k + 1 <=> j \in 1 .. k \/ j = k + 1
      OBVIOUS
    <3> QED  BY <3>1
  <2> HIDE DEF U
  <2>6. Right(k + 1)
    <3> DEFINE x == r[k]  y == q[k + 1]
    <3>1. x \in Seq(A) /\ y \in Seq(A) /\ IsInjective(x) /\ IsInjective(y) /\ Range(x) \cap Range(y) = {}
      BY <2>1, <2>3, <2>4
    <3> HIDE DEF x, y
    <3>2. x \o y \in Seq(A) /\ IsInjective(x \o y) /\ Range(x \o y) = Range(x) \cup Range(y)
      BY <3>1, JoinIs
    <3> QED  BY <2>1, <2>2, <2>5, <3>2 DEF x, y
  <2> HIDE DEF Right
  <2> QED  BY <2>3, <2>6
<1>4. n \in T
  <2> HIDE DEF T
  <2>1. \A l \in 0 .. n : l \in T
    BY <1>2, <1>3, AllUpTo
  <2> QED  BY <2>1
<1> QED  BY <1>1, <1>4

(* Sequences of one element. *)
LEMMA FlattenOnes ==
    ASSUME NEW n \in Nat, NEW A, NEW v \in [1 .. n -> A], NEW q,
           q = [j \in 1 .. n |-> <<v[j]>>]
    PROVE  FlattenSeq(q) = v
<1>0. q \in [1 .. n -> Seq(A)]
  OBVIOUS
<1>1. PICK r : IsRun(r, "join", 0, n, q, <<>>) /\ FlattenSeq(q) = r[n]
  BY <1>0, FlattenRun
<1> DEFINE Right(k) == r[k] = [j \in 1 .. k |-> v[j]]
           T == {k \in 0 .. n : Right(k)}
<1>2. 0 \in T
  BY <1>1 DEF IsRun
<1>3. ASSUME NEW k \in 0 .. n - 1, k \in T PROVE k + 1 \in T
  <2> DEFINE x == [j \in 1 .. k |-> v[j]]
  <2>1. r[k] = x /\ k + 1 \in 1 .. n /\ \A j \in 1 .. k : j \in 1 .. n
    BY <1>3
  <2>2. r[k + 1] = x \o <<v[k + 1]>>
    BY <1>1, <2>1 DEF IsRun, Does
  <2>3. x \in Seq(A) /\ Len(x) = k /\ v[k + 1] \in A
    BY <2>1
  <2>4. \A j \in 1 .. k : x[j] = v[j]
    OBVIOUS
  <2> DEFINE z == [j \in 1 .. k + 1 |-> v[j]]
  <2>5. z \in Seq(A) /\ Len(z) = k + 1 /\ \A j \in 1 .. k + 1 : z[j] = v[j]
    BY <2>1
  <2> HIDE DEF x, z
  <2>6. x \o <<v[k + 1]>> = Append(x, v[k + 1])
    BY <2>3
  <2>7. Append(x, v[k + 1]) = z
    <3>1. Append(x, v[k + 1]) \in Seq(A) /\ Len(Append(x, v[k + 1])) = k + 1
      BY <2>3
    <3>2. \A j \in 1 .. k + 1 : Append(x, v[k + 1])[j] = z[j]
      BY <2>3, <2>4, <2>5
    <3> QED  BY <2>5, <3>1, <3>2, SeqEqual
  <2>8. Right(k + 1)
    BY <2>2, <2>6, <2>7 DEF z
  <2> QED  BY <2>8
<1>4. n \in T
  <2> HIDE DEF T
  <2>1. \A l \in 0 .. n : l \in T
    BY <1>2, <1>3, AllUpTo
  <2> QED  BY <2>1
<1> QED  BY <1>1, <1>4

-----------------------------------------------------------------------------
(* The pools. *)

(* The order of the vpmap: each element once, the smaller one first.       *)
Rising(s) == \A a, b \in DOMAIN s : a < b => s[a] < s[b]

(* A finite set of numbers can be listed in order, *)
LEMMA InOrderExists ==
    ASSUME NEW S \in SUBSET Nat, IsFiniteSet(S)
    PROVE  \E s \in SetToSeqs(S) : Rising(s)
<1> DEFINE n == Cardinality(S)
           Is(U, s) == s \in SetToSeqs(U) /\ Rising(s)
           T == {k \in 0 .. n : \A U \in SUBSET S : Cardinality(U) = k => \E s : Is(U, s)}
<1>0. n \in Nat /\ \A U \in SUBSET S : IsFiniteSet(U) /\ Cardinality(U) \in Nat
  BY FS_CardinalityType, FS_Subset
<1> HIDE DEF n
<1>1. 0 \in T
  <2>1. ASSUME NEW U \in SUBSET S, Cardinality(U) = 0 PROVE \E s : Is(U, s)
    <3>1. U = {}
      BY <1>0, <2>1, FS_EmptySet
    <3>2. 1 .. Cardinality(U) = {}
      BY <2>1
    <3>3. <<>> \in [1 .. Cardinality(U) -> U]
      BY <3>2
    <3>4. Is(U, <<>>)
      BY <3>2, <3>3 DEF SetToSeqs, Rising
    <3> QED  BY <3>4
  <2>2. 0 \in 0 .. n
    BY <1>0
  <2> HIDE DEF Is
  <2> QED  BY <2>1, <2>2
<1>2. ASSUME NEW k \in 0 .. n - 1, k \in T PROVE k + 1 \in T
  <2>1. ASSUME NEW U \in SUBSET S, Cardinality(U) = k + 1 PROVE \E s : Is(U, s)
    <3>1. U # {} /\ U \in SUBSET Nat
      BY <1>0, <2>1, FS_EmptySet
    <3>2. PICK x \in U : \A y \in U : x <= y
      BY <3>1, LeastNatural
    <3> DEFINE V == U \ {x}
    <3>3. V \in SUBSET S /\ Cardinality(V) = k
      <4>1. IsFiniteSet(U)
        BY <1>0
      <4>2. Cardinality(U \ {x}) = Cardinality(U) - 1
        BY <4>1, FS_RemoveElement
      <4> QED  BY <2>1, <4>2
    <3>4. PICK s : Is(V, s)
      <4> HIDE DEF V, Is
      <4> QED  BY <1>2, <3>3
    <3>5. s \in [1 .. k -> V] /\ (\A i, j \in 1 .. k : i # j => s[i] # s[j]) /\ Rising(s)
      BY <3>3, <3>4 DEF SetToSeqs
    <3> DEFINE t == [i \in 1 .. k + 1 |-> IF i = 1 THEN x ELSE s[i - 1]]
    <3>6. \A i \in 1 .. k + 1 : \/ i = 1 /\ t[i] = x
                                \/ i - 1 \in 1 .. k /\ t[i] = s[i - 1] /\ t[i] \in U /\ x < t[i]
      <4> SUFFICES ASSUME NEW i \in 1 .. k + 1, i # 1
                   PROVE  i - 1 \in 1 .. k /\ t[i] = s[i - 1] /\ t[i] \in U /\ x < t[i]
        OBVIOUS
      <4>1. i - 1 \in 1 .. k
        OBVIOUS
      <4>2. t[i] = s[i - 1] /\ s[i - 1] \in V
        BY <3>5, <4>1
      <4>3. x <= t[i] /\ x # t[i] /\ t[i] \in Nat /\ x \in Nat
        BY <3>1, <3>2, <4>2
      <4> QED  BY <4>1, <4>2, <4>3
    <3>7. t \in [1 .. k + 1 -> U] /\ DOMAIN t = 1 .. k + 1
      <4>1. \A i \in 1 .. k + 1 : t[i] \in U
        BY <3>6
      <4>2. t = [i \in 1 .. k + 1 |-> t[i]]
        OBVIOUS
      <4> HIDE DEF t
      <4> QED  BY <4>1, <4>2
    <3> HIDE DEF t
    <3>8. ASSUME NEW i \in 1 .. k + 1, NEW j \in 1 .. k + 1, i < j PROVE t[i] < t[j]
      <4>1. j # 1
        BY <3>8
      <4>2. j - 1 \in 1 .. k /\ t[j] = s[j - 1] /\ x < t[j]
        BY <3>6, <4>1
      <4>3. CASE i = 1
        BY <3>6, <4>2, <4>3
      <4>4. CASE i # 1
        <5>1. i - 1 \in 1 .. k /\ t[i] = s[i - 1] /\ i - 1 < j - 1
          BY <3>6, <3>8, <4>4
        <5>2. DOMAIN s = 1 .. k
          BY <3>5
        <5> QED  BY <3>5, <4>2, <5>1, <5>2 DEF Rising
      <4> QED  BY <4>3, <4>4
    <3>9. Rising(t)
      BY <3>7, <3>8 DEF Rising
    <3>10. ASSUME NEW i \in 1 .. k + 1, NEW j \in 1 .. k + 1, i # j PROVE t[i] # t[j]
      <4>1. t[i] \in Nat /\ t[j] \in Nat
        BY <3>1, <3>7
      <4>2. i < j \/ j < i
        BY <3>10
      <4> QED  BY <3>8, <4>1, <4>2
    <3>11. t \in SetToSeqs(U)
      BY <2>1, <3>7, <3>10 DEF SetToSeqs
    <3> QED  BY <3>9, <3>11
  <2>2. k + 1 \in 0 .. n
    BY <1>0
  <2> HIDE DEF Is
  <2> QED  BY <2>1, <2>2
<1> HIDE DEF T
<1>3. n \in T
  <2>1. \A l \in 0 .. n : l \in T
    BY <1>0, <1>1, <1>2, AllUpTo
  <2> QED  BY <1>0, <2>1
<1> QED  BY <1>3 DEF T, n

(* and InOrder() does so: it has each element once, and rises. *)
LEMMA InOrderIs ==
    ASSUME NEW S \in SUBSET Nat, IsFiniteSet(S)
    PROVE  /\ Cardinality(S) \in Nat /\ InOrder(S) \in [1 .. Cardinality(S) -> S]
           /\ InOrder(S) \in Seq(S) /\ Len(InOrder(S)) = Cardinality(S)
           /\ IsInjective(InOrder(S)) /\ Range(InOrder(S)) = S /\ Rising(InOrder(S))
<1> DEFINE s == InOrder(S)  n == Cardinality(S)
<1>1. s \in SetToSeqs(S) /\ Rising(s)
  BY InOrderExists DEF InOrder, Rising
<1>2. n \in Nat
  BY FS_CardinalityType
<1> HIDE DEF s
<1>3. s \in [1 .. n -> S] /\ IsInjective(s)
  BY <1>1 DEF SetToSeqs, IsInjective
<1>4. s \in Surjection(1 .. n, S)
  <2>1. s \in Injection(1 .. n, S)
    BY <1>3 DEF Injection
  <2>2. Cardinality(1 .. n) = n
    BY <1>2, FS_Interval
  <2> QED  BY <2>1, <2>2, FS_Injection
<1>5. Range(s) = S
  BY <1>3, <1>4 DEF Surjection, Range
<1>6. s \in Seq(S) /\ Len(s) = n
  BY <1>2, <1>3
<1> QED  BY <1>1, <1>2, <1>3, <1>5, <1>6 DEF s

(* The fragments 0 .. n of a value. *)
LEMMA InOrderUpTo ==
    ASSUME NEW n \in Nat
    PROVE  InOrder(0 .. n) = [k \in 1 .. n + 1 |-> k - 1]
<1> DEFINE s == InOrder(0 .. n)
<1>1. IsFiniteSet(0 .. n) /\ Cardinality(0 .. n) = n + 1 /\ 0 .. n \in SUBSET Nat
  <2>1. IsFiniteSet(0 .. n) /\ Cardinality(0 .. n) = IF 0 > n THEN 0 ELSE n - 0 + 1
    BY FS_Interval
  <2> QED  BY <2>1
<1>2. s \in [1 .. n + 1 -> 0 .. n] /\ Rising(s)
  BY <1>1, InOrderIs
<1> HIDE DEF s
<1>3. \A k \in 1 .. n : s[k] < s[k + 1]
  BY <1>2 DEF Rising
<1> DEFINE T == {k \in 0 .. n : s[k + 1] >= k}
           U == {k \in 0 .. n : \A m \in 1 .. n + 1 : m = n + 1 - k => s[m] <= n - k}
<1>4. 0 \in T
  BY <1>2
<1>5. ASSUME NEW k \in 0 .. n - 1, k \in T PROVE k + 1 \in T
  <2>1. k + 1 \in 1 .. n /\ k + 1 + 1 \in 1 .. n + 1 /\ k + 1 \in 0 .. n /\ k + 1 \in 1 .. n + 1
    OBVIOUS
  <2>2. s[k + 1] < s[k + 1 + 1] /\ s[k + 1] >= k /\ s[k + 1] \in Nat /\ s[k + 1 + 1] \in Nat
    BY <1>2, <1>3, <1>5, <2>1
  <2> QED  BY <2>1, <2>2
<1>6. 0 \in U
  BY <1>2
<1>7. ASSUME NEW k \in 0 .. n - 1, k \in U PROVE k + 1 \in U
  <2>1. ASSUME NEW l \in 1 .. n + 1, l = n + 1 - (k + 1) PROVE s[l] <= n - (k + 1)
    <3>1. l + 1 \in 1 .. n + 1 /\ l + 1 = n + 1 - k /\ l \in 1 .. n
      BY <2>1
    <3>2. s[l + 1] <= n - k
      BY <1>7, <3>1
    <3>3. s[l] < s[l + 1] /\ s[l] \in Nat /\ s[l + 1] \in Nat
      BY <1>2, <1>3, <3>1
    <3> QED  BY <3>2, <3>3
  <2>2. k + 1 \in 0 .. n
    OBVIOUS
  <2> QED  BY <2>1, <2>2
<1> HIDE DEF T, U
<1>8. \A k \in 0 .. n : k \in T /\ k \in U
  BY <1>4, <1>5, <1>6, <1>7, AllUpTo
<1>9. ASSUME NEW k \in 1 .. n + 1 PROVE s[k] = k - 1
  <2>1. k - 1 \in 0 .. n /\ n + 1 - k \in 0 .. n
    OBVIOUS
  <2>2. s[k - 1 + 1] >= k - 1
    BY <1>8, <2>1 DEF T
  <2>3. n + 1 - (n + 1 - k) = k /\ n - (n + 1 - k) = k - 1 /\ s[k] \in Nat /\ k - 1 + 1 = k
    BY <1>2
  <2>4. s[k] <= k - 1
    BY <1>8, <2>1, <2>3 DEF U
  <2> QED  BY <2>2, <2>3, <2>4
<1>10. s = [k \in 1 .. n + 1 |-> k - 1]
  BY <1>2, <1>9
<1> QED  BY <1>10 DEF s

-----------------------------------------------------------------------------
(* The parameters of the pools, and the next free one. *)
LEMMA ParamIs ==
    /\ \A p : p \in Param <=> /\ p = <<p[1], p[2]>> /\ p[1] \in Type /\ p[2] \in Nat \ {0}
                              /\ p[2] <= PoolSize[p[1]]
    /\ \A t \in Type : PoolSize[t] \in Nat
<1> DEFINE R == Range(PoolSize)
<1>1. PoolSize \in [Type -> Nat]
  BY ConstantsAssumption DEF Type
<1>2. R = {PoolSize["variant"], PoolSize["octets"]}
  BY <1>1 DEF Type, Range
<1>3. PoolSize["variant"] \in Nat /\ PoolSize["octets"] \in Nat
  BY <1>1 DEF Type
<1>4. \E x \in R : \A y \in R : x >= y
  <2>1. CASE PoolSize["variant"] >= PoolSize["octets"]
    BY <1>2, <1>3, <2>1
  <2>2. CASE PoolSize["octets"] >= PoolSize["variant"]
    BY <1>2, <1>3, <2>2
  <2> QED  BY <1>3, <2>1, <2>2
<1>5. Max(R) \in R /\ \A y \in R : Max(R) >= y
  BY <1>4 DEF Max
<1>6. Max(R) \in Nat /\ \A t \in Type : PoolSize[t] \in R /\ PoolSize[t] \in Nat
  BY <1>1, <1>2, <1>3, <1>5 DEF Type
<1>7. \A p : p \in Param <=> p \in Type \X (1 .. Max(R)) /\ p[2] <= PoolSize[p[1]]
  BY DEF Param
<1> HIDE DEF R
<1>8. ASSUME NEW p, p = <<p[1], p[2]>>, p[1] \in Type, p[2] \in Nat \ {0}, p[2] <= PoolSize[p[1]]
      PROVE  p \in Param
  <2>1. p[2] \in 1 .. Max(R)
    BY <1>5, <1>6, <1>8
  <2> QED  BY <1>7, <1>8, <2>1
<1>9. ASSUME NEW p \in Param
      PROVE  p = <<p[1], p[2]>> /\ p[1] \in Type /\ p[2] \in Nat \ {0} /\ p[2] <= PoolSize[p[1]]
  BY <1>6, <1>7
<1> QED  BY <1>6, <1>8, <1>9

(* Those of one type are as many as their pool is large. *)
OfType(t) == {q \in Param : q[1] = t}

(* They are finitely many, as many as PoolSize says. *)
LEMMA OfTypeIs ==
    ASSUME NEW t \in Type
    PROVE  IsFiniteSet(OfType(t)) /\ Cardinality(OfType(t)) = PoolSize[t]
<1> DEFINE n == PoolSize[t]  f == [k \in 1 .. n |-> <<t, k>>]
<1>1. n \in Nat
  BY ParamIs
<1>2. IsFiniteSet(1 .. n) /\ Cardinality(1 .. n) = n
  <2>1. IsFiniteSet(1 .. n) /\ Cardinality(1 .. n) = IF 1 > n THEN 0 ELSE n - 1 + 1
    BY <1>1, FS_Interval
  <2> QED  BY <1>1, <2>1
<1>3. \A k \in 1 .. n : <<t, k>> \in OfType(t)
  <2> SUFFICES ASSUME NEW k \in 1 .. n PROVE <<t, k>> \in OfType(t)
    OBVIOUS
  <2> DEFINE p == <<t, k>>
  <2>1. p[1] = t /\ p[2] = k /\ k \in Nat \ {0} /\ k <= PoolSize[t]
    BY <1>1
  <2>2. p = <<p[1], p[2]>>
    OBVIOUS
  <2> HIDE DEF p
  <2>3. p \in Param
    BY <2>1, <2>2, ParamIs
  <2> QED  BY <2>1, <2>3 DEF OfType, p
<1>4. \A q \in OfType(t) : q = <<t, q[2]>> /\ q[2] \in 1 .. n
  BY <1>1, ParamIs DEF OfType
<1>5. f \in [1 .. n -> OfType(t)] /\ \A k \in 1 .. n : f[k] = <<t, k>>
  BY <1>3
<1> HIDE DEF f
<1>6. IsInjective(f) /\ \A q \in OfType(t) : \E k \in 1 .. n : f[k] = q
  BY <1>4, <1>5 DEF IsInjective
<1>7. f \in Bijection(1 .. n, OfType(t))
  BY <1>5, <1>6 DEF Bijection, Injection, Surjection
<1> HIDE DEF n
<1>8. ExistsBijection(1 .. n, OfType(t))
  BY <1>7 DEF ExistsBijection
<1>9. IsFiniteSet(OfType(t)) /\ Cardinality(OfType(t)) = Cardinality(1 .. n)
  BY <1>2, <1>8, FS_Bijection
<1> QED  BY <1>2, <1>9 DEF n

(* new_param() takes a free parameter of the type asked for. *)
LEMMA NextParamIs ==
    ASSUME NEW g, NEW t \in Type, Available(g, t)
    PROVE  /\ NextParam(g, t) \in Param /\ NextParam(g, t)[1] = t /\ g.free[NextParam(g, t)] > 0
<1> DEFINE K == {p[2] : p \in InPool(g, t)}
<1>1. K \in SUBSET Nat /\ K # {}
  BY ParamIs DEF Available, InPool
<1>2. \E x \in K : \A y \in K : x <= y
  <2> HIDE DEF K
  <2> QED  BY <1>1, LeastNatural
<1>3. Min(K) \in K
  <2> HIDE DEF K
  <2> QED  BY <1>2 DEF Min
<1>4. PICK p \in InPool(g, t) : p[2] = Min(K)
  BY <1>3
<1>5. p \in Param /\ p[1] = t /\ g.free[p] > 0
  BY DEF InPool
<1>6. NextParam(g, t) = <<t, Min(K)>>
  BY DEF NextParam
<1> HIDE DEF K
<1>7. p = <<p[1], p[2]>>
  BY <1>5, ParamIs
<1>8. NextParam(g, t) = p
  BY <1>4, <1>5, <1>6, <1>7
<1> QED  BY <1>5, <1>8

(* new_smsg() takes a message of the pool. *)
LEMMA NextMessageIs ==
    ASSUME NEW g, Messages(g) # {}
    PROVE  NextMessage(g) \in Msg /\ g.msgs[NextMessage(g)] > 0
<1>1. Messages(g) \in SUBSET Nat
  BY ConstantsAssumption DEF Messages
<1>2. \E x \in Messages(g) : \A y \in Messages(g) : x <= y
  BY <1>1, LeastNatural
<1>3. NextMessage(g) \in Messages(g)
  BY <1>2 DEF NextMessage, Min
<1> QED  BY <1>3 DEF Messages

(* The fragment index of a parameter is kept as 0 or 1. *)
LEMMA MinOne == ASSUME NEW x \in Nat PROVE Min({1, x}) = IF x = 0 THEN 0 ELSE 1
<1>1. \E y \in {1, x} : \A z \in {1, x} : y <= z
  <2>1. CASE x = 0
    BY <2>1
  <2>2. CASE x # 0
    BY <2>2
  <2> QED  BY <2>1, <2>2
<1>2. Min({1, x}) \in {1, x} /\ \A z \in {1, x} : Min({1, x}) <= z
  BY <1>1 DEF Min
<1> QED  BY <1>2

-----------------------------------------------------------------------------
(* What the managers own. *)

(* The state of a manager. *)
Chunk == [from : Nat, len : Nat]
Object == [id : Id \cup {None}, from : Nat, len : Nat, findex : Nat, linked : Seq(Param)]
Keys == {S \in SUBSET (Id \X Nat) : IsFiniteSet(S)}
Mapping == UNION {[S -> Seq(Chunk)] : S \in Keys}
Envelope == [tlvs : Seq(Param), frag : Param \cup {NoParam}, vp : Mapping, data : Seq(Chunk),
             missing : BOOLEAN, pos : Nat, pindex : Nat, pc : Nat]
Manager == [msgs : [Msg -> {0, 1}], free : [Param -> {0, 1}],
            prm : [Param -> Object], msg : [Msg -> Envelope]]

(* A message holds its parameters, frag_param, and what is linked to them. *)
Tops(g, m) == Range(g.msg[m].tlvs) \cup ({g.msg[m].frag} \ {NoParam})
Cluster(g, p) == {p} \cup Range(g.prm[p].linked)
HeldBy(g, m) == UNION {Cluster(g, p) : p \in Tops(g, m)}
Pile(g, m) == IF g.msgs[m] = 0 THEN HeldBy(g, m) ELSE {}

(* The parameters of one message are all different. *)
Proper(g, m) ==
    /\ IsInjective(g.msg[m].tlvs) /\ g.msg[m].frag \notin Range(g.msg[m].tlvs)
    /\ \A p \in Tops(g, m) : IsInjective(g.prm[p].linked) /\ p \notin Range(g.prm[p].linked)
    /\ \A p, q \in Tops(g, m) : p # q => Cluster(g, p) \cap Cluster(g, q) = {}
    /\ g.msg[m].frag # NoParam => g.prm[g.msg[m].frag].linked = <<>>

(* Each parameter is in its pool, with a message, or in hand: one of X.    *)
Own(g, X) ==
    /\ g \in Manager /\ X \in SUBSET Param
    /\ \A m \in Msg : IF g.msgs[m] = 0 THEN Proper(g, m) ELSE g.msg[m].tlvs = <<>>
    /\ \A m, o \in Msg : m # o => Pile(g, m) \cap Pile(g, o) = {}
    /\ \A m \in Msg : Pile(g, m) \cap X = {}
    /\ \A x \in Param : g.free[x] = 0 <=> x \in X \/ \E m \in Msg : x \in Pile(g, m)
    /\ \A x \in Param : g.free[x] = 1 \/ x \in X => g.prm[x].linked = <<>>

(* What is done with message m leaves the others and their parameters alone. *)
Kept(g, h, m) ==
    \A o \in Msg \ {m} : /\ h.msgs[o] = g.msgs[o] /\ h.msg[o] = g.msg[o]
                         /\ \A x \in Pile(g, o) : h.prm[x] = g.prm[x]

(* A vpmap is a function from finitely many keys to sequences of pieces. *)
LEMMA MappingIs ==
    /\ \A v : v \in Mapping <=> DOMAIN v \in Keys /\ v \in [DOMAIN v -> Seq(Chunk)]
    /\ <<>> \in Mapping
<1>1. ASSUME NEW v \in Mapping PROVE DOMAIN v \in Keys /\ v \in [DOMAIN v -> Seq(Chunk)]
  <2>1. PICK S \in Keys : v \in [S -> Seq(Chunk)]
    BY DEF Mapping
  <2> QED  BY <2>1
<1>2. ASSUME NEW v, DOMAIN v \in Keys, v \in [DOMAIN v -> Seq(Chunk)] PROVE v \in Mapping
  BY <1>2 DEF Mapping
<1>3. {} \in Keys
  BY FS_EmptySet DEF Keys
<1>4. <<>> \in [{} -> Seq(Chunk)] /\ DOMAIN <<>> = {}
  OBVIOUS
<1>5. <<>> \in Mapping
  BY <1>3, <1>4 DEF Mapping
<1> QED  BY <1>1, <1>2, <1>5

(* NoParam is no parameter. *)
LEMMA NoParamIs == NoParam \notin Param
<1>1. NoParam[2] = 0
  BY DEF NoParam
<1> QED  BY <1>1, ParamIs

(* The types of what a manager consists of. *)
LEMMA ManagerIs ==
    ASSUME NEW g \in Manager
    PROVE  /\ g.msgs \in [Msg -> {0, 1}] /\ g.free \in [Param -> {0, 1}]
           /\ g.prm \in [Param -> Object] /\ g.msg \in [Msg -> Envelope]
           /\ \A m \in Msg : /\ g.msg[m].tlvs \in Seq(Param) /\ Range(g.msg[m].tlvs) \in SUBSET Param
                             /\ g.msg[m].frag \in Param \cup {NoParam}
                             /\ Tops(g, m) \in SUBSET Param
           /\ \A x \in Param : g.prm[x].linked \in Seq(Param) /\ Range(g.prm[x].linked) \in SUBSET Param
<1>1. /\ g.msgs \in [Msg -> {0, 1}] /\ g.free \in [Param -> {0, 1}]
      /\ g.prm \in [Param -> Object] /\ g.msg \in [Msg -> Envelope]
  BY DEF Manager
<1>2. ASSUME NEW m \in Msg
      PROVE  /\ g.msg[m].tlvs \in Seq(Param) /\ Range(g.msg[m].tlvs) \in SUBSET Param
             /\ g.msg[m].frag \in Param \cup {NoParam}
             /\ Tops(g, m) \in SUBSET Param
  <2>1. g.msg[m] \in Envelope
    BY <1>1
  <2>2. g.msg[m].tlvs \in Seq(Param) /\ g.msg[m].frag \in Param \cup {NoParam}
    BY <2>1 DEF Envelope
  <2>3. Range(g.msg[m].tlvs) \in SUBSET Param
    BY <2>2 DEF Range
  <2> QED  BY <2>2, <2>3 DEF Tops
<1>3. ASSUME NEW x \in Param
      PROVE  g.prm[x].linked \in Seq(Param) /\ Range(g.prm[x].linked) \in SUBSET Param
  <2>1. g.prm[x] \in Object
    BY <1>1
  <2>2. g.prm[x].linked \in Seq(Param)
    BY <2>1 DEF Object
  <2> QED  BY <2>2 DEF Range
<1> QED  BY <1>1, <1>2, <1>3

(* The parameters a message holds are parameters of the pools. *)
LEMMA PileIs ==
    ASSUME NEW g \in Manager, NEW m \in Msg
    PROVE  Pile(g, m) \in SUBSET Param /\ HeldBy(g, m) \in SUBSET Param
           /\ (g.msgs[m] = 0 => Tops(g, m) \in SUBSET Pile(g, m))
<1>1. HeldBy(g, m) \in SUBSET Param
  <2> SUFFICES ASSUME NEW p \in Tops(g, m) PROVE Cluster(g, p) \in SUBSET Param
    BY DEF HeldBy
  <2> QED  BY ManagerIs DEF Cluster
<1> QED  BY <1>1 DEF Pile, HeldBy, Cluster

(* What is kept of the other messages includes what they hold. *)
LEMMA KeptPile ==
    ASSUME NEW g \in Manager, NEW h, NEW m, Kept(g, h, m), NEW o \in Msg \ {m}
    PROVE  Pile(h, o) = Pile(g, o) /\ (g.msgs[o] = 0 /\ Proper(g, o) => Proper(h, o))
<1>1. h.msgs[o] = g.msgs[o] /\ h.msg[o] = g.msg[o] /\ \A x \in Pile(g, o) : h.prm[x] = g.prm[x]
  BY DEF Kept
<1>2. CASE g.msgs[o] # 0
  BY <1>1, <1>2 DEF Pile
<1>3. CASE g.msgs[o] = 0
  <2>1. Tops(h, o) = Tops(g, o) /\ \A p \in Tops(g, o) : h.prm[p] = g.prm[p]
    BY <1>1, <1>3, PileIs DEF Tops
  <2>2. \A p \in Tops(g, o) : Cluster(h, p) = Cluster(g, p)
    BY <2>1 DEF Cluster
  <2>3. Pile(h, o) = Pile(g, o)
    BY <1>1, <2>1, <2>2 DEF Pile, HeldBy
  <2>4. ASSUME Proper(g, o) PROVE Proper(h, o)
    <3>1. g.msg[o].frag # NoParam => g.msg[o].frag \in Tops(g, o)
      BY DEF Tops
    <3> QED  BY <1>1, <2>1, <2>2, <2>4, <3>1 DEF Proper
  <2> QED  BY <2>3, <2>4
<1> QED  BY <1>2, <1>3

(* Two steps on the same message leave the others alone. *)
LEMMA KeptTrans ==
    ASSUME NEW g \in Manager, NEW h, NEW k, NEW m, Kept(g, h, m), Kept(h, k, m)
    PROVE  Kept(g, k, m)
<1>1. \A o \in Msg \ {m} : Pile(h, o) = Pile(g, o)
  BY KeptPile
<1> QED  BY <1>1 DEF Kept

(* What no other message than m holds. *)
Mine(g, m) == {x \in Param : \A o \in Msg \ {m} : x \notin Pile(g, o)}

Again(g, h, m, Y) ==
    /\ Kept(g, h, m)
    /\ Y \in SUBSET Mine(g, m) /\ Pile(h, m) \in SUBSET Mine(g, m) /\ Pile(h, m) \cap Y = {}
    /\ IF h.msgs[m] = 0 THEN Proper(h, m) ELSE h.msg[m].tlvs = <<>>
    /\ \A x \in Mine(g, m) : h.free[x] = 0 <=> x \in Y \/ x \in Pile(h, m)
    /\ \A x \in Param : x \notin Mine(g, m) => h.free[x] = g.free[x]
    /\ \A x \in Mine(g, m) : h.free[x] = 1 \/ x \in Y => h.prm[x].linked = <<>>

(* A step on message m that shares its own parameters out anew is in       *)
(* order.                                                                  *)
LEMMA OwnAgain ==
    ASSUME NEW g, NEW X, Own(g, X), NEW m \in Msg, NEW h \in Manager, NEW Y, Again(g, h, m, Y)
    PROVE  Own(h, Y)
<1>0. /\ Kept(g, h, m)
      /\ Y \in SUBSET Mine(g, m) /\ Pile(h, m) \in SUBSET Mine(g, m) /\ Pile(h, m) \cap Y = {}
      /\ IF h.msgs[m] = 0 THEN Proper(h, m) ELSE h.msg[m].tlvs = <<>>
      /\ \A x \in Mine(g, m) : h.free[x] = 0 <=> x \in Y \/ x \in Pile(h, m)
      /\ \A x \in Param : x \notin Mine(g, m) => h.free[x] = g.free[x]
      /\ \A x \in Mine(g, m) : h.free[x] = 1 \/ x \in Y => h.prm[x].linked = <<>>
  BY DEF Again
<1>1. g \in Manager
  BY DEF Own
<1>2. \A o \in Msg \ {m} : Pile(h, o) = Pile(g, o)
  BY <1>0, <1>1, KeptPile
<1>3. \A o \in Msg \ {m}, x \in Mine(g, m) : x \notin Pile(h, o)
  BY <1>0, <1>2 DEF Mine
<1>4. ASSUME NEW o \in Msg \ {m}
      PROVE  IF h.msgs[o] = 0 THEN Proper(h, o) ELSE h.msg[o].tlvs = <<>>
  <2>1. h.msgs[o] = g.msgs[o] /\ h.msg[o] = g.msg[o]
    BY <1>0 DEF Kept
  <2>2. IF g.msgs[o] = 0 THEN Proper(g, o) ELSE g.msg[o].tlvs = <<>>
    BY DEF Own
  <2> QED  BY <1>0, <1>1, <2>1, <2>2, KeptPile
<1>5. ASSUME NEW o \in Msg, NEW u \in Msg, o # u PROVE Pile(h, o) \cap Pile(h, u) = {}
  <2>1. CASE o # m /\ u # m
    <3>1. Pile(g, o) \cap Pile(g, u) = {}
      BY <1>0, <1>5 DEF Own
    <3> QED  BY <1>0, <1>2, <2>1, <3>1
  <2>2. CASE o = m
    BY <1>0, <1>3, <1>5, <2>2
  <2>3. CASE u = m
    BY <1>0, <1>3, <1>5, <2>3
  <2> QED  BY <1>0, <2>1, <2>2, <2>3
<1>6. ASSUME NEW o \in Msg PROVE Pile(h, o) \cap Y = {}
  <2>1. CASE o = m
    BY <1>0, <2>1
  <2>2. CASE o # m
    BY <1>0, <1>3, <2>2
  <2> QED  BY <1>0, <2>1, <2>2
<1>7. ASSUME NEW x \in Param, x \in Mine(g, m)
      PROVE  h.free[x] = 0 <=> x \in Y \/ \E o \in Msg : x \in Pile(h, o)
  BY <1>0, <1>3, <1>7
<1>8. ASSUME NEW x \in Param, x \notin Mine(g, m)
      PROVE  /\ h.free[x] = 0 <=> x \in Y \/ \E o \in Msg : x \in Pile(h, o)
             /\ h.free[x] = 0 /\ x \notin Y
  <2>1. PICK o \in Msg \ {m} : x \in Pile(g, o)
    BY <1>0, <1>8 DEF Mine
  <2>2. x \in Pile(h, o)
    BY <1>0, <1>2, <2>1
  <2>3. g.free[x] = 0
    BY <1>0, <2>1 DEF Own
  <2> QED  BY <1>0, <1>8, <2>2, <2>3
<1>9. Y \in SUBSET Param
  BY <1>0 DEF Mine
<1>10. \A o \in Msg : IF h.msgs[o] = 0 THEN Proper(h, o) ELSE h.msg[o].tlvs = <<>>
  BY <1>0, <1>4
<1>11. \A x \in Param : h.free[x] = 0 <=> x \in Y \/ \E o \in Msg : x \in Pile(h, o)
  BY <1>0, <1>7, <1>8
<1>12. \A x \in Param : h.free[x] = 1 \/ x \in Y => h.prm[x].linked = <<>>
  BY <1>0, <1>8
<1> QED  BY <1>0, <1>5, <1>6, <1>9, <1>10, <1>11, <1>12 DEF Own

(* Nothing of this is about the contents. *)
LEMMA OwnSame ==
    ASSUME NEW g, NEW X, Own(g, X), NEW h \in Manager, h.msgs = g.msgs, h.free = g.free,
           \A m \in Msg : h.msg[m].tlvs = g.msg[m].tlvs /\ h.msg[m].frag = g.msg[m].frag,
           \A x \in Param : h.prm[x].linked = g.prm[x].linked
    PROVE  Own(h, X) /\ \A m \in Msg : Pile(h, m) = Pile(g, m) /\ Tops(h, m) = Tops(g, m)
<1>1. g \in Manager
  BY DEF Own
<1>2. ASSUME NEW m \in Msg
      PROVE  /\ Tops(h, m) = Tops(g, m) /\ \A p \in Tops(g, m) : Cluster(h, p) = Cluster(g, p)
             /\ Pile(h, m) = Pile(g, m)
  <2>1. Tops(h, m) = Tops(g, m)
    BY DEF Tops
  <2>2. \A p \in Tops(g, m) : Cluster(h, p) = Cluster(g, p)
    BY <1>1, ManagerIs DEF Cluster
  <2> QED  BY <2>1, <2>2 DEF Pile, HeldBy
<1>3. ASSUME NEW m \in Msg
      PROVE  IF h.msgs[m] = 0 THEN Proper(h, m) ELSE h.msg[m].tlvs = <<>>
  <2>1. IF g.msgs[m] = 0 THEN Proper(g, m) ELSE g.msg[m].tlvs = <<>>
    BY DEF Own
  <2>2. \A p \in Tops(g, m) : p \in Param
    BY <1>1, ManagerIs
  <2>3. g.msg[m].frag # NoParam => g.msg[m].frag \in Param
    BY <1>1, ManagerIs
  <2> QED  BY <1>2, <2>1, <2>2, <2>3 DEF Proper
<1> QED  BY <1>2, <1>3 DEF Own

(* A parameter that has been reset is one without extra buffers. *)
LEMMA ResetIs ==
    ASSUME NEW g \in Manager, NEW p \in Param
    PROVE  /\ Reset(g, p) \in Object /\ Reset(g, p).linked = <<>>
           /\ Reset(g, p).findex \in Nat
<1>1. g.prm[p] \in Object
  BY ManagerIs
<1>2. Min({1, g.prm[p].findex}) \in Nat
  BY <1>1, MinOne DEF Object
<1>3. Reset(g, p) = [id |-> None, from |-> 0, len |-> 0,
                     findex |-> Min({1, g.prm[p].findex}), linked |-> <<>>]
  BY DEF Reset, Blank
<1> HIDE DEF Reset
<1>4. <<>> \in Seq(Param)
  OBVIOUS
<1> QED  BY <1>2, <1>3, <1>4 DEF Object

(* free_param(): the pool is not full when it gets back one of its own. *)
LEMMA FreeParamIs ==
    ASSUME NEW g \in Manager, NEW p \in Param, g.free[p] = 0
    PROVE  /\ FreeParam(g, p) \in Manager
           /\ FreeParam(g, p).msgs = g.msgs /\ FreeParam(g, p).msg = g.msg
           /\ FreeParam(g, p).free = [g.free EXCEPT ![p] = 1]
           /\ FreeParam(g, p).prm = [g.prm EXCEPT ![p] = Reset(g, p)]
<1> DEFINE t == p[1]  S == OfType(t)  fun == g.free  Ones == {x \in S : fun[x] = 1}
<1>1. t \in Type
  BY ParamIs
<1>2. IsFiniteSet(S) /\ Cardinality(S) = PoolSize[t] /\ PoolSize[t] \in Nat
  BY <1>1, OfTypeIs, ParamIs
<1>3. p \in S /\ \A x \in S : fun[x] \in {0, 1}
  BY ManagerIs DEF OfType
<1>4. SumFunctionOnSet(g.free, S) < PoolSize[t]
  <2> HIDE DEF S, fun
  <2>1. SumFunctionOnSet(fun, S) = Cardinality(Ones)
    BY <1>2, <1>3, SumOfOnes
  <2>2. Ones \in SUBSET S /\ Ones # S
    BY <1>3 DEF fun
  <2> HIDE DEF Ones
  <2>3. Cardinality(Ones) <= Cardinality(S) /\ Cardinality(Ones) # Cardinality(S)
    BY <1>2, <2>2, FS_Subset
  <2>4. Cardinality(Ones) \in Nat
    BY <1>2, <2>2, FS_Subset, FS_CardinalityType
  <2> QED  BY <1>2, <2>1, <2>3, <2>4 DEF fun
<1>5. FreeParam(g, p) = [g EXCEPT !.free[p] = @ + 1, !.prm[p] = Reset(g, p)]
  BY <1>4 DEF FreeParam, OfType
<1>6. Reset(g, p) \in Object
  BY ResetIs
<1> DEFINE h == FreeParam(g, p)  z == Reset(g, p)
<1>7. h = [g EXCEPT !.free[p] = @ + 1, !.prm[p] = z]
  BY <1>5
<1>8. z \in Object
  BY <1>6
<1> HIDE DEF h, z
<1>9. /\ h.msgs = g.msgs /\ h.msg = g.msg
      /\ h.free = [g.free EXCEPT ![p] = g.free[p] + 1] /\ h.prm = [g.prm EXCEPT ![p] = z]
      /\ h = [msgs |-> h.msgs, free |-> h.free, prm |-> h.prm, msg |-> h.msg]
  BY <1>7 DEF Manager
<1>10. g.free[p] + 1 = 1
  OBVIOUS
<1>11. h.free \in [Param -> {0, 1}] /\ h.prm \in [Param -> Object]
  BY <1>8, <1>9, <1>10, ManagerIs
<1>12. h \in Manager
  BY <1>9, <1>11, ManagerIs DEF Manager
<1> QED  BY <1>9, <1>10, <1>12 DEF h, z

(* free_smsg() gives back a list of parameters that are in use. *)
LEMMA FreeListIs ==
    ASSUME NEW g \in Manager, NEW q \in Seq(Param), IsInjective(q),
           \A x \in Range(q) : g.free[x] = 0,
           NEW h, h = FoldLeft(FreeParam, g, q)
    PROVE  /\ h \in Manager /\ h.msgs = g.msgs /\ h.msg = g.msg
           /\ \A x \in Param : IF x \in Range(q) THEN h.free[x] = 1 /\ h.prm[x].linked = <<>>
                               ELSE h.free[x] = g.free[x] /\ h.prm[x] = g.prm[x]
<1> DEFINE n == Len(q)
<1>0. n \in Nat /\ DOMAIN q = 1 .. n
  OBVIOUS
<1>1. PICK r : IsRun(r, "free", g, n, q, g) /\ h = r[n]
  <2> HIDE DEF n
  <2> QED  BY <1>0, FreeRun
<1> HIDE DEF n
<1> DEFINE Seen(k) == {q[j] : j \in 1 .. k}
           Right(k) == /\ r[k] \in Manager /\ r[k].msgs = g.msgs /\ r[k].msg = g.msg
                       /\ \A x \in Param :
                            IF x \in Seen(k) THEN r[k].free[x] = 1 /\ r[k].prm[x].linked = <<>>
                            ELSE r[k].free[x] = g.free[x] /\ r[k].prm[x] = g.prm[x]
           T == {k \in 0 .. n : Right(k)}
<1>2. 0 \in T
  <2>1. r[0] = g /\ Seen(0) = {}
    BY <1>1 DEF IsRun
  <2>2. Right(0)
    BY <2>1
  <2> HIDE DEF Right
  <2> QED  BY <1>0, <2>2
<1>3. ASSUME NEW k \in 0 .. n - 1, k \in T PROVE k + 1 \in T
  <2> DEFINE u == r[k]  v == r[k + 1]  p == q[k + 1]
  <2>1. k + 1 \in 1 .. n /\ k + 1 \in 0 .. n /\ \A j \in 1 .. k : j \in 1 .. n /\ j # k + 1
    BY <1>0
  <2>2. v = FreeParam(u, p)
    BY <1>1 DEF IsRun, Does
  <2>3. p \in Param /\ p \in Range(q) /\ p \notin Seen(k)
    BY <1>0, <2>1 DEF IsInjective, Range
  <2>4. Seen(k + 1) = Seen(k) \cup {p}
    <3>1. \A j : j \in 1 .. k + 1 <=> j \in 1 .. k \/ j = k + 1
      BY <1>0
    <3> QED  BY <3>1
  <2>5. Right(k)
    BY <1>3
  <2> HIDE DEF Seen
  <2>6. u \in Manager /\ u.msgs = g.msgs /\ u.msg = g.msg /\ u.free[p] = 0
    BY <2>3, <2>5
  <2> HIDE DEF u, v, p
  <2>7. /\ v \in Manager /\ v.msgs = u.msgs /\ v.msg = u.msg
        /\ v.free = [u.free EXCEPT ![p] = 1] /\ v.prm = [u.prm EXCEPT ![p] = Reset(u, p)]
    BY <2>2, <2>3, <2>6, FreeParamIs
  <2>8. Reset(u, p).linked = <<>> /\ u.free \in [Param -> {0, 1}] /\ u.prm \in [Param -> Object]
    BY <2>3, <2>6, ResetIs, ManagerIs
  <2>9. \A x \in Param : IF x = p THEN v.free[x] = 1 /\ v.prm[x].linked = <<>>
                         ELSE v.free[x] = u.free[x] /\ v.prm[x] = u.prm[x]
    BY <2>3, <2>7, <2>8
  <2>10. Right(k + 1)
    BY <2>4, <2>5, <2>6, <2>7, <2>9 DEF u, v
  <2> HIDE DEF Right
  <2> QED  BY <2>1, <2>10
<1>4. n \in T
  <2> HIDE DEF T
  <2>1. \A l \in 0 .. n : l \in T
    BY <1>0, <1>2, <1>3, AllUpTo
  <2> QED  BY <1>0, <2>1
<1>5. Seen(n) = Range(q)
  BY <1>0 DEF Range
<1> HIDE DEF Seen
<1> QED  BY <1>1, <1>4, <1>5

(* With() and Held() list what a message holds, each parameter once. *)
LEMMA WithIs ==
    ASSUME NEW g \in Manager, NEW m \in Msg, Proper(g, m), NEW p \in Tops(g, m)
    PROVE  With(g, p) \in Seq(Param) /\ IsInjective(With(g, p)) /\ Range(With(g, p)) = Cluster(g, p)
<1>1. p \in Param
  BY ManagerIs
<1>2. g.prm[p].linked \in Seq(Param) /\ IsInjective(g.prm[p].linked) /\ p \notin Range(g.prm[p].linked)
  BY <1>1, ManagerIs DEF Proper
<1>3. <<p>> \in Seq(Param) /\ IsInjective(<<p>>) /\ Range(<<p>>) = {p}
  BY <1>1 DEF IsInjective, Range
<1> DEFINE l == g.prm[p].linked  k == <<p>>
<1>4. Range(l) \cap Range(k) = {}
  BY <1>2, <1>3
<1>a. l \in Seq(Param) /\ IsInjective(l) /\ k \in Seq(Param) /\ IsInjective(k)
  BY <1>2, <1>3
<1> HIDE DEF l, k
<1>5. l \o k \in Seq(Param) /\ IsInjective(l \o k) /\ Range(l \o k) = Range(l) \cup Range(k)
  BY <1>4, <1>a, JoinIs
<1> QED  BY <1>3, <1>5 DEF With, Cluster, l, k

(* Held() lists all that a message holds, each parameter once. *)
LEMMA HeldIs ==
    ASSUME NEW g \in Manager, NEW m \in Msg, Proper(g, m)
    PROVE  /\ Held(g, m) \in Seq(Param) /\ IsInjective(Held(g, m))
           /\ Range(Held(g, m)) = HeldBy(g, m)
<1> DEFINE s == g.msg[m].tlvs  n == Len(s)  f == g.msg[m].frag
           q == [k \in DOMAIN s |-> With(g, s[k])]
           y == IF f = NoParam THEN <<>> ELSE With(g, f)
<1>1. s \in Seq(Param) /\ n \in Nat /\ DOMAIN s = 1 .. n /\ f \in Param \cup {NoParam}
  BY ManagerIs
<1>2. \A k \in 1 .. n : s[k] \in Tops(g, m)
  BY <1>1 DEF Tops, Range
<1>3. f # NoParam => f \in Tops(g, m) /\ f \notin Range(s)
  BY DEF Tops, Proper
<1>4. \A j, k \in 1 .. n : j # k => s[j] # s[k]
  BY <1>1 DEF Proper, IsInjective
<1>5. Tops(g, m) = {s[k] : k \in 1 .. n} \cup (IF f = NoParam THEN {} ELSE {f})
  BY <1>1, <1>3 DEF Tops, Range
<1>6. Held(g, m) = FlattenSeq(q) \o y
  BY DEF Held
<1> HIDE DEF s, n, f
<1>7. q \in [1 .. n -> Seq(Param)] /\ \A k \in 1 .. n : q[k] = With(g, s[k])
  BY <1>1, <1>2, WithIs
<1> HIDE DEF q
<1>8. \A k \in 1 .. n : IsInjective(q[k]) /\ Range(q[k]) = Cluster(g, s[k])
  BY <1>2, <1>7, WithIs
<1>9. \A j, k \in 1 .. n : j # k => Range(q[j]) \cap Range(q[k]) = {}
  BY <1>2, <1>4, <1>8 DEF Proper
<1>10. /\ FlattenSeq(q) \in Seq(Param) /\ IsInjective(FlattenSeq(q))
       /\ Range(FlattenSeq(q)) = UNION {Range(q[j]) : j \in 1 .. n}
  BY <1>1, <1>7, <1>8, <1>9, FlattenIs
<1>11. y \in Seq(Param) /\ IsInjective(y) /\ Range(y) = IF f = NoParam THEN {} ELSE Cluster(g, f)
  <2>1. CASE f = NoParam
    BY <2>1 DEF IsInjective, Range
  <2>2. CASE f # NoParam
    BY <1>3, <2>2, WithIs
  <2> QED  BY <2>1, <2>2
<1>12. UNION {Range(q[j]) : j \in 1 .. n} = UNION {Cluster(g, s[j]) : j \in 1 .. n}
  BY <1>8
<1>13. Range(FlattenSeq(q)) \cap Range(y) = {}
  <2>1. f # NoParam => \A j \in 1 .. n : s[j] # f
    BY <1>1, <1>3 DEF Range
  <2>2. f # NoParam => \A j \in 1 .. n : Cluster(g, s[j]) \cap Cluster(g, f) = {}
    BY <1>2, <1>3, <2>1 DEF Proper
  <2>3. \A j \in 1 .. n : Range(q[j]) \cap Range(y) = {}
    BY <1>8, <1>11, <2>2
  <2> QED  BY <1>10, <2>3
<1> HIDE DEF y
<1>14. /\ FlattenSeq(q) \o y \in Seq(Param) /\ IsInjective(FlattenSeq(q) \o y)
       /\ Range(FlattenSeq(q) \o y) = Range(FlattenSeq(q)) \cup Range(y)
  BY <1>10, <1>11, <1>13, JoinIs
<1>15. Range(FlattenSeq(q)) \cup Range(y) = HeldBy(g, m)
  <2> DEFINE U == UNION {Cluster(g, s[j]) : j \in 1 .. n}
             V == IF f = NoParam THEN {} ELSE Cluster(g, f)
  <2>1. Range(FlattenSeq(q)) \cup Range(y) = U \cup V
    BY <1>10, <1>11, <1>12
  <2>2. HeldBy(g, m) = U \cup V
    <3>1. ASSUME NEW x \in HeldBy(g, m) PROVE x \in U \cup V
      <4>1. PICK p \in Tops(g, m) : x \in Cluster(g, p)
        BY <3>1 DEF HeldBy
      <4> QED  BY <1>5, <4>1
    <3>2. ASSUME NEW x \in U PROVE x \in HeldBy(g, m)
      BY <1>2, <3>2 DEF HeldBy
    <3>3. ASSUME NEW x \in V PROVE x \in HeldBy(g, m)
      BY <1>3, <3>3 DEF HeldBy
    <3> HIDE DEF U, V
    <3> QED  BY <3>1, <3>2, <3>3
  <2> HIDE DEF U, V
  <2> QED  BY <2>1, <2>2
<1> QED  BY <1>6, <1>14, <1>15

(* free_smsg(msg, true, false) *)
LEMMA FreeParamsIs ==
    ASSUME NEW g, NEW X, Own(g, X), NEW m \in Msg, g.msgs[m] = 0, NEW h, h = FreeParams(g, m)
    PROVE  /\ h \in Manager /\ h.msgs = g.msgs /\ h.msg = [g.msg EXCEPT ![m].tlvs = <<>>]
           /\ \A x \in Param : IF x \in Pile(g, m) THEN h.free[x] = 1 /\ h.prm[x].linked = <<>>
                               ELSE h.free[x] = g.free[x] /\ h.prm[x] = g.prm[x]
           /\ Kept(g, h, m)
<1> DEFINE u == FoldLeft(FreeParam, g, Held(g, m))
<1>1. g \in Manager /\ Proper(g, m) /\ Pile(g, m) = HeldBy(g, m)
  BY DEF Own, Pile
<1>2. /\ Held(g, m) \in Seq(Param) /\ IsInjective(Held(g, m))
      /\ Range(Held(g, m)) = Pile(g, m)
  BY <1>1, HeldIs
<1>3. Pile(g, m) \in SUBSET Param /\ \A x \in Pile(g, m) : g.free[x] = 0
  BY <1>1, PileIs DEF Own
<1>4. h = [u EXCEPT !.msg[m].tlvs = <<>>]
  BY DEF FreeParams
<1>5. /\ u \in Manager /\ u.msgs = g.msgs /\ u.msg = g.msg
      /\ \A x \in Param : IF x \in Pile(g, m) THEN u.free[x] = 1 /\ u.prm[x].linked = <<>>
                          ELSE u.free[x] = g.free[x] /\ u.prm[x] = g.prm[x]
  <2> DEFINE q == Held(g, m)
  <2>1. u = FoldLeft(FreeParam, g, q)
    OBVIOUS
  <2> HIDE DEF q, u
  <2> QED  BY <1>1, <1>2, <1>3, <2>1, FreeListIs DEF q
<1> HIDE DEF u
<1>6. u.msg[m] \in Envelope /\ <<>> \in Seq(Param)
  BY <1>5, ManagerIs
<1>7. [u.msg[m] EXCEPT !.tlvs = <<>>] \in Envelope
  BY <1>6 DEF Envelope
<1>8. /\ h.msgs = u.msgs /\ h.free = u.free /\ h.prm = u.prm
      /\ h.msg = [u.msg EXCEPT ![m].tlvs = <<>>]
      /\ h \in Manager
  BY <1>4, <1>5, <1>7 DEF Manager
<1>9. Kept(g, h, m)
  <2> SUFFICES ASSUME NEW o \in Msg \ {m}
               PROVE  /\ h.msgs[o] = g.msgs[o] /\ h.msg[o] = g.msg[o]
                      /\ \A x \in Pile(g, o) : h.prm[x] = g.prm[x]
    BY DEF Kept
  <2>1. Pile(g, o) \cap Pile(g, m) = {} /\ Pile(g, o) \in SUBSET Param
    BY <1>1, PileIs DEF Own
  <2>2. g.msg \in [Msg -> Envelope]
    BY <1>1, ManagerIs
  <2> QED  BY <1>5, <1>8, <2>1, <2>2
<1> QED  BY <1>5, <1>8, <1>9

(* A message that holds nothing any more. *)
LEMMA EmptyPile ==
    ASSUME NEW h, NEW m \in Msg, h.msg[m].tlvs = <<>>, h.msg[m].frag = NoParam \/ h.msgs[m] # 0
    PROVE  Pile(h, m) = {} /\ (h.msgs[m] = 0 => Proper(h, m))
<1>1. Range(<<>>) = {}
  BY DEF Range
<1>2. h.msgs[m] = 0 => Tops(h, m) = {} /\ h.msg[m].frag = NoParam
  BY <1>1 DEF Tops
<1> QED  BY <1>1, <1>2 DEF Pile, HeldBy, Proper, IsInjective

(* A message whose parameters have all been given back holds nothing. *)
LEMMA FreedIs ==
    ASSUME NEW g, NEW X, Own(g, X), NEW m \in Msg, g.msgs[m] = 0, NEW h \in Manager,
           Kept(g, h, m), h.msg[m].tlvs = <<>>, h.msg[m].frag = NoParam \/ h.msgs[m] # 0,
           \A x \in Param : IF x \in Pile(g, m) THEN h.free[x] = 1 /\ h.prm[x].linked = <<>>
                            ELSE h.free[x] = g.free[x] /\ h.prm[x] = g.prm[x]
    PROVE  Own(h, X) /\ Pile(h, m) = {}
<1>1. Pile(h, m) = {} /\ (h.msgs[m] = 0 => Proper(h, m))
  BY EmptyPile
<1>2. X \in SUBSET Mine(g, m) /\ X \cap Pile(g, m) = {}
  BY DEF Own, Mine
<1>3. Pile(g, m) \in SUBSET Mine(g, m)
  BY PileIs DEF Own, Mine
<1>4. ASSUME NEW x \in Mine(g, m)
      PROVE  /\ h.free[x] = 0 <=> x \in X
             /\ h.free[x] = 1 \/ x \in X => h.prm[x].linked = <<>>
  <2>1. x \in Param /\ g.free[x] \in {0, 1}
    BY ManagerIs DEF Own, Mine
  <2>2. g.free[x] = 0 <=> x \in X \/ x \in Pile(g, m)
    BY <2>1 DEF Own, Mine
  <2>3. g.free[x] = 1 \/ x \in X => g.prm[x].linked = <<>>
    BY <2>1 DEF Own
  <2> QED  BY <1>2, <2>1, <2>2, <2>3
<1>5. \A x \in Param : x \notin Mine(g, m) => h.free[x] = g.free[x]
  BY <1>3
<1>6. Own(h, X)
  <2>1. Again(g, h, m, X)
    BY <1>1, <1>2, <1>4, <1>5 DEF Again
  <2> QED  BY <2>1, OwnAgain
<1> QED  BY <1>1, <1>6

(* The parameters of a message without frag_param are given back; those in *)
(* hand are not touched.                                                   *)
LEMMA ClearedIs ==
    ASSUME NEW g, NEW X, Own(g, X), NEW m \in Msg, g.msgs[m] = 0, g.msg[m].frag = NoParam,
           NEW h, h = FreeParams(g, m)
    PROVE  /\ Own(h, X) /\ Kept(g, h, m) /\ h.msgs = g.msgs /\ h.msg = [g.msg EXCEPT ![m].tlvs = <<>>]
           /\ \A x \in X : h.prm[x] = g.prm[x]
<1>1. /\ h \in Manager /\ h.msgs = g.msgs /\ h.msg = [g.msg EXCEPT ![m].tlvs = <<>>]
      /\ \A x \in Param : IF x \in Pile(g, m) THEN h.free[x] = 1 /\ h.prm[x].linked = <<>>
                          ELSE h.free[x] = g.free[x] /\ h.prm[x] = g.prm[x]
      /\ Kept(g, h, m)
  BY FreeParamsIs
<1>2. g.msg \in [Msg -> Envelope]
  BY ManagerIs DEF Own
<1>3. h.msg[m].tlvs = <<>> /\ h.msg[m].frag = NoParam
  BY <1>1, <1>2 DEF Envelope
<1>4. X \in SUBSET Param /\ X \cap Pile(g, m) = {}
  BY DEF Own
<1>5. Own(h, X)
  BY ZenonT(40), <1>1, <1>3, FreedIs
<1> QED  BY <1>1, <1>4, <1>5

(* A message that has been reset, with or without frag_param. *)
LEMMA FreshEnvelope ==
    ASSUME NEW f \in Param \cup {NoParam}, NEW q \in Seq(Param)
    PROVE  /\ [tlvs |-> q, frag |-> f, vp |-> <<>>, data |-> <<>>,
               missing |-> FALSE, pos |-> 0, pindex |-> 0, pc |-> 0] \in Envelope
           /\ [Message EXCEPT !.frag = f] = [tlvs |-> <<>>, frag |-> f, vp |-> <<>>, data |-> <<>>,
               missing |-> FALSE, pos |-> 0, pindex |-> 0, pc |-> 0]
           /\ [Message EXCEPT !.tlvs = q] = [tlvs |-> q, frag |-> NoParam, vp |-> <<>>, data |-> <<>>,
               missing |-> FALSE, pos |-> 0, pindex |-> 0, pc |-> 0]
<1>0. <<>> \in Mapping
  BY MappingIs
<1>1. <<>> \in Seq(Chunk)
  OBVIOUS
<1> DEFINE o == <<>>  no == NoParam  b == FALSE
<1>2. o \in Mapping /\ o \in Seq(Chunk) /\ b \in BOOLEAN
  BY <1>0, <1>1
<1> HIDE DEF o, b
<1>3. [tlvs |-> q, frag |-> f, vp |-> o, data |-> o,
       missing |-> b, pos |-> 0, pindex |-> 0, pc |-> 0] \in Envelope
  BY <1>2 DEF Envelope
<1> HIDE DEF no
<1>4. [[tlvs |-> o, frag |-> no, vp |-> o, data |-> o, missing |-> b, pos |-> 0, pindex |-> 0, pc |-> 0]
         EXCEPT !.frag = f]
        = [tlvs |-> o, frag |-> f, vp |-> o, data |-> o, missing |-> b, pos |-> 0, pindex |-> 0, pc |-> 0]
  OBVIOUS
<1>5. [[tlvs |-> o, frag |-> no, vp |-> o, data |-> o, missing |-> b, pos |-> 0, pindex |-> 0, pc |-> 0]
         EXCEPT !.tlvs = q]
        = [tlvs |-> q, frag |-> no, vp |-> o, data |-> o, missing |-> b, pos |-> 0, pindex |-> 0, pc |-> 0]
  OBVIOUS
<1>6. Message = [tlvs |-> o, frag |-> no, vp |-> o, data |-> o, missing |-> b, pos |-> 0, pindex |-> 0, pc |-> 0]
  BY DEF Message, o, no, b
<1> HIDE DEF Message
<1>7. [Message EXCEPT !.frag = f] = [tlvs |-> o, frag |-> f, vp |-> o, data |-> o, missing |-> b, pos |-> 0, pindex |-> 0, pc |-> 0]
  BY <1>4, <1>6
<1>8. [Message EXCEPT !.tlvs = q] = [tlvs |-> q, frag |-> no, vp |-> o, data |-> o, missing |-> b, pos |-> 0, pindex |-> 0, pc |-> 0]
  BY <1>5, <1>6
<1> QED  BY <1>3, <1>7, <1>8 DEF o, no, b

(* free_smsg(msg) *)
LEMMA FreeSmsgIs ==
    ASSUME NEW g, NEW X, Own(g, X), NEW m \in Msg, g.msgs[m] = 0, NEW h, h = FreeSmsg(g, m)
    PROVE  Own(h, X) /\ Kept(g, h, m) /\ h.msgs = [g.msgs EXCEPT ![m] = 1]
<1> DEFINE u == FreeParams(g, m)
           e == [Message EXCEPT !.frag = g.msg[m].frag]
<1>0. g \in Manager
  BY DEF Own
<1>1. /\ u \in Manager /\ u.msgs = g.msgs /\ u.msg = [g.msg EXCEPT ![m].tlvs = <<>>]
      /\ \A x \in Param : IF x \in Pile(g, m) THEN u.free[x] = 1 /\ u.prm[x].linked = <<>>
                          ELSE u.free[x] = g.free[x] /\ u.prm[x] = g.prm[x]
      /\ Kept(g, u, m)
  BY FreeParamsIs
<1>2. h = [u EXCEPT !.msg[m] = e, !.msgs[m] = @ + 1]
  BY DEF FreeSmsg
<1> HIDE DEF u
<1>3. g.msg[m].frag \in Param \cup {NoParam}
  BY <1>0, ManagerIs
<1>5. e \in Envelope /\ e.tlvs = <<>>
  <2> DEFINE f == g.msg[m].frag
  <2>1. f \in Param \cup {NoParam} /\ e = [Message EXCEPT !.frag = f]
    BY <1>3
  <2> HIDE DEF e, f
  <2>2. <<>> \in Seq(Param)
    OBVIOUS
  <2>3. e = [tlvs |-> <<>>, frag |-> f, vp |-> <<>>, data |-> <<>>,
             missing |-> FALSE, pos |-> 0, pindex |-> 0, pc |-> 0] /\ e \in Envelope
    <3> DEFINE r == [tlvs |-> <<>>, frag |-> f, vp |-> <<>>, data |-> <<>>,
             missing |-> FALSE, pos |-> 0, pindex |-> 0, pc |-> 0]
    <3>1. r \in Envelope /\ [Message EXCEPT !.frag = f] = r
      BY <2>1, <2>2, FreshEnvelope
    <3> HIDE DEF r
    <3>2. e = r /\ r \in Envelope
      BY <2>1, <3>1
    <3> QED  BY <3>2 DEF r
  <2> QED  BY <2>3
<1> HIDE DEF e
<1>6. /\ h.msgs = [u.msgs EXCEPT ![m] = 1] /\ h.free = u.free /\ h.prm = u.prm
      /\ h.msg = [u.msg EXCEPT ![m] = e] /\ h \in Manager
  <2>1. /\ h.msgs = [u.msgs EXCEPT ![m] = u.msgs[m] + 1] /\ h.free = u.free /\ h.prm = u.prm
        /\ h.msg = [u.msg EXCEPT ![m] = e]
        /\ h = [msgs |-> h.msgs, free |-> h.free, prm |-> h.prm, msg |-> h.msg]
    BY <1>1, <1>2 DEF Manager
  <2>2. u.msgs[m] + 1 = 1
    BY <1>1
  <2>3. h.msgs \in [Msg -> {0, 1}] /\ h.msg \in [Msg -> Envelope]
    BY <1>1, <1>5, <2>1, <2>2, ManagerIs
  <2> QED  BY <1>1, <2>1, <2>2, <2>3, ManagerIs DEF Manager
<1>7. g.msgs \in [Msg -> {0, 1}] /\ u.msg \in [Msg -> Envelope]
  BY <1>0, <1>1, ManagerIs
<1>8. h.msg[m].tlvs = <<>> /\ h.msgs[m] # 0
  BY <1>1, <1>5, <1>6, <1>7
<1>9. Kept(g, h, m)
  BY <1>1, <1>6, <1>7 DEF Kept
<1>10. Own(h, X)
  BY <1>1, <1>6, <1>8, <1>9, FreedIs
<1> QED  BY <1>1, <1>6, <1>9, <1>10

-----------------------------------------------------------------------------
(* The sender: messages are built, *)

(* One more parameter in hand. *)
Takes(g, h, p) ==
    /\ h.msgs = g.msgs /\ h.msg = g.msg
    /\ g.free[p] = 1 /\ h.free = [g.free EXCEPT ![p] = 0]
    /\ \A x \in Param \ {p} : h.prm[x] = g.prm[x]
    /\ h.prm[p].linked = <<>>

(* A parameter out of its pool is in hand, and with no message. *)
LEMMA OwnMore ==
    ASSUME NEW g, NEW X, Own(g, X), NEW h \in Manager, NEW p \in Param, Takes(g, h, p)
    PROVE  /\ Own(h, X \cup {p}) /\ p \notin X /\ \A m \in Msg : p \notin Pile(g, m)
           /\ \A m \in Msg : Pile(h, m) = Pile(g, m)
           /\ \A m : Kept(g, h, m)
<1>0. /\ h.msgs = g.msgs /\ h.msg = g.msg
      /\ g.free[p] = 1 /\ h.free = [g.free EXCEPT ![p] = 0]
      /\ \A x \in Param \ {p} : h.prm[x] = g.prm[x]
      /\ h.prm[p].linked = <<>>
  BY DEF Takes
<1>1. g \in Manager /\ p \notin X /\ \A m \in Msg : p \notin Pile(g, m)
  BY <1>0 DEF Own
<1>2. ASSUME NEW m PROVE Kept(g, h, m)
  <2> SUFFICES ASSUME NEW o \in Msg \ {m}, NEW x \in Pile(g, o) PROVE h.prm[x] = g.prm[x]
    BY <1>0 DEF Kept
  <2> QED  BY <1>0, <1>1, PileIs
<1>3. 0 \notin Msg
  BY ConstantsAssumption
<1>4. \A o \in Msg : Pile(h, o) = Pile(g, o) /\ (g.msgs[o] = 0 /\ Proper(g, o) => Proper(h, o))
  <2>1. Kept(g, h, 0)
    BY <1>2
  <2>2. \A o \in Msg \ {0} : Pile(h, o) = Pile(g, o) /\ (g.msgs[o] = 0 /\ Proper(g, o) => Proper(h, o))
    BY <1>1, <2>1, KeptPile
  <2> QED  BY <1>3, <2>2
<1>5. ASSUME NEW o \in Msg PROVE IF h.msgs[o] = 0 THEN Proper(h, o) ELSE h.msg[o].tlvs = <<>>
  BY <1>0, <1>4 DEF Own
<1>6. g.free \in [Param -> {0, 1}]
  BY <1>1, ManagerIs
<1>7. \A x \in Param : h.free[x] = IF x = p THEN 0 ELSE g.free[x]
  BY <1>0, <1>6
<1>8. \A x \in Param : h.free[x] = 0 <=> x \in X \cup {p} \/ \E m \in Msg : x \in Pile(h, m)
  BY <1>4, <1>7 DEF Own
<1>9. \A x \in Param : h.free[x] = 1 \/ x \in X \cup {p} => h.prm[x].linked = <<>>
  BY <1>0, <1>7 DEF Own
<1>10. \A m, o \in Msg : m # o => Pile(h, m) \cap Pile(h, o) = {}
  BY <1>4 DEF Own
<1>11. \A m \in Msg : Pile(h, m) \cap (X \cup {p}) = {}
  BY <1>1, <1>4 DEF Own
<1>12. Own(h, X \cup {p})
  BY <1>5, <1>8, <1>9, <1>0, <1>10, <1>11 DEF Own
<1> QED  BY <1>1, <1>2, <1>4, <1>12

(* new_param() *)
Made(g, X, h, p, i, from, len) ==
    /\ p \in Param /\ p[1] = TypeOf(i) /\ g.free[p] = 1 /\ p \notin X
    /\ h.msgs = g.msgs /\ h.msg = g.msg
    /\ h.prm[p].id = i /\ h.prm[p].from = from /\ h.prm[p].len = len
    /\ h.prm[p].linked = <<>> /\ h.prm[p].findex \in Nat
    /\ \A x \in Param \ {p} : h.prm[x] = g.prm[x]
    /\ Own(h, X \cup {p}) /\ \A m \in Msg : p \notin Pile(g, m) /\ Pile(h, m) = Pile(g, m)
    /\ \A m : Kept(g, h, m)

(* new_param(): the parameter is in hand, with the piece it was asked for. *)
LEMMA NewParamIs ==
    ASSUME NEW g, NEW X, Own(g, X), NEW i \in Id, NEW from \in Nat, NEW len \in Nat,
           Available(g, TypeOf(i)),
           NEW p, p = NextParam(g, TypeOf(i)), NEW h, h = NewParam(g, i, from, len)
    PROVE  Made(g, X, h, p, i, from, len)
<1>0. g \in Manager
  BY DEF Own
<1>1. TypeOf(i) \in Type
  BY DEF TypeOf, Type
<1>2. p \in Param /\ p[1] = TypeOf(i) /\ g.free[p] > 0
  BY <1>1, NextParamIs
<1>3. g.free[p] = 1
  BY <1>0, <1>2, ManagerIs
<1> DEFINE z == [Reset(g, p) EXCEPT !.id = i, !.from = from, !.len = len]
<1>4. z \in Object /\ z.id = i /\ z.from = from /\ z.len = len /\ z.linked = <<>> /\ z.findex \in Nat
  <2> DEFINE y == Reset(g, p)
  <2>1. y \in Object /\ y.linked = <<>> /\ y.findex \in Nat
    BY <1>0, <1>2, ResetIs
  <2> HIDE DEF y
  <2>2. z = [y EXCEPT !.id = i, !.from = from, !.len = len]
    BY DEF y
  <2> HIDE DEF z
  <2> QED  BY <2>1, <2>2 DEF Object
<1>5. h = [g EXCEPT !.free[p] = @ - 1, !.prm[p] = z]
  BY DEF NewParam
<1> HIDE DEF z
<1>6. /\ h.msgs = g.msgs /\ h.msg = g.msg
      /\ h.free = [g.free EXCEPT ![p] = g.free[p] - 1] /\ h.prm = [g.prm EXCEPT ![p] = z]
      /\ h = [msgs |-> h.msgs, free |-> h.free, prm |-> h.prm, msg |-> h.msg]
  BY <1>0, <1>5 DEF Manager
<1>7. g.free[p] - 1 = 0
  BY <1>3
<1>8. h.free \in [Param -> {0, 1}] /\ h.prm \in [Param -> Object] /\ h.free = [g.free EXCEPT ![p] = 0]
  <2>1. g.free \in [Param -> {0, 1}] /\ g.prm \in [Param -> Object]
    BY <1>0, ManagerIs
  <2>2. h.free = [g.free EXCEPT ![p] = 0]
    BY <1>6, <1>7
  <2>3. h.free \in [Param -> {0, 1}]
    BY <2>1, <2>2
  <2>4. h.prm \in [Param -> Object]
    BY ZenonT(40), <1>4, <1>6, <2>1
  <2> QED  BY <2>2, <2>3, <2>4
<1>9. h \in Manager
  BY <1>0, <1>6, <1>8, ManagerIs DEF Manager
<1>10. g.prm \in [Param -> Object]
  BY <1>0, ManagerIs
<1>11. h.prm[p] = z /\ \A x \in Param \ {p} : h.prm[x] = g.prm[x]
  BY <1>2, <1>6, <1>10
<1>12. /\ Own(h, X \cup {p}) /\ p \notin X /\ \A m \in Msg : p \notin Pile(g, m)
       /\ \A m \in Msg : Pile(h, m) = Pile(g, m)
       /\ \A m : Kept(g, h, m)
  <2>1. h.prm[p].linked = <<>>
    BY <1>4, <1>11
  <2>2. h.msgs = g.msgs /\ h.msg = g.msg /\ h.free = [g.free EXCEPT ![p] = 0]
    BY <1>6, <1>8
  <2>3. Takes(g, h, p)
    BY <1>3, <1>11, <2>1, <2>2 DEF Takes
  <2> QED  BY <1>2, <1>9, <2>3, OwnMore
<1> QED  BY <1>2, <1>3, <1>4, <1>6, <1>11, <1>12 DEF Made

(* Parameters ps that have just been taken from g, for the ids of q. *)
Fresh(g, X, h, ps, q) ==
    /\ ps \in Seq(Param) /\ IsInjective(ps)
    /\ Own(h, X \cup Range(ps)) /\ h.msgs = g.msgs /\ h.msg = g.msg
    /\ \A x \in Range(ps) : g.free[x] = 1 /\ x \notin X
    /\ \A x \in Param : x \notin Range(ps) => h.prm[x] = g.prm[x]
    /\ \A a \in DOMAIN ps : /\ h.prm[ps[a]].id \in Range(q) /\ h.prm[ps[a]].from = 0
                            /\ h.prm[ps[a]].len = Size[h.prm[ps[a]].id]
                            /\ h.prm[ps[a]].linked = <<>>
    /\ IsInjective(q) => \A a, b \in DOMAIN ps : a # b => h.prm[ps[a]].id # h.prm[ps[b]].id
    /\ \A m \in Msg : Pile(h, m) = Pile(g, m)
    /\ \A m : Kept(g, h, m)

(* What Append() does to a sequence of different parameters. *)
LEMMA FreshEnds ==
    ASSUME NEW A, NEW ps \in Seq(A), NEW p \in A
    PROVE  /\ Append(ps, p) \in Seq(A) /\ Range(Append(ps, p)) = Range(ps) \cup {p}
           /\ Len(Append(ps, p)) = Len(ps) + 1 /\ Len(ps) \in Nat
           /\ DOMAIN ps = 1 .. Len(ps) /\ DOMAIN Append(ps, p) = 1 .. Len(ps) + 1
           /\ \A a \in 1 .. Len(ps) : Append(ps, p)[a] = ps[a]
           /\ Append(ps, p)[Len(ps) + 1] = p
           /\ IsInjective(ps) /\ p \notin Range(ps) => IsInjective(Append(ps, p))
<1> DEFINE s == Append(ps, p)  n == Len(ps)
<1>1. /\ s \in Seq(A) /\ Len(s) = n + 1 /\ n \in Nat /\ DOMAIN ps = 1 .. n /\ DOMAIN s = 1 .. n + 1
      /\ \A a \in 1 .. n : s[a] = ps[a]
      /\ s[n + 1] = p
  OBVIOUS
<1> HIDE DEF s, n
<1>2. \A a : a \in 1 .. n + 1 <=> a \in 1 .. n \/ a = n + 1
  BY <1>1
<1>3. Range(s) = Range(ps) \cup {p}
  BY <1>1, <1>2 DEF Range
<1>4. ASSUME IsInjective(ps), p \notin Range(ps) PROVE IsInjective(s)
  <2> SUFFICES ASSUME NEW a \in 1 .. n + 1, NEW b \in 1 .. n + 1, s[a] = s[b] PROVE a = b
    BY <1>1 DEF IsInjective
  <2>1. \A c \in 1 .. n : ps[c] # p
    BY <1>1, <1>4 DEF Range
  <2>2. CASE a \in 1 .. n /\ b \in 1 .. n
    BY <1>1, <1>4, <2>2 DEF IsInjective
  <2>3. CASE a = n + 1 \/ b = n + 1
    BY <1>1, <1>2, <2>1, <2>3
  <2> QED  BY <1>2, <2>2, <2>3
<1> QED  BY <1>1, <1>3, <1>4 DEF s, n

(* The parameters allocated for the ids of q are new, and in their order. *)
LEMMA NewParamsIs ==
    ASSUME NEW g, NEW X, Own(g, X), NEW q \in Seq(Id), NEW a, a = NewParams(g, q)
    PROVE  Fresh(g, X, a.g, a.ps, q)
<1> DEFINE n == Len(q)
<1>0. n \in Nat /\ DOMAIN q = 1 .. n
  OBVIOUS
<1>1. PICK r : IsRun(r, "new", g, n, q, [g |-> g, ps |-> <<>>]) /\ a = r[n]
  <2> HIDE DEF n
  <2> QED  BY <1>0, NewRun
<1>n. n = Len(q)
  OBVIOUS
<1> HIDE DEF n
<1> DEFINE Right(k) == /\ Fresh(g, X, r[k].g, r[k].ps, q)
                       /\ \A c \in DOMAIN r[k].ps : \E j \in 1 .. k : r[k].g.prm[r[k].ps[c]].id = q[j]
           T == {k \in 0 .. n : Right(k)}
<1>2. 0 \in T
  <2> DEFINE u == r[0].g  ps == r[0].ps
  <2>1. u = g /\ ps = <<>>
    BY <1>1 DEF IsRun
  <2> HIDE DEF u, ps
  <2>2. ps \in Seq(Param) /\ Range(ps) = {} /\ DOMAIN ps = {} /\ IsInjective(ps)
    BY <2>1 DEF Range, IsInjective
  <2>3. \A m : Kept(g, g, m)
    BY DEF Kept
  <2>4. X \cup Range(ps) = X
    BY <2>2
  <2>5. Fresh(g, X, u, ps, q)
    BY <2>1, <2>2, <2>3, <2>4 DEF Fresh
  <2>6. Right(0)
    BY <2>2, <2>5 DEF u, ps
  <2> HIDE DEF Right
  <2> QED  BY <1>0, <2>6
<1>3. ASSUME NEW k \in 0 .. n - 1, k \in T PROVE k + 1 \in T
  <2> DEFINE u == r[k].g  ps == r[k].ps  i == q[k + 1]  v == r[k + 1].g  qs == r[k + 1].ps
  <2>1. k + 1 \in 1 .. n /\ k + 1 \in 0 .. n /\ \A j \in 1 .. k : j \in 1 .. k + 1 /\ j \in 1 .. n /\ j # k + 1
    BY <1>0
  <2>2. r[k + 1] = NewOne(r[k], i)
    BY <1>1 DEF IsRun, Does
  <2>3. i \in Id /\ i \in Range(q)
    BY <1>0, <1>n, <2>1 DEF Range
  <2>4. Right(k)
    BY <1>3
  <2>5. CASE ~Available(u, TypeOf(i))
    <3>1. r[k + 1] = r[k]
      BY <2>2, <2>5 DEF NewOne
    <3>2. Right(k + 1)
      BY <2>1, <2>4, <3>1
    <3> HIDE DEF Right
    <3> QED  BY <2>1, <3>2
  <2>6. CASE Available(u, TypeOf(i))
    <3> DEFINE p == NextParam(u, TypeOf(i))  Y == X \cup Range(ps)
    <3>1. v = NewParam(u, i, 0, Size[i]) /\ qs = Append(ps, p)
      BY <2>2, <2>6 DEF NewOne
    <3>2. /\ Fresh(g, X, u, ps, q)
          /\ \A c \in DOMAIN ps : \E j \in 1 .. k : u.prm[ps[c]].id = q[j]
      BY <2>4
    <3>3. Own(u, Y) /\ Size[i] \in Nat /\ ps \in Seq(Param) /\ IsInjective(ps)
      BY <2>3, <3>2, ConstantsAssumption DEF Fresh
    <3>g. g \in Manager
      BY DEF Own
    <3>h. p = NextParam(u, TypeOf(i)) /\ Y = X \cup Range(ps)
      OBVIOUS
    <3> HIDE DEF p, Y, u, v, ps, qs, i, Right
    <3>4. /\ p \in Param /\ p[1] = TypeOf(i) /\ u.free[p] = 1 /\ p \notin Y
          /\ v.msgs = u.msgs /\ v.msg = u.msg
          /\ v.prm[p].id = i /\ v.prm[p].from = 0 /\ v.prm[p].len = Size[i]
          /\ v.prm[p].linked = <<>>
          /\ \A x \in Param \ {p} : v.prm[x] = u.prm[x]
          /\ Own(v, Y \cup {p}) /\ \A m \in Msg : p \notin Pile(u, m) /\ Pile(v, m) = Pile(u, m)
          /\ \A m : Kept(u, v, m)
      <4>1. v = NewParam(u, i, 0, Size[i]) /\ p = NextParam(u, TypeOf(i)) /\ i \in Id /\ 0 \in Nat
             /\ Size[i] \in Nat /\ Available(u, TypeOf(i)) /\ Own(u, Y)
        BY <2>3, <2>6, <3>1, <3>3, <3>h
      <4>2. Made(u, Y, v, p, i, 0, Size[i])
        BY <4>1, NewParamIs
      <4> QED  BY <4>2 DEF Made
    <3>5. p \notin Range(ps) /\ p \notin X
      BY <3>4, <3>h
    <3>6. /\ qs \in Seq(Param) /\ Range(qs) = Range(ps) \cup {p} /\ IsInjective(qs)
          /\ Len(ps) \in Nat /\ DOMAIN ps = 1 .. Len(ps) /\ DOMAIN qs = 1 .. Len(ps) + 1
          /\ \A c \in 1 .. Len(ps) : qs[c] = ps[c]
          /\ qs[Len(ps) + 1] = p
      BY <3>1, <3>3, <3>4, <3>5, FreshEnds
    <3>7. Y \cup {p} = X \cup Range(qs)
      BY <3>6, <3>h
    <3>8. g.free[p] = 1
      <4>1. p \notin X /\ \A m \in Msg : p \notin Pile(g, m)
        BY <3>2, <3>4, <3>5 DEF Fresh
      <4>2. g.free[p] # 0
        BY <3>4, <4>1 DEF Own
      <4> QED  BY <3>4, <3>g, <4>2, ManagerIs
    <3>9. \A c : c \in 1 .. Len(ps) + 1 <=> c \in 1 .. Len(ps) \/ c = Len(ps) + 1
      BY <3>6
    <3>10. \A c \in 1 .. Len(ps) : ps[c] \in Param \ {p} /\ v.prm[qs[c]] = u.prm[ps[c]]
      <4>1. \A c \in 1 .. Len(ps) : ps[c] \in Param /\ ps[c] # p
        BY <3>3, <3>5, <3>6 DEF Range
      <4> QED  BY <3>4, <3>6, <4>1
    <3>11. \A c \in DOMAIN qs : /\ v.prm[qs[c]].id \in Range(q) /\ v.prm[qs[c]].from = 0
                                /\ v.prm[qs[c]].len = Size[v.prm[qs[c]].id]
                                /\ v.prm[qs[c]].linked = <<>>
      BY <2>3, <3>2, <3>4, <3>6, <3>9, <3>10 DEF Fresh
    <3>12. \A c \in 1 .. Len(ps) : \E j \in 1 .. k : v.prm[qs[c]].id = q[j]
      BY <3>2, <3>6, <3>10
    <3>13. ASSUME IsInjective(q) PROVE \A c, d \in DOMAIN qs : c # d => v.prm[qs[c]].id # v.prm[qs[d]].id
      <4>1. \A c \in 1 .. Len(ps) : v.prm[qs[c]].id # i
        <5> SUFFICES ASSUME NEW c \in 1 .. Len(ps) PROVE v.prm[qs[c]].id # i
          OBVIOUS
        <5>1. PICK j \in 1 .. k : v.prm[qs[c]].id = q[j]
          BY <3>12
        <5>2. q[j] # q[k + 1]
          BY <1>0, <2>1, <3>13 DEF IsInjective
        <5> QED  BY <5>1, <5>2 DEF i
      <4>2. \A c, d \in 1 .. Len(ps) : c # d => v.prm[qs[c]].id # v.prm[qs[d]].id
        <5>1. \A c, d \in DOMAIN ps : c # d => u.prm[ps[c]].id # u.prm[ps[d]].id
          BY <3>2, <3>13 DEF Fresh
        <5> QED  BY <3>6, <3>10, <5>1
      <4> QED  BY <3>4, <3>6, <3>9, <4>1, <4>2
    <3>14. \A x \in Param : x \notin Range(qs) => v.prm[x] = g.prm[x]
      BY <3>2, <3>4, <3>6 DEF Fresh
    <3>15. \A x \in Range(qs) : g.free[x] = 1 /\ x \notin X
      BY <3>2, <3>5, <3>6, <3>8 DEF Fresh
    <3>16. \A m \in Msg : Pile(v, m) = Pile(g, m)
      BY <3>2, <3>4 DEF Fresh
    <3>17. \A m : Kept(g, v, m)
      BY <3>2, <3>4, <3>g, KeptTrans DEF Fresh
    <3>18. Fresh(g, X, v, qs, q)
      <4>1. v.msgs = g.msgs /\ v.msg = g.msg /\ Own(v, X \cup Range(qs))
        BY <3>2, <3>4, <3>7 DEF Fresh
      <4> QED  BY <3>6, <3>11, <3>13, <3>14, <3>15, <3>16, <3>17, <4>1 DEF Fresh
    <3>19. \A c \in DOMAIN qs : \E j \in 1 .. k + 1 : v.prm[qs[c]].id = q[j]
      <4>1. k + 1 \in 1 .. k + 1
        BY <2>1
      <4> QED  BY <2>1, <3>4, <3>6, <3>9, <3>12, <4>1 DEF i
    <3>20. Right(k + 1)
      BY <3>18, <3>19 DEF Right, v, qs
    <3> QED  BY <2>1, <3>20
  <2> QED  BY <2>5, <2>6
<1>4. n \in T
  <2> HIDE DEF T
  <2>1. \A l \in 0 .. n : l \in T
    BY <1>0, <1>2, <1>3, AllUpTo
  <2> QED  BY <1>0, <2>1
<1> QED  BY <1>1, <1>4

(* A message gets the parameters in hand. *)
Give(g, m, s) == [g EXCEPT !.msg[m].tlvs = s]

(* What was in hand is then with the message, and with nobody else. *)
LEMMA GiveIs ==
    ASSUME NEW g, NEW X, Own(g, X), NEW m \in Msg, g.msgs[m] = 0,
           g.msg[m].tlvs = <<>>, g.msg[m].frag = NoParam,
           NEW s \in Seq(Param), IsInjective(s), Range(s) = X,
           NEW h, h = Give(g, m, s)
    PROVE  /\ Own(h, {}) /\ Kept(g, h, m) /\ h.msgs = g.msgs /\ h.prm = g.prm
           /\ h.msg[m].tlvs = s /\ h.msg[m].frag = NoParam
<1>0. g \in Manager
  BY DEF Own
<1>1. g.msg \in [Msg -> Envelope] /\ g.msg[m] \in Envelope
  BY <1>0, ManagerIs
<1>2. [g.msg[m] EXCEPT !.tlvs = s] \in Envelope
  BY <1>1 DEF Envelope
<1>3. /\ h.msgs = g.msgs /\ h.free = g.free /\ h.prm = g.prm
      /\ h.msg = [g.msg EXCEPT ![m].tlvs = s]
      /\ h = [msgs |-> h.msgs, free |-> h.free, prm |-> h.prm, msg |-> h.msg]
  BY <1>0 DEF Manager, Give
<1>4. h \in Manager
  <2>1. h.msg \in [Msg -> Envelope]
    BY <1>1, <1>2, <1>3
  <2> QED  BY <1>0, <1>3, <2>1, ManagerIs DEF Manager
<1>5. h.msg[m].tlvs = s /\ h.msg[m].frag = NoParam /\ \A o \in Msg \ {m} : h.msg[o] = g.msg[o]
  BY <1>1, <1>3 DEF Envelope
<1>6. Kept(g, h, m)
  BY <1>3, <1>5 DEF Kept
<1>7. Pile(g, m) = {}
  BY EmptyPile
<1>8. X \in SUBSET Param /\ \A x \in X : g.prm[x].linked = <<>>
  BY DEF Own
<1>9. Tops(h, m) = X
  BY <1>5 DEF Tops
<1>10. \A x \in X : Cluster(h, x) = {x}
  <2>1. Range(<<>>) = {}
    BY DEF Range
  <2> QED  BY <1>3, <1>8, <2>1 DEF Cluster
<1>11. Pile(h, m) = X
  BY <1>3, <1>9, <1>10 DEF Pile, HeldBy
<1>12. Proper(h, m)
  <2>1. h.msg[m].frag \notin Range(s)
    BY <1>5, <1>8, NoParamIs
  <2>2. \A p \in X : IsInjective(h.prm[p].linked) /\ p \notin Range(h.prm[p].linked)
    BY <1>3, <1>8 DEF IsInjective, Range
  <2> QED  BY <1>5, <1>9, <1>10, <2>1, <2>2 DEF Proper
<1>13. X \in SUBSET Mine(g, m)
  BY DEF Own, Mine
<1>14. \A x \in Mine(g, m) : h.free[x] = 0 <=> x \in {} \/ x \in Pile(h, m)
  <2> SUFFICES ASSUME NEW x \in Mine(g, m) PROVE h.free[x] = 0 <=> x \in X
    BY <1>11
  <2>1. x \in Param /\ \A o \in Msg : x \notin Pile(g, o)
    BY <1>7 DEF Mine
  <2> QED  BY <1>3, <2>1 DEF Own
<1>15. \A x \in Mine(g, m) : h.free[x] = 1 \/ x \in {} => h.prm[x].linked = <<>>
  BY <1>3 DEF Own, Mine
<1>16. /\ {} \in SUBSET Mine(g, m) /\ Pile(h, m) \in SUBSET Mine(g, m) /\ Pile(h, m) \cap {} = {}
       /\ IF h.msgs[m] = 0 THEN Proper(h, m) ELSE h.msg[m].tlvs = <<>>
       /\ \A x \in Param : x \notin Mine(g, m) => h.free[x] = g.free[x]
  BY <1>3, <1>11, <1>12, <1>13
<1>17. Own(h, {})
  <2> DEFINE Y == {}
  <2>1. /\ Y \in SUBSET Mine(g, m) /\ Pile(h, m) \cap Y = {}
        /\ \A x \in Mine(g, m) : h.free[x] = 0 <=> x \in Y \/ x \in Pile(h, m)
        /\ \A x \in Mine(g, m) : h.free[x] = 1 \/ x \in Y => h.prm[x].linked = <<>>
    BY <1>14, <1>15, <1>16
  <2> HIDE DEF Y
  <2>2. Again(g, h, m, Y)
    BY <1>6, <1>16, <2>1 DEF Again
  <2>3. Own(h, Y)
    BY <1>4, <2>2, OwnAgain
  <2> QED  BY <2>3 DEF Y
<1> QED  BY <1>3, <1>5, <1>6, <1>17

(* A sequence of elements of a smaller set. *)
LEMMA SeqWithin == \A S, T : S \subseteq T => Seq(S) \subseteq Seq(T)
OBVIOUS

(* The parameters of message m are those that the ids of ord ask for. *)
Loaded(g, m, ord) ==
    /\ g.msgs[m] = 0 /\ g.msg[m].frag = NoParam
    /\ ord \in Seq(Id) /\ IsInjective(ord) /\ Len(g.msg[m].tlvs) = Len(ord)
    /\ \A k \in 1 .. Len(ord) : g.prm[g.msg[m].tlvs[k]].id = ord[k]

(* A message has been built, of parameters without extra buffers. *)
Builds(g, m, h) ==
    /\ Own(h, {}) /\ Kept(g, h, m) /\ h.msgs = g.msgs
    /\ \E ord : Loaded(h, m, ord) /\ Values(h, m) = Range(ord)
    /\ \A k \in DOMAIN h.msg[m].tlvs : h.prm[h.msg[m].tlvs[k]].linked = <<>>

(* A message with the values is. *)
LEMMA BuildIs ==
    ASSUME NEW g, Own(g, {}), NEW m \in Msg, g.msgs[m] = 0, g.msg[m].frag = NoParam,
           NEW is \in SUBSET Id, NEW h, h = Build(g, m, is).g
    PROVE  Builds(g, m, h)
<1> SUFFICES /\ Own(h, {}) /\ Kept(g, h, m) /\ h.msgs = g.msgs
             /\ \E ord : Loaded(h, m, ord) /\ Values(h, m) = Range(ord)
             /\ \A k \in DOMAIN h.msg[m].tlvs : h.prm[h.msg[m].tlvs[k]].linked = <<>>
  BY DEF Builds
<1> DEFINE q == InOrder(is \cap Octets)  z == InOrder(is \ Octets)
           a == NewParams(g, q)  c == FreeParams(a.g, m)
           b == NewParams(c, z)  s == b.ps \o a.ps
<1>0. g \in Manager
  BY DEF Own
<1>1. /\ q \in Seq(Id) /\ IsInjective(q) /\ Range(q) = is \cap Octets
      /\ z \in Seq(Id) /\ IsInjective(z) /\ Range(z) = is \ Octets
  <2> DEFINE A == is \cap Octets  B == is \ Octets
  <2>1. A \in SUBSET Nat /\ B \in SUBSET Nat /\ IsFiniteSet(A) /\ IsFiniteSet(B)
        /\ A \in SUBSET Id /\ B \in SUBSET Id
    BY ConstantsAssumption, FS_Subset
  <2> HIDE DEF A, B
  <2>2. /\ InOrder(A) \in Seq(A) /\ IsInjective(InOrder(A)) /\ Range(InOrder(A)) = A
        /\ InOrder(B) \in Seq(B) /\ IsInjective(InOrder(B)) /\ Range(InOrder(B)) = B
    BY <2>1, InOrderIs
  <2>3. InOrder(A) \in Seq(Id) /\ InOrder(B) \in Seq(Id)
    <3>1. Seq(A) \subseteq Seq(Id) /\ Seq(B) \subseteq Seq(Id)
      BY <2>1, SeqWithin
    <3>2. InOrder(A) \in Seq(A) /\ InOrder(B) \in Seq(B)
      BY <2>2
    <3> QED  BY <3>1, <3>2
  <2> QED  BY <2>2, <2>3 DEF A, B
<1>2. h = Give(b.g, m, s)
  BY DEF Build, VpmapSparamSync, Give
<1> HIDE DEF q, z
<1>3. Fresh(g, {}, a.g, a.ps, q)
  BY <1>1, NewParamsIs
<1>4. a = NewParams(g, q) /\ c = FreeParams(a.g, m) /\ b = NewParams(c, z) /\ s = b.ps \o a.ps
  OBVIOUS
<1> HIDE DEF a, b, c, s
<1> DEFINE X == Range(a.ps)
<1>5. /\ Own(a.g, X) /\ a.g.msgs = g.msgs /\ a.g.msg = g.msg /\ Kept(g, a.g, m)
      /\ a.ps \in Seq(Param) /\ IsInjective(a.ps) /\ X \in SUBSET Param
  <2>1. {} \cup X = X
    OBVIOUS
  <2> QED  BY <1>3, <2>1 DEF Fresh, Own
<1>6. /\ Own(c, X) /\ Kept(a.g, c, m) /\ c.msgs = g.msgs /\ c.msg = [g.msg EXCEPT ![m].tlvs = <<>>]
      /\ \A x \in X : c.prm[x] = a.g.prm[x]
  <2> HIDE DEF X
  <2> QED  BY <1>4, <1>5, ClearedIs
<1>7. Fresh(c, X, b.g, b.ps, z)
  <2> HIDE DEF X
  <2> QED  BY <1>1, <1>4, <1>6, NewParamsIs
<1> DEFINE Y == X \cup Range(b.ps)
<1>8. /\ Own(b.g, Y) /\ b.g.msgs = g.msgs /\ b.g.msg = [g.msg EXCEPT ![m].tlvs = <<>>] /\ Kept(c, b.g, m)
      /\ b.ps \in Seq(Param) /\ IsInjective(b.ps) /\ Range(b.ps) \cap X = {}
  BY <1>6, <1>7 DEF Fresh
<1>9. /\ s \in Seq(Param) /\ IsInjective(s) /\ Range(s) = Y
      /\ Len(s) = Len(b.ps) + Len(a.ps)
      /\ \A k \in 1 .. Len(b.ps) : s[k] = b.ps[k]
      /\ \A k \in 1 .. Len(a.ps) : s[Len(b.ps) + k] = a.ps[k]
  <2>1. Range(b.ps) \cap Range(a.ps) = {}
    BY <1>8
  <2> HIDE DEF X
  <2> DEFINE u == b.ps  v == a.ps
  <2>2. u \in Seq(Param) /\ v \in Seq(Param) /\ IsInjective(u) /\ IsInjective(v)
        /\ Range(u) \cap Range(v) = {} /\ s = u \o v
    BY <1>4, <1>5, <1>8, <2>1
  <2> HIDE DEF u, v
  <2>3. /\ u \o v \in Seq(Param) /\ IsInjective(u \o v) /\ Range(u \o v) = Range(u) \cup Range(v)
        /\ Len(u \o v) = Len(u) + Len(v)
        /\ \A k \in 1 .. Len(u) : (u \o v)[k] = u[k]
        /\ \A k \in 1 .. Len(v) : (u \o v)[Len(u) + k] = v[k]
    BY <2>2, JoinIs
  <2> DEFINE J(x, y) == x \o y
  <2>4. s = J(u, v)
    BY <2>2
  <2>5. /\ J(u, v) \in Seq(Param) /\ IsInjective(J(u, v)) /\ Range(J(u, v)) = Range(u) \cup Range(v)
        /\ Len(J(u, v)) = Len(u) + Len(v)
        /\ \A k \in 1 .. Len(u) : J(u, v)[k] = u[k]
        /\ \A k \in 1 .. Len(v) : J(u, v)[Len(u) + k] = v[k]
    BY <2>3
  <2> HIDE DEF J
  <2> QED  BY <2>4, <2>5 DEF X, u, v
<1>10. b.g.msg[m].tlvs = <<>> /\ b.g.msg[m].frag = NoParam
  <2>1. g.msg \in [Msg -> Envelope]
    BY <1>0, ManagerIs
  <2> QED  BY <1>8, <2>1 DEF Envelope
<1>11. /\ Own(h, {}) /\ Kept(b.g, h, m) /\ h.msgs = g.msgs /\ h.prm = b.g.prm
       /\ h.msg[m].tlvs = s /\ h.msg[m].frag = NoParam
  <2> HIDE DEF X, Y
  <2> DEFINE u == b.g
  <2>1. /\ u.msgs[m] = 0 /\ Own(u, Y) /\ u.msg[m].tlvs = <<>> /\ u.msg[m].frag = NoParam
        /\ h = Give(u, m, s)
        /\ s \in Seq(Param) /\ IsInjective(s) /\ Range(s) = Y
    BY <1>2, <1>8, <1>9, <1>10
  <2> HIDE DEF u
  <2>2. Own(h, {}) /\ Kept(u, h, m) /\ h.msgs = u.msgs /\ h.prm = u.prm
        /\ h.msg[m].tlvs = s /\ h.msg[m].frag = NoParam
    BY <2>1, GiveIs
  <2> QED  BY <1>8, <2>2 DEF u
<1>12. Kept(g, h, m)
  <2>1. a.g \in Manager /\ c \in Manager /\ b.g \in Manager
    BY <1>5, <1>6, <1>8 DEF Own
  <2>2. Kept(g, c, m)
    BY <1>0, <1>5, <1>6, KeptTrans
  <2>3. Kept(g, b.g, m)
    BY <1>0, <1>8, <2>2, KeptTrans
  <2> QED  BY <1>0, <1>11, <2>3, KeptTrans
<1> DEFINE nb == Len(b.ps)  na == Len(a.ps)  ord == [k \in 1 .. nb + na |-> h.prm[s[k]].id]
<1>13. nb \in Nat /\ na \in Nat /\ DOMAIN b.ps = 1 .. nb /\ DOMAIN a.ps = 1 .. na
  BY <1>5, <1>8
<1>14. ASSUME NEW k \in 1 .. nb + na
       PROVE  \/ k \in 1 .. nb /\ s[k] = b.ps[k]
              \/ k - nb \in 1 .. na /\ s[k] = a.ps[k - nb] /\ k \notin 1 .. nb
  <2>1. CASE k <= nb
    <3>0. \A j \in 1 .. nb : s[j] = b.ps[j]
      BY <1>9
    <3> HIDE DEF nb, na
    <3> QED  BY <1>13, <2>1, <3>0
  <2>2. CASE k > nb
    <3>0. \A j \in 1 .. na : s[nb + j] = a.ps[j]
      BY <1>9
    <3> HIDE DEF nb, na
    <3>1. k - nb \in 1 .. na /\ nb + (k - nb) = k
      BY <1>13, <2>2
    <3> QED  BY <1>13, <2>2, <3>0, <3>1
  <2> QED  BY <1>13, <2>1, <2>2
<1>15. \A k \in 1 .. nb : /\ h.prm[b.ps[k]].id \in is \ Octets /\ h.prm[b.ps[k]].linked = <<>>
                          /\ \A j \in 1 .. nb : j # k => h.prm[b.ps[j]].id # h.prm[b.ps[k]].id
  <2>1. h.prm = b.g.prm /\ DOMAIN b.ps = 1 .. nb /\ IsInjective(z) /\ Range(z) = is \ Octets
    BY <1>1, <1>11, <1>13
  <2>2. /\ \A k \in DOMAIN b.ps : b.g.prm[b.ps[k]].id \in Range(z) /\ b.g.prm[b.ps[k]].linked = <<>>
        /\ IsInjective(z) => \A j, k \in DOMAIN b.ps : j # k => b.g.prm[b.ps[j]].id # b.g.prm[b.ps[k]].id
    BY <1>7 DEF Fresh
  <2> HIDE DEF nb
  <2> DEFINE e == b.g.prm  u == b.ps
  <2>3. /\ \A k \in DOMAIN u : e[u[k]].id \in Range(z) /\ e[u[k]].linked = <<>>
        /\ \A j, k \in DOMAIN u : j # k => e[u[j]].id # e[u[k]].id
    BY <2>1, <2>2
  <2> HIDE DEF e
  <2>4. h.prm = e /\ DOMAIN u = 1 .. nb
    BY <2>1 DEF e
  <2> QED  BY <2>1, <2>3, <2>4
<1>16. \A k \in 1 .. na : a.ps[k] \in X /\ h.prm[a.ps[k]] = a.g.prm[a.ps[k]]
  <2>1. \A k \in 1 .. na : a.ps[k] \in X /\ a.ps[k] \in Param /\ a.ps[k] \notin Range(b.ps)
    BY <1>5, <1>8, <1>13 DEF Range
  <2> QED  BY <1>6, <1>7, <1>11, <2>1 DEF Fresh
<1>17. \A k \in 1 .. na : /\ h.prm[a.ps[k]].id \in is \cap Octets /\ h.prm[a.ps[k]].linked = <<>>
                          /\ \A j \in 1 .. na : j # k => h.prm[a.ps[j]].id # h.prm[a.ps[k]].id
  <2>1. \A k \in 1 .. na : /\ a.g.prm[a.ps[k]].id \in is \cap Octets /\ a.g.prm[a.ps[k]].linked = <<>>
                            /\ \A j \in 1 .. na : j # k => a.g.prm[a.ps[j]].id # a.g.prm[a.ps[k]].id
    BY <1>1, <1>3, <1>13 DEF Fresh
  <2> DEFINE e == a.ps
  <2>2. \A k \in 1 .. na : h.prm[e[k]] = a.g.prm[e[k]]
    BY <1>16
  <2>3. \A k \in 1 .. na : /\ a.g.prm[e[k]].id \in is \cap Octets /\ a.g.prm[e[k]].linked = <<>>
                            /\ \A j \in 1 .. na : j # k => a.g.prm[e[j]].id # a.g.prm[e[k]].id
    BY <2>1
  <2> HIDE DEF e, na
  <2>4. \A k \in 1 .. na : /\ h.prm[e[k]].id \in is \cap Octets /\ h.prm[e[k]].linked = <<>>
                            /\ \A j \in 1 .. na : j # k => h.prm[e[j]].id # h.prm[e[k]].id
    BY <2>2, <2>3
  <2> QED  BY <2>4 DEF e
<1> HIDE DEF nb, na, X, Y
<1>18. Len(s) = nb + na /\ DOMAIN s = 1 .. nb + na
  BY <1>9 DEF nb, na
<1>19. \A k \in 1 .. nb + na : h.prm[s[k]].linked = <<>> /\ h.prm[s[k]].id \in Id
  BY <1>14, <1>15, <1>17
<1>20. \A k, j \in 1 .. nb + na : k # j => h.prm[s[k]].id # h.prm[s[j]].id
  <2> SUFFICES ASSUME NEW k \in 1 .. nb + na, NEW j \in 1 .. nb + na, k # j
               PROVE  h.prm[s[k]].id # h.prm[s[j]].id
    OBVIOUS
  <2>1. CASE k \in 1 .. nb /\ j \in 1 .. nb
    BY <1>14, <1>15, <2>1
  <2>2. CASE k \notin 1 .. nb /\ j \notin 1 .. nb
    <3>1. k - nb \in 1 .. na /\ s[k] = a.ps[k - nb] /\ j - nb \in 1 .. na /\ s[j] = a.ps[j - nb]
      BY <1>14, <2>2
    <3>2. k - nb # j - nb
      BY <1>13
    <3> QED  BY <1>17, <3>1, <3>2
  <2>3. CASE k \in 1 .. nb /\ j \notin 1 .. nb
    <3>1. s[k] = b.ps[k] /\ j - nb \in 1 .. na /\ s[j] = a.ps[j - nb]
      BY <1>14, <2>3
    <3> QED  BY <1>15, <1>17, <2>3, <3>1
  <2>4. CASE k \notin 1 .. nb /\ j \in 1 .. nb
    <3>1. s[j] = b.ps[j] /\ k - nb \in 1 .. na /\ s[k] = a.ps[k - nb]
      BY <1>14, <2>4
    <3> QED  BY <1>15, <1>17, <2>4, <3>1
  <2> QED  BY <2>1, <2>2, <2>3, <2>4
<1>21. ord \in Seq(Id) /\ Len(ord) = nb + na /\ DOMAIN ord = 1 .. nb + na
       /\ \A k \in 1 .. nb + na : ord[k] = h.prm[s[k]].id
  <2>1. ord \in [1 .. nb + na -> Id] /\ nb + na \in Nat
    BY <1>13, <1>19
  <2> QED  BY <2>1
<1> HIDE DEF ord
<1>22. IsInjective(ord)
  BY <1>20, <1>21 DEF IsInjective
<1>23. Loaded(h, m, ord)
  BY <1>11, <1>18, <1>21, <1>22 DEF Loaded
<1>24. Values(h, m) = Range(ord)
  <2>1. Values(h, m) = {h.prm[p].id : p \in Range(s)}
    BY <1>11 DEF Values
  <2> QED  BY <1>18, <1>21, <2>1 DEF Range
<1> QED  BY <1>11, <1>12, <1>18, <1>19, <1>23, <1>24

-----------------------------------------------------------------------------
(* opened, *)

(* The extra buffers of a fragmented parameter. *)
Linked(g, p, s) == [g EXCEPT !.prm[p].linked = s, !.prm[p].findex = 0]

(* They are with the parameter, hence with its message. *)
LEMMA LinkedIs ==
    ASSUME NEW g, NEW X, Own(g, X), NEW m \in Msg, g.msgs[m] = 0,
           NEW p \in Range(g.msg[m].tlvs), g.prm[p].linked = <<>>,
           NEW s \in Seq(Param), IsInjective(s), Range(s) = X,
           NEW h, h = Linked(g, p, s)
    PROVE  /\ Own(h, {}) /\ Kept(g, h, m) /\ h.msgs = g.msgs /\ h.msg = g.msg
           /\ \A x \in Param \ {p} : h.prm[x] = g.prm[x]
           /\ h.prm[p].id = g.prm[p].id /\ h.prm[p].findex = 0
<1>0. g \in Manager
  BY DEF Own
<1>1. p \in Param /\ p \in Tops(g, m) /\ Tops(g, m) \in SUBSET Param
  BY <1>0, ManagerIs DEF Tops
<1>2. g.prm \in [Param -> Object] /\ g.prm[p] \in Object
  BY <1>0, <1>1, ManagerIs
<1> DEFINE z == [g.prm[p] EXCEPT !.linked = s, !.findex = 0]
<1>3. z \in Object /\ z.linked = s /\ z.findex = 0 /\ z.id = g.prm[p].id
  <2> DEFINE y == g.prm[p]
  <2>1. y \in Object /\ z = [y EXCEPT !.linked = s, !.findex = 0]
    BY <1>2
  <2> HIDE DEF y, z
  <2>2. z \in Object /\ z.linked = s /\ z.findex = 0 /\ z.id = y.id
    BY <2>1 DEF Object
  <2> QED  BY <2>2 DEF y
<1>4. /\ h.msgs = g.msgs /\ h.free = g.free /\ h.msg = g.msg /\ h.prm = [g.prm EXCEPT ![p] = z]
      /\ h = [msgs |-> h.msgs, free |-> h.free, prm |-> h.prm, msg |-> h.msg]
  BY <1>0, <1>2 DEF Manager, Linked
<1> HIDE DEF z
<1>5. h.prm[p] = z /\ \A x \in Param \ {p} : h.prm[x] = g.prm[x]
  BY <1>1, <1>2, <1>4
<1>6. h \in Manager
  <2>1. h.prm \in [Param -> Object]
    BY <1>2, <1>3, <1>4
  <2> QED  BY <1>0, <1>4, <2>1, ManagerIs DEF Manager
<1>7. /\ Proper(g, m) /\ Pile(g, m) \in SUBSET Param /\ Tops(g, m) \in SUBSET Pile(g, m)
      /\ Pile(g, m) \cap X = {} /\ X \in SUBSET Param
  BY <1>0, PileIs DEF Own
<1>8. p \in Pile(g, m) /\ p \notin X
  BY <1>1, <1>7
<1>9. Kept(g, h, m)
  <2> SUFFICES ASSUME NEW o \in Msg \ {m}, NEW x \in Pile(g, o) PROVE h.prm[x] = g.prm[x]
    BY <1>4 DEF Kept
  <2>1. x \in Param /\ x # p
    <3>1. Pile(g, o) \in SUBSET Param /\ Pile(g, o) \cap Pile(g, m) = {}
      BY <1>0, PileIs DEF Own
    <3> QED  BY <1>8, <3>1
  <2> QED  BY <1>5, <2>1
<1>10. Tops(h, m) = Tops(g, m)
  BY <1>4 DEF Tops
<1>11. Cluster(g, p) = {p} /\ Cluster(h, p) = {p} \cup X
  <2>1. Range(<<>>) = {}
    BY DEF Range
  <2> QED  BY <1>3, <1>5, <2>1 DEF Cluster
<1>12. \A x \in Tops(g, m) \ {p} : Cluster(h, x) = Cluster(g, x)
  BY <1>1, <1>5 DEF Cluster
<1>13. \A x \in Tops(g, m) : Cluster(g, x) \in SUBSET Pile(g, m)
  BY DEF Pile, HeldBy
<1>14. Pile(h, m) = Pile(g, m) \cup X
  <2>1. HeldBy(h, m) = Pile(h, m) /\ HeldBy(g, m) = Pile(g, m)
    BY <1>4 DEF Pile
  <2>2. ASSUME NEW x \in HeldBy(h, m) PROVE x \in Pile(g, m) \cup X
    <3>1. PICK y \in Tops(g, m) : x \in Cluster(h, y)
      BY <1>10, <2>2 DEF HeldBy
    <3> QED  BY <1>8, <1>11, <1>12, <1>13, <3>1
  <2>3. ASSUME NEW x \in Pile(g, m) PROVE x \in HeldBy(h, m)
    <3>1. PICK y \in Tops(g, m) : x \in Cluster(g, y)
      BY <2>1, <2>3 DEF HeldBy
    <3>2. x \in Cluster(h, y)
      BY <1>11, <1>12, <3>1
    <3> QED  BY <1>10, <3>1, <3>2 DEF HeldBy
  <2>4. ASSUME NEW x \in X PROVE x \in HeldBy(h, m)
    <3>1. x \in Cluster(h, p)
      BY <1>11, <2>4
    <3> QED  BY <1>1, <1>10, <3>1 DEF HeldBy
  <2> QED  BY <2>1, <2>2, <2>3, <2>4
<1>15. Proper(h, m)
  <2>1. IsInjective(h.msg[m].tlvs) /\ h.msg[m].frag \notin Range(h.msg[m].tlvs)
    BY <1>4, <1>7 DEF Proper
  <2>2. \A x \in Tops(h, m) : IsInjective(h.prm[x].linked) /\ x \notin Range(h.prm[x].linked)
    <3>1. \A x \in Tops(g, m) \ {p} : IsInjective(h.prm[x].linked) /\ x \notin Range(h.prm[x].linked)
      BY <1>1, <1>5, <1>7 DEF Proper
    <3>2. IsInjective(h.prm[p].linked) /\ p \notin Range(h.prm[p].linked)
      BY <1>3, <1>5, <1>8
    <3> QED  BY <1>10, <3>1, <3>2
  <2>3. \A x, y \in Tops(h, m) : x # y => Cluster(h, x) \cap Cluster(h, y) = {}
    <3>1. \A x, y \in Tops(g, m) : x # y => Cluster(g, x) \cap Cluster(g, y) = {}
      BY <1>7 DEF Proper
    <3>2. \A x, y \in Tops(g, m) \ {p} : x # y => Cluster(h, x) \cap Cluster(h, y) = {}
      BY <1>12, <3>1
    <3>3. \A x \in Tops(g, m) \ {p} : Cluster(h, x) \cap Cluster(h, p) = {}
      BY <1>1, <1>7, <1>11, <1>12, <1>13, <3>1
    <3> QED  BY <1>10, <3>2, <3>3
  <2>4. h.msg[m].frag # NoParam => h.prm[h.msg[m].frag].linked = <<>>
    <3>1. h.msg[m].frag # p /\ h.msg[m].frag \in Param \cup {NoParam}
      BY <1>4, <1>6, <2>1, ManagerIs
    <3> QED  BY <1>4, <1>5, <1>7, <3>1 DEF Proper
  <2> QED  BY <2>1, <2>2, <2>3, <2>4 DEF Proper
<1>16. Mine(g, m) \in SUBSET Param /\ X \in SUBSET Mine(g, m) /\ Pile(g, m) \in SUBSET Mine(g, m)
  BY <1>7 DEF Own, Mine
<1>17. \A x \in Mine(g, m) : h.free[x] = 0 <=> x \in Pile(h, m)
  <2>1. \A x \in Mine(g, m) : g.free[x] = 0 <=> x \in X \/ x \in Pile(g, m)
    BY DEF Own, Mine
  <2> QED  BY <1>4, <1>14, <2>1
<1>18. \A x \in Mine(g, m) : h.free[x] = 1 => h.prm[x].linked = <<>>
  <2> SUFFICES ASSUME NEW x \in Mine(g, m), h.free[x] = 1 PROVE h.prm[x].linked = <<>>
    OBVIOUS
  <2>1. x # p
    BY <1>8, <1>14, <1>16, <1>17
  <2> QED  BY <1>4, <1>5, <1>16, <2>1 DEF Own
<1>19. Again(g, h, m, {})
  <2> DEFINE Y == {}
  <2>1. /\ Y \in SUBSET Mine(g, m) /\ Pile(h, m) \cap Y = {}
        /\ \A x \in Mine(g, m) : h.free[x] = 0 <=> x \in Y \/ x \in Pile(h, m)
        /\ \A x \in Mine(g, m) : h.free[x] = 1 \/ x \in Y => h.prm[x].linked = <<>>
    BY <1>17, <1>18
  <2>2. Pile(h, m) \in SUBSET Mine(g, m) /\ \A x \in Param : x \notin Mine(g, m) => h.free[x] = g.free[x]
    BY <1>4, <1>14, <1>16
  <2>3. h.msgs[m] = 0
    BY <1>4
  <2> HIDE DEF Y
  <2>4. Again(g, h, m, Y)
    BY <1>9, <1>15, <2>1, <2>2, <2>3 DEF Again
  <2> QED  BY <2>4 DEF Y
<1>20. Own(h, {})
  BY <1>6, <1>19, OwnAgain
<1> QED  BY <1>3, <1>4, <1>5, <1>9, <1>20

(* send() gives one parameter its buffers. *)
LEMMA LinkIs ==
    ASSUME NEW g, Own(g, {}), NEW m \in Msg, g.msgs[m] = 0,
           NEW p \in Range(g.msg[m].tlvs), g.prm[p].linked = <<>>, g.prm[p].id \in Id,
           NEW h, h = Link(g, p)
    PROVE  /\ Own(h, {}) /\ Kept(g, h, m) /\ h.msgs = g.msgs /\ h.msg = g.msg
           /\ \A x \in Range(g.msg[m].tlvs) \ {p} : h.prm[x] = g.prm[x]
           /\ h.prm[p].id = g.prm[p].id /\ (Fragmented(g.prm[p].id) => h.prm[p].findex = 0)
<1>0. g \in Manager
  BY DEF Own
<1>1. CASE ~ Fragmented(g.prm[p].id)
  <2>1. h = g
    BY <1>1 DEF Link
  <2> QED  BY <1>1, <2>1 DEF Kept
<1>2. CASE Fragmented(g.prm[p].id)
  <2> DEFINE i == g.prm[p].id  q == [k \in 1 .. Links |-> i]  a == NewParams(g, q)
             u == a.g  X == Range(a.ps)
  <2>1. h = Linked(u, p, a.ps)
    BY Zenon, <1>2 DEF Link, Linked
  <2>2. q \in Seq(Id)
    <3>1. Links \in Nat
      BY DEF Links
    <3> QED  BY <3>1
  <2> HIDE DEF q
  <2>3. Fresh(g, {}, a.g, a.ps, q)
    BY <2>2, NewParamsIs
  <2> HIDE DEF a
  <2>4. {} \cup X = X
    OBVIOUS
  <2>5. /\ Own(u, X) /\ u.msgs = g.msgs /\ u.msg = g.msg /\ Kept(g, u, m)
        /\ a.ps \in Seq(Param) /\ IsInjective(a.ps)
        /\ \A x \in Range(a.ps) : g.free[x] = 1
        /\ \A x \in Param : x \notin Range(a.ps) => u.prm[x] = g.prm[x]
    BY <2>3, <2>4 DEF Fresh
  <2>6. \A x \in Range(g.msg[m].tlvs) : x \in Param /\ x \notin Range(a.ps)
    <3>1. \A x \in Range(g.msg[m].tlvs) : x \in Tops(g, m) /\ x \in Pile(g, m) /\ x \in Param
      BY <1>0, PileIs, ManagerIs DEF Tops
    <3>2. \A x \in Range(g.msg[m].tlvs) : g.free[x] = 0
      BY <3>1 DEF Own
    <3> QED  BY <2>5, <3>1, <3>2
  <2>7. \A x \in Range(g.msg[m].tlvs) : u.prm[x] = g.prm[x]
    BY <2>5, <2>6
  <2>8. u.msgs[m] = 0 /\ p \in Range(u.msg[m].tlvs) /\ u.prm[p].linked = <<>>
    BY <2>5, <2>7
  <2>x. Range(a.ps) = X
    OBVIOUS
  <2> HIDE DEF X, u
  <2>9. /\ Own(h, {}) /\ Kept(u, h, m) /\ h.msgs = u.msgs /\ h.msg = u.msg
        /\ \A x \in Param \ {p} : h.prm[x] = u.prm[x]
        /\ h.prm[p].id = u.prm[p].id /\ h.prm[p].findex = 0
    BY <2>1, <2>5, <2>8, <2>x, LinkedIs
  <2>10. Kept(g, h, m)
    BY <1>0, <2>5, <2>9, KeptTrans
  <2> QED  BY Zenon, <2>5, <2>6, <2>7, <2>9, <2>10
<1> QED  BY <1>1, <1>2

(* send() before the first packet *)
Opened(g, m, c) == [g EXCEPT !.msg[m].pos = 0, !.msg[m].pindex = 0, !.msg[m].pc = c]

(* The counters of the message are all that changes. *)
LEMMA OpenedIs ==
    ASSUME NEW g, Own(g, {}), NEW m \in Msg, NEW c \in Nat, NEW h, h = Opened(g, m, c)
    PROVE  /\ Own(h, {}) /\ Kept(g, h, m) /\ h.msgs = g.msgs /\ h.prm = g.prm
           /\ h.msg[m].tlvs = g.msg[m].tlvs /\ h.msg[m].frag = g.msg[m].frag
           /\ h.msg[m].pos = 0 /\ h.msg[m].pindex = 0 /\ h.msg[m].pc = c
<1>0. g \in Manager
  BY DEF Own
<1>1. g.msg \in [Msg -> Envelope] /\ g.msg[m] \in Envelope
  BY <1>0, ManagerIs
<1> DEFINE z == [g.msg[m] EXCEPT !.pos = 0, !.pindex = 0, !.pc = c]
<1>2. z \in Envelope /\ z.tlvs = g.msg[m].tlvs /\ z.frag = g.msg[m].frag
      /\ z.pos = 0 /\ z.pindex = 0 /\ z.pc = c
  <2> DEFINE y == g.msg[m]
  <2>1. y \in Envelope /\ z = [y EXCEPT !.pos = 0, !.pindex = 0, !.pc = c]
    BY <1>1
  <2> HIDE DEF y, z
  <2>2. z \in Envelope /\ z.tlvs = y.tlvs /\ z.frag = y.frag /\ z.pos = 0 /\ z.pindex = 0 /\ z.pc = c
    BY <2>1 DEF Envelope
  <2> QED  BY <2>2 DEF y
<1>3. /\ h.msgs = g.msgs /\ h.free = g.free /\ h.prm = g.prm /\ h.msg = [g.msg EXCEPT ![m] = z]
      /\ h = [msgs |-> h.msgs, free |-> h.free, prm |-> h.prm, msg |-> h.msg]
  BY <1>0, <1>1 DEF Manager, Opened
<1> HIDE DEF z
<1>4. h.msg[m] = z /\ \A o \in Msg \ {m} : h.msg[o] = g.msg[o]
  BY <1>1, <1>3
<1>5. h \in Manager
  <2>1. h.msg \in [Msg -> Envelope]
    BY <1>1, <1>2, <1>3
  <2> QED  BY <1>0, <1>3, <2>1, ManagerIs DEF Manager
<1>6. \A o \in Msg : h.msg[o].tlvs = g.msg[o].tlvs /\ h.msg[o].frag = g.msg[o].frag
  BY <1>2, <1>4
<1>7. Own(h, {})
  BY <1>3, <1>5, <1>6, OwnSame
<1>8. Kept(g, h, m)
  BY <1>3, <1>4 DEF Kept
<1> QED  BY <1>2, <1>3, <1>4, <1>7, <1>8

(* Every fragment of a value but the last is full, and none is empty. *)
LEMMA FragmentsIs ==
    ASSUME NEW i \in Id
    PROVE  /\ Fragments(i) \in Nat \ {0} /\ Size[i] \in Nat \ {0}
           /\ DATA_SZ * (Fragments(i) - 1) < Size[i] /\ Size[i] <= DATA_SZ * Fragments(i)
           /\ Fragmented(i) <=> Fragments(i) # 1
<1>1. Size[i] \in Nat \ {0}
  BY ConstantsAssumption
<1> DEFINE z == Size[i]
<1> HIDE DEF z
<1>2. CASE Fragmented(i)
  <2>1. z \in Nat /\ z > 256
    BY <1>1, <1>2 DEF z, Fragmented, DATA_SZ
  <2>2. Fragments(i) = z \div 256 + IF z % 256 > 0 THEN 1 ELSE 0
    BY <1>2 DEF z, Fragments, DATA_SZ
  <2>3. z \div 256 \in Nat /\ z % 256 \in 0 .. 255 /\ z = 256 * (z \div 256) + (z % 256)
    BY <2>1
  <2> DEFINE d == z \div 256  e == z % 256
  <2>4. d \in Nat /\ e \in 0 .. 255 /\ z = 256 * d + e /\ Fragments(i) = d + IF e > 0 THEN 1 ELSE 0
    BY <2>2, <2>3
  <2> HIDE DEF d, e
  <2>5. CASE e > 0
    BY <1>2, <2>1, <2>4, <2>5 DEF z, DATA_SZ
  <2>6. CASE e = 0
    BY <1>2, <2>1, <2>4, <2>6 DEF z, DATA_SZ
  <2> QED  BY <2>4, <2>5, <2>6
<1>3. CASE ~ Fragmented(i)
  BY <1>1, <1>3 DEF Fragmented, Fragments, DATA_SZ
<1> QED  BY <1>2, <1>3

(* A place in a message: the values before it, the pieces of the next one. *)
Places(ord) == {x \in Nat \X Nat : IF x[1] = Len(ord) THEN x[2] = 0
                                   ELSE x[1] < Len(ord) /\ x[2] < Fragments(ord[x[1] + 1])}
Ends(ord, x) == x[1] = Len(ord)
After(ord, x) == IF x[2] + 1 < Fragments(ord[x[1] + 1]) THEN <<x[1], x[2] + 1>> ELSE <<x[1] + 1, 0>>

(* The pieces in front of each value. *)
IsOffset(off, ord) ==
    off[0] = 0 /\ \A k \in 0 .. Len(ord) - 1 : off[k + 1] = off[k] + Fragments(ord[k + 1])

(* The pieces in front of a place, and of the end, which has the most. *)
LEMMA OffsetIs ==
    ASSUME NEW ord \in Seq(Id), NEW off, IsOffset(off, ord)
    PROVE  /\ \A k \in 0 .. Len(ord) : off[k] \in Nat
           /\ \A x \in Places(ord) :
                /\ off[x[1]] + x[2] \in Nat
                /\ Ends(ord, x) => off[x[1]] + x[2] = off[Len(ord)]
                /\ ~ Ends(ord, x) => off[x[1]] + x[2] < off[Len(ord)]
<1> DEFINE n == Len(ord)
           T == {k \in 0 .. n : off[k] \in Nat /\ \A j \in 0 .. k : off[j] \in Nat /\ off[j] <= off[k]}
<1>0. n \in Nat /\ \A k \in 0 .. n - 1 : ord[k + 1] \in Id
  OBVIOUS
<1>1. 0 \in T
  <2>1. off[0] = 0 /\ \A j \in 0 .. 0 : j = 0
    BY DEF IsOffset
  <2> QED  BY <1>0, <2>1
<1>2. ASSUME NEW k \in 0 .. n - 1, k \in T PROVE k + 1 \in T
  <2>1. off[k + 1] = off[k] + Fragments(ord[k + 1])
    BY DEF IsOffset
  <2>2. Fragments(ord[k + 1]) \in Nat
    BY <1>0, FragmentsIs
  <2>3. off[k] \in Nat /\ \A j \in 0 .. k : off[j] \in Nat /\ off[j] <= off[k]
    BY <1>2
  <2>4. k + 1 \in 0 .. n /\ \A j : j \in 0 .. k + 1 <=> j \in 0 .. k \/ j = k + 1
    BY <1>0
  <2> QED  BY <2>1, <2>2, <2>3, <2>4
<1>3. \A k \in 0 .. n : k \in T
  <2> HIDE DEF T
  <2> QED  BY <1>0, <1>1, <1>2, AllUpTo
<1>4. off[n] \in Nat /\ \A k \in 0 .. n : off[k] \in Nat /\ off[k] <= off[n]
  BY <1>0, <1>3
<1>5. ASSUME NEW x \in Places(ord)
      PROVE  /\ off[x[1]] + x[2] \in Nat
             /\ Ends(ord, x) => off[x[1]] + x[2] = off[n]
             /\ ~ Ends(ord, x) => off[x[1]] + x[2] < off[n]
  <2>1. x[1] \in Nat /\ x[2] \in Nat
    BY DEF Places
  <2>2. CASE x[1] = n
    BY <1>0, <1>4, <2>1, <2>2 DEF Places, Ends
  <2>3. CASE x[1] # n
    <3>1. x[1] < n /\ x[2] < Fragments(ord[x[1] + 1])
      BY <2>3 DEF Places
    <3>2. x[1] \in 0 .. n - 1 /\ x[1] + 1 \in 0 .. n /\ x[1] \in 0 .. n
      BY <1>0, <2>1, <3>1
    <3>3. off[x[1] + 1] = off[x[1]] + Fragments(ord[x[1] + 1])
      BY <3>2 DEF IsOffset
    <3>4. Fragments(ord[x[1] + 1]) \in Nat
      BY <1>0, <3>2, FragmentsIs
    <3>5. off[x[1]] \in Nat /\ off[x[1] + 1] <= off[n] /\ off[x[1] + 1] \in Nat
      BY <1>4, <3>2
    <3>6. ~ Ends(ord, x)
      BY <2>3 DEF Ends
    <3> HIDE DEF n
    <3> QED  BY <1>4, <2>1, <3>1, <3>3, <3>4, <3>5, <3>6
  <2> QED  BY <2>2, <2>3
<1> QED  BY <1>4, <1>5

(* The place after a place is a place, one piece on. *)
LEMMA AfterIs ==
    ASSUME NEW ord \in Seq(Id), NEW x \in Places(ord), ~ Ends(ord, x)
    PROVE  /\ After(ord, x) \in Places(ord)
           /\ \A off : IsOffset(off, ord) =>
                off[After(ord, x)[1]] + After(ord, x)[2] = off[x[1]] + x[2] + 1
<1>1. /\ x[1] \in Nat /\ x[2] \in Nat /\ x[1] < Len(ord) /\ x[2] < Fragments(ord[x[1] + 1])
      /\ Len(ord) \in Nat
  BY DEF Places, Ends
<1>2. ord[x[1] + 1] \in Id
  BY <1>1
<1> DEFINE F == Fragments(ord[x[1] + 1])  n == Len(ord)
<1>3. F \in Nat \ {0}
  BY <1>2, FragmentsIs
<1>4. CASE x[2] + 1 < F
  <2>1. After(ord, x) = <<x[1], x[2] + 1>>
    BY <1>4 DEF After
  <2>2. x[1] # n /\ x[2] + 1 \in Nat
    BY <1>1
  <2>3. <<x[1], x[2] + 1>> \in Places(ord)
    BY <1>1, <1>4, <2>2 DEF Places
  <2>4. ASSUME NEW off, IsOffset(off, ord) PROVE off[x[1]] + (x[2] + 1) = off[x[1]] + x[2] + 1
    <3>1. off[x[1]] \in Nat
      BY <1>1, <2>4, OffsetIs
    <3> QED  BY <1>1, <3>1
  <2> QED  BY <2>1, <2>3, <2>4
<1>5. CASE ~ (x[2] + 1 < F)
  <2>1. After(ord, x) = <<x[1] + 1, 0>>
    BY <1>5 DEF After
  <2>2. x[2] + 1 = F
    BY <1>1, <1>3, <1>5
  <2>3. <<x[1] + 1, 0>> \in Places(ord)
    <3>1. x[1] + 1 \in Nat /\ 0 \in Nat /\ x[1] + 1 <= n
      BY <1>1
    <3>2. CASE x[1] + 1 = n
      BY <3>1, <3>2 DEF Places
    <3>3. CASE x[1] + 1 # n
      <4>1. x[1] + 1 < n /\ ord[x[1] + 1 + 1] \in Id
        BY <1>1, <3>1, <3>3
      <4>2. Fragments(ord[x[1] + 1 + 1]) \in Nat \ {0}
        BY <4>1, FragmentsIs
      <4>3. 0 < Fragments(ord[x[1] + 1 + 1])
        BY <4>2
      <4> QED  BY <3>1, <3>3, <4>1, <4>3 DEF Places
    <3> QED  BY <3>2, <3>3
  <2>4. ASSUME NEW off, IsOffset(off, ord) PROVE off[x[1] + 1] + 0 = off[x[1]] + x[2] + 1
    <3>1. off[x[1]] \in Nat
      BY <1>1, <2>4, OffsetIs
    <3>2. x[1] \in 0 .. Len(ord) - 1
      BY <1>1
    <3>3. off[x[1] + 1] = off[x[1]] + F
      BY <2>4, <3>2 DEF IsOffset
    <3> HIDE DEF F
    <3> QED  BY <1>1, <1>3, <2>2, <3>1, <3>3
  <2> QED  BY <2>1, <2>3, <2>4
<1> QED  BY <1>4, <1>5

(* The sender of a message has come to place x. *)
Sends(g, m, ord, x) ==
    /\ Loaded(g, m, ord) /\ x \in Places(ord)
    /\ g.msg[m].pos = x[1]
    /\ \A k \in 1 .. Len(ord) : k > x[1] /\ Fragmented(ord[k]) =>
          g.prm[g.msg[m].tlvs[k]].findex = IF k = x[1] + 1 THEN x[2] ELSE 0
    /\ \E off : /\ IsOffset(off, ord) /\ g.msg[m].pindex = off[x[1]] + x[2]
                /\ g.msg[m].pc = off[Len(ord)]

(* After Open() the sender is at the first place. *)
LEMMA OpenIs ==
    ASSUME NEW g, Own(g, {}), NEW m \in Msg, NEW ord, Loaded(g, m, ord),
           \A k \in DOMAIN g.msg[m].tlvs : g.prm[g.msg[m].tlvs[k]].linked = <<>>,
           NEW h, h = Open(g, m)
    PROVE  Own(h, {}) /\ Kept(g, h, m) /\ h.msgs = g.msgs /\ Sends(h, m, ord, <<0, 0>>)
<1> DEFINE q == g.msg[m].tlvs  n == Len(q)  u == FoldLeft(Link, g, q)  c == CountOf(g, q)
<1>0. g \in Manager
  BY DEF Own
<1>1. q \in Seq(Param) /\ n \in Nat /\ DOMAIN q = 1 .. n /\ IsInjective(q)
  BY <1>0, ManagerIs DEF Own, Proper, Loaded
<1>2. /\ ord \in Seq(Id) /\ Len(ord) = n /\ g.msgs[m] = 0
      /\ \A k \in 1 .. n : g.prm[q[k]].id = ord[k] /\ ord[k] \in Id
  BY DEF Loaded
<1>3. h = Opened(u, m, c)
  BY DEF Open, Opened, CountOf
<1>4. PICK r : IsRun(r, "link", g, n, q, g) /\ u = r[n]
  <2> HIDE DEF q, n
  <2> QED  BY <1>1, LinkRun
<1>5. PICK off : IsRun(off, "count", g, n, q, 0) /\ c = off[n]
  <2> HIDE DEF q, n
  <2> QED  BY <1>1, CountRun
<1>6. IsOffset(off, ord)
  <2>1. ASSUME NEW k \in 0 .. n - 1 PROVE off[k + 1] = off[k] + Fragments(ord[k + 1])
    <3>1. off[k + 1] = off[k] + Fragments(g.prm[q[k + 1]].id)
      BY <1>5 DEF IsRun, Does
    <3>2. k + 1 \in 1 .. n
      BY <1>1
    <3> QED  BY <1>2, <3>1, <3>2
  <2>2. off[0] = 0
    BY <1>5 DEF IsRun
  <2> QED  BY <1>2, <2>1, <2>2 DEF IsOffset
<1>7. <<0, 0>> \in Places(ord)
  <2>1. CASE n = 0
    BY <1>2, <2>1 DEF Places
  <2>2. CASE n # 0
    <3>1. 1 \in 1 .. n /\ 0 < n
      BY <1>1, <2>2
    <3>2. Fragments(ord[0 + 1]) \in Nat \ {0}
      BY <1>2, <3>1, FragmentsIs
    <3>3. 0 < Fragments(ord[0 + 1])
      BY <3>2
    <3> QED  BY <1>2, <2>2, <3>1, <3>3 DEF Places
  <2> QED  BY <2>1, <2>2
<1>8. c \in Nat
  <2>1. \A k \in 0 .. Len(ord) : off[k] \in Nat
    BY <1>2, <1>6, OffsetIs
  <2> QED  BY <1>1, <1>2, <1>5, <2>1
<1>d. \A k \in 1 .. n : q[k] \in Range(q) /\ q[k] \in Param /\ \A j \in 1 .. n : j # k => q[j] # q[k]
  BY <1>1 DEF Range, IsInjective
<1>q. q = g.msg[m].tlvs
  OBVIOUS
<1> DEFINE Right(k) == LET v == r[k]
                       IN /\ Own(v, {}) /\ Kept(g, v, m) /\ v.msgs = g.msgs /\ v.msg = g.msg
                          /\ \A j \in 1 .. n :
                               /\ v.prm[q[j]].id = ord[j]
                               /\ j <= k /\ Fragmented(ord[j]) => v.prm[q[j]].findex = 0
                               /\ j > k => v.prm[q[j]].linked = <<>>
           T == {k \in 0 .. n : Right(k)}
<1>9. 0 \in T
  <2>1. r[0] = g
    BY <1>4 DEF IsRun
  <2>2. Kept(g, g, m)
    BY DEF Kept
  <2>3. \A j \in 1 .. n : j > 0 /\ ~ (j <= 0) /\ g.prm[q[j]].linked = <<>>
    BY <1>1
  <2> HIDE DEF q, n
  <2>4. Right(0)
    BY <1>2, <2>1, <2>2, <2>3
  <2> HIDE DEF Right
  <2> QED  BY <1>1, <2>4
<1>10. ASSUME NEW k \in 0 .. n - 1, k \in T PROVE k + 1 \in T
  <2> DEFINE v == r[k]  w == r[k + 1]  p == q[k + 1]
  <2>1. k + 1 \in 1 .. n /\ k + 1 \in 0 .. n /\ p \in Range(q) /\ p \in Param
    <3>1. k + 1 \in 1 .. n /\ k + 1 \in 0 .. n
      BY <1>1
    <3> HIDE DEF q, n
    <3> QED  BY <1>d, <3>1
  <2>2. w = Link(v, p)
    BY <1>4 DEF IsRun, Does
  <2>3. /\ Own(v, {}) /\ Kept(g, v, m) /\ v.msgs = g.msgs /\ v.msg = g.msg
        /\ \A j \in 1 .. n : /\ v.prm[q[j]].id = ord[j]
                             /\ j <= k /\ Fragmented(ord[j]) => v.prm[q[j]].findex = 0
                             /\ j > k => v.prm[q[j]].linked = <<>>
    BY <1>10
  <2>4. v.prm[p].id = ord[k + 1] /\ ord[k + 1] \in Id /\ v.prm[p].linked = <<>>
    <3>1. k + 1 > k
      BY <1>1
    <3> HIDE DEF q, n
    <3> QED  BY <1>2, <2>1, <2>3, <3>1
  <2>5. v.msgs[m] = 0 /\ p \in Range(v.msg[m].tlvs) /\ v.msg[m].tlvs = q /\ v.prm[p].id \in Id
    BY Zenon, <1>2, <2>1, <2>3, <2>4
  <2> HIDE DEF q, n, v, w, p, Right
  <2>6. /\ Own(w, {}) /\ Kept(v, w, m) /\ w.msgs = v.msgs /\ w.msg = v.msg
        /\ \A x \in Range(v.msg[m].tlvs) \ {p} : w.prm[x] = v.prm[x]
        /\ w.prm[p].id = v.prm[p].id /\ (Fragmented(v.prm[p].id) => w.prm[p].findex = 0)
    BY <2>2, <2>3, <2>4, <2>5, LinkIs
  <2>7. Kept(g, w, m)
    BY <1>0, <2>3, <2>6, KeptTrans
  <2>8. \A j \in 1 .. n : j # k + 1 => w.prm[q[j]] = v.prm[q[j]]
    <3>1. \A j \in 1 .. n : j # k + 1 => q[j] \in Range(q) \ {p}
      BY <1>d, <2>1 DEF p
    <3> QED  BY <2>5, <2>6, <3>1
  <2>9. \A j \in 1 .. n : /\ w.prm[q[j]].id = ord[j]
                          /\ j <= k + 1 /\ Fragmented(ord[j]) => w.prm[q[j]].findex = 0
                          /\ j > k + 1 => w.prm[q[j]].linked = <<>>
    <3>1. \A j \in 1 .. n : (j <= k + 1 <=> j <= k \/ j = k + 1) /\ (j > k + 1 => j > k /\ j # k + 1)
      BY <1>1
    <3>2. w.prm[q[k + 1]].id = ord[k + 1] /\ (Fragmented(ord[k + 1]) => w.prm[q[k + 1]].findex = 0)
      BY <2>4, <2>6 DEF p
    <3>3. ~ (k + 1 > k + 1)
      BY <1>1
    <3> QED  BY <2>3, <2>8, <3>1, <3>2, <3>3
  <2>10. Right(k + 1)
    BY <2>3, <2>6, <2>7, <2>9 DEF Right, w
  <2> QED  BY <2>1, <2>10
<1>11. n \in T
  <2> HIDE DEF T, n
  <2>1. \A l \in 0 .. n : l \in T
    BY <1>1, <1>9, <1>10, AllUpTo
  <2> QED  BY <1>1, <2>1
<1>12. /\ Own(u, {}) /\ Kept(g, u, m) /\ u.msgs = g.msgs /\ u.msg = g.msg
       /\ \A j \in 1 .. n : /\ u.prm[q[j]].id = ord[j]
                            /\ Fragmented(ord[j]) => u.prm[q[j]].findex = 0
  <2>1. Right(n)
    BY <1>11
  <2>2. \A j \in 1 .. n : j <= n
    BY <1>1
  <2> HIDE DEF q, n, u
  <2> QED  BY <1>4, <2>1, <2>2
<1> HIDE DEF q, u, c, n
<1>13. /\ Own(h, {}) /\ Kept(u, h, m) /\ h.msgs = u.msgs /\ h.prm = u.prm
       /\ h.msg[m].tlvs = u.msg[m].tlvs /\ h.msg[m].frag = u.msg[m].frag
       /\ h.msg[m].pos = 0 /\ h.msg[m].pindex = 0 /\ h.msg[m].pc = c
  BY <1>3, <1>8, <1>12, OpenedIs
<1>14. Kept(g, h, m)
  BY <1>0, <1>12, <1>13, KeptTrans
<1>15. Loaded(h, m, ord)
  <2>1. /\ g.msgs[m] = 0 /\ g.msg[m].frag = NoParam
        /\ ord \in Seq(Id) /\ IsInjective(ord) /\ Len(g.msg[m].tlvs) = Len(ord)
    BY DEF Loaded
  <2>2. h.msgs[m] = 0 /\ h.msg[m].frag = NoParam /\ h.msg[m].tlvs = q /\ Len(q) = Len(ord)
    BY <1>q, <1>12, <1>13, <2>1
  <2>3. \A k \in 1 .. Len(ord) : h.prm[h.msg[m].tlvs[k]].id = ord[k]
    BY <1>2, <1>12, <1>13, <2>2
  <2> QED  BY <2>1, <2>2, <2>3 DEF Loaded
<1>16. Sends(h, m, ord, <<0, 0>>)
  <2> DEFINE x == <<0, 0>>
  <2>1. x[1] = 0 /\ x[2] = 0 /\ x \in Places(ord)
    BY <1>7
  <2> HIDE DEF x
  <2>2. h.msg[m].tlvs = q /\ \A k \in 1 .. Len(ord) : Fragmented(ord[k]) => h.prm[q[k]].findex = 0
    BY <1>2, <1>12, <1>13, <1>q
  <2>3. off[0] = 0
    BY <1>6 DEF IsOffset
  <2>4. h.msg[m].pindex = off[x[1]] + x[2] /\ h.msg[m].pc = off[Len(ord)]
    BY <1>2, <1>5, <1>13, <2>1, <2>3
  <2>5. Sends(h, m, ord, x)
    BY <1>6, <1>13, <1>15, <2>1, <2>2, <2>4 DEF Sends
  <2> QED  BY <2>5 DEF x
<1> QED  BY <1>12, <1>13, <1>14, <1>16

-----------------------------------------------------------------------------
(* and cut into packets. *)

(* Piece j of a value, and as it is put in a packet. *)
LengthOf(i, j) == IF j + 1 < Fragments(i) THEN DATA_SZ ELSE Size[i] - DATA_SZ * j
Parts == [id : Id, from : Nat, len : 1 .. DATA_SZ, frag : BOOLEAN]
IsPart(ord, x, e) ==
    /\ e \in Parts
    /\ e.id = ord[x[1] + 1] /\ e.from = DATA_SZ * x[2] /\ e.len = LengthOf(ord[x[1] + 1], x[2])
    /\ e.frag <=> x[2] + 1 < Fragments(ord[x[1] + 1])

(* A packet takes the receiver from place x to place y. *)
Carries(ord, pkt, x, y) ==
    /\ pkt \in Seq(Parts) /\ x \in Places(ord) /\ y \in Places(ord)
    /\ \E w : /\ w[0] = x /\ w[Len(pkt)] = y
              /\ \A k \in 1 .. Len(pkt) : /\ w[k - 1] \in Places(ord) /\ ~ Ends(ord, w[k - 1])
                                          /\ IsPart(ord, w[k - 1], pkt[k])
                                          /\ w[k] = After(ord, w[k - 1])

(* An empty packet takes the receiver nowhere. *)
LEMMA CarriesNone ==
    ASSUME NEW ord, NEW x \in Places(ord)
    PROVE  /\ Carries(ord, <<>>, x, x)
           /\ \A y : Carries(ord, <<>>, x, y) => x = y
<1>1. Len(<<>>) = 0 /\ <<>> \in Seq(Parts) /\ 1 .. 0 = {}
  OBVIOUS
<1>2. Carries(ord, <<>>, x, x)
  <2> DEFINE w == [k \in {0} |-> x]
  <2>1. w[0] = x
    OBVIOUS
  <2> HIDE DEF w
  <2> QED  BY <1>1, <2>1 DEF Carries
<1>3. ASSUME NEW y, Carries(ord, <<>>, x, y) PROVE x = y
  BY <1>1, <1>3 DEF Carries
<1> QED  BY <1>2, <1>3

(* One more piece takes it one place further. *)
LEMMA CarriesMore ==
    ASSUME NEW ord \in Seq(Id), NEW pkt, NEW x, NEW y, Carries(ord, pkt, x, y), ~ Ends(ord, y),
           NEW e, IsPart(ord, y, e)
    PROVE  Carries(ord, Append(pkt, e), x, After(ord, y))
<1> DEFINE n == Len(pkt)  q == Append(pkt, e)  z == After(ord, y)
<1>1. pkt \in Seq(Parts) /\ x \in Places(ord) /\ y \in Places(ord) /\ n \in Nat /\ e \in Parts
  BY DEF Carries, IsPart
<1>2. PICK w : /\ w[0] = x /\ w[n] = y
               /\ \A k \in 1 .. n : /\ w[k - 1] \in Places(ord) /\ ~ Ends(ord, w[k - 1])
                                    /\ IsPart(ord, w[k - 1], pkt[k])
                                    /\ w[k] = After(ord, w[k - 1])
  BY DEF Carries
<1>3. q \in Seq(Parts) /\ Len(q) = n + 1 /\ q[n + 1] = e /\ \A k \in 1 .. n : q[k] = pkt[k]
  BY <1>1
<1> DEFINE v == [k \in 0 .. n + 1 |-> IF k = n + 1 THEN z ELSE w[k]]
<1>4. v[n + 1] = z /\ \A k \in 0 .. n : v[k] = w[k]
  BY <1>1
<1>5. z \in Places(ord)
  BY <1>1, AfterIs
<1> HIDE DEF v, q, n, z
<1>6. ASSUME NEW k \in 1 .. n + 1
      PROVE  /\ v[k - 1] \in Places(ord) /\ ~ Ends(ord, v[k - 1])
             /\ IsPart(ord, v[k - 1], q[k])
             /\ v[k] = After(ord, v[k - 1])
  <2>1. CASE k \in 1 .. n
    <3>1. k - 1 \in 0 .. n /\ k \in 0 .. n
      BY <1>1, <2>1
    <3> QED  BY <1>2, <1>3, <1>4, <2>1, <3>1
  <2>2. CASE k = n + 1
    <3>1. k - 1 = n /\ n \in 0 .. n
      BY <1>1, <2>2
    <3>2. v[k - 1] = y
      BY <1>2, <1>4, <3>1
    <3> QED  BY <1>1, <1>3, <1>4, <2>2, <3>2 DEF z
  <2> QED  BY <1>1, <2>1, <2>2
<1>7. v[0] = x /\ v[Len(q)] = z
  <2>1. 0 \in 0 .. n
    BY <1>1
  <2> QED  BY <1>2, <1>3, <1>4, <2>1
<1>8. Carries(ord, q, x, z)
  BY <1>1, <1>3, <1>5, <1>6, <1>7 DEF Carries
<1> QED  BY <1>8 DEF q, z

(* The size grows by the piece that is added. *)
LEMMA SizeMore ==
    ASSUME NEW q \in Seq(Parts)
    PROVE  /\ SizeOf(<<>>) = 0 /\ SizeOf(q) \in Nat
           /\ \A e \in Parts : SizeOf(Append(q, e)) = SizeOf(q) + e.len + Overhead
<1> DEFINE n == Len(q)
<1>0. n \in Nat /\ DOMAIN q = 1 .. n /\ \A k \in 1 .. n : q[k] \in Parts
  OBVIOUS
<1>o. Overhead \in Nat /\ \A e \in Parts : e.len \in Nat
  <2>1. ASSUME NEW e \in Parts PROVE e.len \in Nat
    <3>1. e.len \in 1 .. DATA_SZ
      BY DEF Parts
    <3> QED  BY <3>1
  <2>2. Overhead \in Nat
    BY DEF Overhead
  <2> QED  BY <2>1, <2>2
<1>1. SizeOf(<<>>) = 0
  <2>1. DOMAIN <<>> = 1 .. 0 /\ 0 \in Nat
    OBVIOUS
  <2> DEFINE o == <<>>
  <2>2. DOMAIN o = 1 .. 0
    BY <2>1
  <2> HIDE DEF o
  <2>3. PICK r : IsRun(r, "size", 0, 0, o, 0) /\ SizeOf(o) = r[0]
    BY <2>1, <2>2, SizeRun
  <2> QED  BY <2>3 DEF IsRun, o
<1>2. PICK r : IsRun(r, "size", 0, n, q, 0) /\ SizeOf(q) = r[n]
  <2> HIDE DEF n
  <2> QED  BY <1>0, SizeRun
<1> HIDE DEF n
<1>3. r[n] \in Nat
  <2> DEFINE T == {k \in 0 .. n : r[k] \in Nat}
  <2>1. 0 \in T
    BY <1>0, <1>2 DEF IsRun
  <2>2. ASSUME NEW k \in 0 .. n - 1, k \in T PROVE k + 1 \in T
    <3>1. r[k + 1] = r[k] + q[k + 1].len + Overhead
      BY <1>2 DEF IsRun, Does
    <3>2. k + 1 \in 1 .. n /\ k + 1 \in 0 .. n
      BY <1>0
    <3>3. q[k + 1].len \in Nat /\ r[k] \in Nat
      BY <1>0, <1>o, <2>2, <3>2
    <3> QED  BY <1>o, <3>1, <3>2, <3>3
  <2> HIDE DEF T
  <2>3. \A k \in 0 .. n : k \in T
    BY <1>0, <2>1, <2>2, AllUpTo
  <2> QED  BY <1>0, <2>3 DEF T
<1>4. ASSUME NEW e \in Parts PROVE SizeOf(Append(q, e)) = SizeOf(q) + e.len + Overhead
  <2> DEFINE z == Append(q, e)
  <2>1. n + 1 \in Nat /\ DOMAIN z = 1 .. n + 1 /\ z[n + 1] = e /\ \A k \in 1 .. n : z[k] = q[k]
    BY DEF n
  <2> HIDE DEF z
  <2>2. PICK s : IsRun(s, "size", 0, n + 1, z, 0) /\ SizeOf(z) = s[n + 1]
    BY <2>1, SizeRun
  <2>3. IsRun(s, "size", 0, n, z, 0)
    <3>1. \A k \in 0 .. n - 1 : k \in 0 .. (n + 1) - 1
      BY <1>0
    <3>2. s[0] = 0 /\ \A j \in 0 .. (n + 1) - 1 : s[j + 1] = Does("size", 0, s[j], z[j + 1])
      BY <2>2 DEF IsRun
    <3>3. s[0] = 0 /\ \A j \in 0 .. n - 1 : s[j + 1] = Does("size", 0, s[j], z[j + 1])
      BY <3>1, <3>2
    <3> QED  BY <3>3 DEF IsRun
  <2>4. \A k \in 0 .. n : s[k] = r[k]
    <3>1. \A k \in 1 .. n : z[k] = q[k]
      BY <2>1
    <3>2. IsRun(r, "size", 0, n, q, 0) /\ n \in Nat
      BY <1>0, <1>2
    <3>3. \A j \in 1 .. n : q[j] = z[j]
      BY <3>1
    <3> DEFINE o == 0  size == "size"
    <3>4. IsRun(r, size, o, n, q, o) /\ IsRun(s, size, o, n, z, o) /\ n \in Nat
      BY <2>3, <3>2
    <3> HIDE DEF o, size
    <3>5. \A j \in 0 .. n : r[j] = s[j]
      BY <3>3, <3>4, RunsAgree
    <3> QED  BY <3>5
  <2>5. s[n + 1] = s[n] + z[n + 1].len + Overhead
    <3>1. n \in 0 .. (n + 1) - 1
      BY <1>0
    <3> QED  BY <2>2, <3>1 DEF IsRun, Does
  <2>6. s[n] = r[n]
    BY <1>0, <2>4
  <2> QED  BY <1>2, <2>1, <2>2, <2>5, <2>6 DEF z
<1> QED  BY <1>1, <1>2, <1>3, <1>4

(* process_fragments(): the next piece of a parameter *)
LEMMA BytesIs ==
    ASSUME NEW i \in Id, NEW j \in Nat, j < Fragments(i),
           NEW q, q.id = i, Fragmented(i) => q.findex = j
    PROVE  /\ From(q) = DATA_SZ * j /\ Bytes(q) = LengthOf(i, j) /\ Bytes(q) \in 1 .. DATA_SZ
           /\ From(q) \in Nat
           /\ Followed(q) <=> j + 1 < Fragments(i)
           /\ Fragmented(i) \/ (j = 0 /\ ~ (j + 1 < Fragments(i)))
<1> DEFINE F == Fragments(i)  z == Size[i]
<1>1. /\ F \in Nat \ {0} /\ z \in Nat \ {0}
      /\ DATA_SZ * (F - 1) < z /\ z <= DATA_SZ * F
      /\ Fragmented(i) <=> F # 1
  BY FragmentsIs
<1>2. j < F
  OBVIOUS
<1>3. From(q) = DATA_SZ * j
  BY <1>1, <1>2 DEF From, DATA_SZ
<1>4. Left(q) = z - DATA_SZ * j
  BY <1>3 DEF Left
<1>5. Followed(q) <=> j + 1 < F
  <2>1. CASE Fragmented(i)
    <3>1. Followed(q) <=> j # F - 1
      BY <2>1 DEF Followed
    <3> HIDE DEF F
    <3> QED  BY <1>1, <1>2, <3>1
  <2>2. CASE ~ Fragmented(i)
    <3>1. ~ Followed(q)
      BY <2>2 DEF Followed
    <3> HIDE DEF F
    <3> QED  BY <1>1, <1>2, <2>2, <3>1
  <2> QED  BY <2>1, <2>2
<1>6. LengthOf(i, j) = IF j + 1 < F THEN DATA_SZ ELSE z - DATA_SZ * j
  BY DEF LengthOf
<1>7. Bytes(q) = IF z - DATA_SZ * j > DATA_SZ THEN DATA_SZ ELSE z - DATA_SZ * j
  BY <1>4 DEF Bytes
<1>8. Fragmented(i) \/ (j = 0 /\ ~ (j + 1 < F))
  <2> SUFFICES ASSUME ~ Fragmented(i) PROVE j = 0 /\ ~ (j + 1 < F)
    OBVIOUS
  <2>1. F = 1
    BY <1>1
  <2> HIDE DEF F
  <2> QED  BY <1>2, <2>1
<1> HIDE DEF F, z
<1>9. CASE j + 1 < F
  <2>1. j + 2 <= F
    BY <1>1, <1>9
  <2>2. DATA_SZ * (j + 1) < z
    BY <1>1, <2>1 DEF DATA_SZ
  <2>3. z - DATA_SZ * j > DATA_SZ
    BY <1>1, <2>2 DEF DATA_SZ
  <2>4. Bytes(q) = DATA_SZ /\ LengthOf(i, j) = DATA_SZ
    BY <1>6, <1>7, <1>9, <2>3
  <2>5. DATA_SZ \in 1 .. DATA_SZ /\ DATA_SZ * j \in Nat
    BY DEF DATA_SZ
  <2> QED  BY <1>3, <1>5, <1>8, <2>4, <2>5 DEF F
<1>10. CASE ~ (j + 1 < F)
  <2>1. j = F - 1
    BY <1>1, <1>2, <1>10
  <2>2. DATA_SZ * j < z /\ z <= DATA_SZ * (j + 1)
    BY <1>1, <2>1
  <2>3. z - DATA_SZ * j \in 1 .. DATA_SZ /\ DATA_SZ * j \in Nat
    BY <1>1, <2>2 DEF DATA_SZ
  <2>4. Bytes(q) = z - DATA_SZ * j /\ LengthOf(i, j) = z - DATA_SZ * j
    <3>1. ~ (z - DATA_SZ * j > DATA_SZ)
      BY <1>1, <2>2 DEF DATA_SZ
    <3> QED  BY <1>6, <1>7, <1>10, <3>1
  <2> QED  BY <1>3, <1>5, <1>8, <2>3, <2>4 DEF F
<1> QED  BY <1>9, <1>10

(* The loop of send() has come from place x to place y. *)
Filling(g, m, ord, x, s, y) ==
    /\ s = [tbc |-> s.tbc, pos |-> s.pos, prm |-> s.prm, out |-> s.out]
    /\ Carries(ord, s.out, x, y) /\ s.pos = y[1]
    /\ s.prm \in [Param -> Object]
    /\ \A p \in Param : s.prm[p].linked = g.prm[p].linked /\ s.prm[p].id = g.prm[p].id
    /\ \A p \in Param : p \notin Range(g.msg[m].tlvs) => s.prm[p] = g.prm[p]
    /\ \A k \in 1 .. Len(ord) : k > y[1] /\ Fragmented(ord[k]) =>
          s.prm[g.msg[m].tlvs[k]].findex = IF k = y[1] + 1 THEN y[2] ELSE 0
    /\ \A off : IsOffset(off, ord) => off[y[1]] + y[2] = off[x[1]] + x[2] + Len(s.out)
    /\ SizeOf(s.out) <= MAX_PARAMS_SIZE
    /\ s.tbc = SizeOf(s.out) \/ (s.tbc \in Nat /\ s.tbc > MAX_PARAMS_SIZE /\ s.out # <<>>)

PutPart(g, m, s) ==
    LET p == g.msg[m].tlvs[s.pos + 1]
        q == s.prm[p]
    IN [tbc |-> s.tbc + Bytes(q) + Overhead,
        pos |-> IF Followed(q) THEN s.pos ELSE s.pos + 1,
        prm |-> IF Fragmented(q.id) THEN [s.prm EXCEPT ![p].findex = @ + 1] ELSE s.prm,
        out |-> Append(s.out, [id |-> q.id, from |-> From(q), len |-> Bytes(q), frag |-> Followed(q)])]

(* The parameter at place x gives the piece of place x. *)
LEMMA NextPieceIs ==
    ASSUME NEW g, Own(g, {}), NEW m \in Msg, NEW ord, Loaded(g, m, ord), NEW x, NEW y, NEW s,
           Filling(g, m, ord, x, s, y), ~ Ends(ord, y),
           NEW p, p = g.msg[m].tlvs[s.pos + 1], NEW q, q = s.prm[p],
           NEW i, i = ord[y[1] + 1], NEW j, j = y[2]
    PROVE  /\ p \in Param /\ p \in Range(g.msg[m].tlvs) /\ i \in Id /\ q.id = i /\ q \in Object
           /\ p = g.msg[m].tlvs[y[1] + 1]
           /\ Fragmented(i) => q.findex = j
           /\ From(q) = DATA_SZ * j /\ Bytes(q) = LengthOf(i, j) /\ Bytes(q) \in 1 .. DATA_SZ
           /\ From(q) \in Nat
           /\ Followed(q) <=> j + 1 < Fragments(i)
           /\ Fragmented(i) \/ (j = 0 /\ ~ (j + 1 < Fragments(i)))
<1> DEFINE tl == g.msg[m].tlvs  n == Len(ord)
<1>0. g \in Manager
  BY DEF Own
<1>1. /\ tl \in Seq(Param) /\ Len(tl) = n /\ IsInjective(tl) /\ n \in Nat
      /\ ord \in Seq(Id) /\ g.msgs[m] = 0 /\ \A k \in 1 .. n : g.prm[tl[k]].id = ord[k] /\ ord[k] \in Id
  BY <1>0, ManagerIs DEF Own, Proper, Loaded
<1>2. /\ Carries(ord, s.out, x, y) /\ s.pos = y[1] /\ y \in Places(ord) /\ s.out \in Seq(Parts)
      /\ x \in Places(ord)
      /\ s.prm \in [Param -> Object]
      /\ \A w \in Param : s.prm[w].linked = g.prm[w].linked /\ s.prm[w].id = g.prm[w].id
      /\ \A w \in Param : w \notin Range(tl) => s.prm[w] = g.prm[w]
      /\ \A k \in 1 .. n : k > y[1] /\ Fragmented(ord[k]) =>
            s.prm[tl[k]].findex = IF k = y[1] + 1 THEN y[2] ELSE 0
      /\ \A off : IsOffset(off, ord) => off[y[1]] + y[2] = off[x[1]] + x[2] + Len(s.out)
      /\ SizeOf(s.out) <= MAX_PARAMS_SIZE
  BY DEF Filling, Carries
<1>3. y[1] \in Nat /\ j \in Nat /\ y[1] < n /\ j < Fragments(i) /\ y[1] + 1 \in 1 .. n
  BY <1>1, <1>2 DEF Places, Ends
<1>d. /\ \A k \in 1 .. n : tl[k] \in Param /\ tl[k] \in Range(tl)
      /\ \A k, l \in 1 .. n : k # l => tl[k] # tl[l]
  BY <1>1 DEF Range, IsInjective
<1>4. p \in Param /\ p \in Range(tl) /\ i \in Id /\ q.id = i /\ q \in Object /\ p = tl[y[1] + 1]
  <2>1. p = tl[y[1] + 1]
    BY <1>2
  <2>2. /\ \A k \in 1 .. n : /\ tl[k] \in Param /\ tl[k] \in Range(tl)
                              /\ g.prm[tl[k]].id = ord[k] /\ ord[k] \in Id
        /\ y[1] + 1 \in 1 .. n
    BY <1>1, <1>3, <1>d
  <2>3. s.prm \in [Param -> Object] /\ \A w \in Param : s.prm[w].id = g.prm[w].id
    BY <1>2
  <2> HIDE DEF tl, n
  <2> QED  BY <2>1, <2>2, <2>3
<1>5. Fragmented(i) => q.findex = j
  <2>1. y[1] + 1 > y[1]
    BY <1>3
  <2> HIDE DEF tl, n
  <2>2. Fragmented(i) => s.prm[tl[y[1] + 1]].findex = y[2]
    BY <1>2, <1>3, <2>1
  <2> QED  BY <1>4, <2>2
<1>6. /\ From(q) = DATA_SZ * j /\ Bytes(q) = LengthOf(i, j) /\ Bytes(q) \in 1 .. DATA_SZ
      /\ From(q) \in Nat
      /\ Followed(q) <=> j + 1 < Fragments(i)
      /\ Fragmented(i) \/ (j = 0 /\ ~ (j + 1 < Fragments(i)))
  <2> QED  BY <1>3, <1>4, <1>5, BytesIs
<1> QED  BY <1>4, <1>5, <1>6

(* A piece that is put into the packet takes the loop one place further. *)
LEMMA PutPartIs ==
    ASSUME NEW g, Own(g, {}), NEW m \in Msg, NEW ord, Loaded(g, m, ord), NEW x, NEW y, NEW s,
           Filling(g, m, ord, x, s, y), ~ Ends(ord, y), s.tbc = SizeOf(s.out),
           NEW h, h = PutPart(g, m, s), h.tbc <= MAX_PARAMS_SIZE
    PROVE  Filling(g, m, ord, x, h, After(ord, y)) /\ h.out # <<>>
<1> DEFINE tl == g.msg[m].tlvs  p == tl[s.pos + 1]  q == s.prm[p]  i == ord[y[1] + 1]  j == y[2]
           z == After(ord, y)  n == Len(ord)
           e == [id |-> q.id, from |-> From(q), len |-> Bytes(q), frag |-> Followed(q)]
<1>0. g \in Manager
  BY DEF Own
<1>1. /\ tl \in Seq(Param) /\ Len(tl) = n /\ IsInjective(tl) /\ n \in Nat
      /\ ord \in Seq(Id) /\ g.msgs[m] = 0 /\ \A k \in 1 .. n : g.prm[tl[k]].id = ord[k] /\ ord[k] \in Id
  BY <1>0, ManagerIs DEF Own, Proper, Loaded
<1>2. /\ Carries(ord, s.out, x, y) /\ s.pos = y[1] /\ y \in Places(ord) /\ s.out \in Seq(Parts)
      /\ x \in Places(ord)
      /\ s.prm \in [Param -> Object]
      /\ \A w \in Param : s.prm[w].linked = g.prm[w].linked /\ s.prm[w].id = g.prm[w].id
      /\ \A w \in Param : w \notin Range(tl) => s.prm[w] = g.prm[w]
      /\ \A k \in 1 .. n : k > y[1] /\ Fragmented(ord[k]) =>
            s.prm[tl[k]].findex = IF k = y[1] + 1 THEN y[2] ELSE 0
      /\ \A off : IsOffset(off, ord) => off[y[1]] + y[2] = off[x[1]] + x[2] + Len(s.out)
      /\ SizeOf(s.out) <= MAX_PARAMS_SIZE
  BY DEF Filling, Carries
<1>3. y[1] \in Nat /\ j \in Nat /\ y[1] < n /\ j < Fragments(i) /\ y[1] + 1 \in 1 .. n
  BY <1>1, <1>2 DEF Places, Ends
<1>d. /\ \A k \in 1 .. n : tl[k] \in Param /\ tl[k] \in Range(tl)
      /\ \A k, l \in 1 .. n : k # l => tl[k] # tl[l]
  BY <1>1 DEF Range, IsInjective
<1>6. /\ p \in Param /\ p \in Range(tl) /\ i \in Id /\ q.id = i /\ q \in Object /\ p = tl[y[1] + 1]
      /\ Fragmented(i) => q.findex = j
      /\ From(q) = DATA_SZ * j /\ Bytes(q) = LengthOf(i, j) /\ Bytes(q) \in 1 .. DATA_SZ
      /\ From(q) \in Nat
      /\ Followed(q) <=> j + 1 < Fragments(i)
      /\ Fragmented(i) \/ (j = 0 /\ ~ (j + 1 < Fragments(i)))
  BY NextPieceIs
<1>4. p \in Param /\ p \in Range(tl) /\ i \in Id /\ q.id = i /\ q \in Object /\ p = tl[y[1] + 1]
  BY <1>6
<1>5. Fragmented(i) => q.findex = j
  BY <1>6
<1>7. IsPart(ord, y, e)
  <2> DEFINE b == Followed(q)  c == From(q)  d == Bytes(q)  f == q.id
  <2>1. b \in BOOLEAN /\ (b <=> j + 1 < Fragments(i))
    <3>1. Followed(q) \in BOOLEAN
      BY DEF Followed
    <3> HIDE DEF q, i, j
    <3> QED  BY <1>6, <3>1
  <2>2. c \in Nat /\ d \in 1 .. DATA_SZ /\ f \in Id /\ c = DATA_SZ * j /\ d = LengthOf(i, j) /\ f = i
    BY <1>4, <1>6
  <2>3. e = [id |-> f, from |-> c, len |-> d, frag |-> b]
    OBVIOUS
  <2> HIDE DEF e, f, c, d, b
  <2>4. e \in Parts /\ e.id = f /\ e.from = c /\ e.len = d /\ e.frag = b
    BY <2>1, <2>2, <2>3 DEF Parts
  <2>5. e.id = i /\ e.from = DATA_SZ * j /\ e.len = LengthOf(i, j)
    BY <2>2, <2>4
  <2>6. e.frag <=> j + 1 < Fragments(i)
    BY Zenon, <2>1, <2>4
  <2> QED  BY <2>4, <2>5, <2>6 DEF IsPart
<1>8. /\ h = [tbc |-> s.tbc + Bytes(q) + Overhead,
              pos |-> IF Followed(q) THEN s.pos ELSE s.pos + 1,
              prm |-> IF Fragmented(q.id) THEN [s.prm EXCEPT ![p].findex = @ + 1] ELSE s.prm,
              out |-> Append(s.out, e)]
  BY Zenon DEF PutPart
<1> HIDE DEF e
<1>9. /\ h.tbc = s.tbc + Bytes(q) + Overhead
      /\ h.pos = (IF Followed(q) THEN s.pos ELSE s.pos + 1)
      /\ h.prm = (IF Fragmented(i) THEN [s.prm EXCEPT ![p].findex = @ + 1] ELSE s.prm)
      /\ h.out = Append(s.out, e)
      /\ h = [tbc |-> h.tbc, pos |-> h.pos, prm |-> h.prm, out |-> h.out]
  <2>1. q.id = i
    BY Zenon, <1>4
  <2> HIDE DEF q, i, p
  <2> QED  BY <1>8, <2>1
<1>e. e \in Parts /\ h.out = Append(s.out, e) /\ s.out \in Seq(Parts)
  BY Zenon, <1>2, <1>7, <1>9 DEF IsPart
<1>10. Carries(ord, h.out, x, z)
  <2>1. ord \in Seq(Id) /\ Carries(ord, s.out, x, y) /\ ~ Ends(ord, y) /\ IsPart(ord, y, e)
    BY <1>1, <1>2, <1>7
  <2> HIDE DEF z
  <2>2. Carries(ord, Append(s.out, e), x, After(ord, y))
    BY Zenon, <2>1, CarriesMore
  <2> QED  BY <2>2, <1>e DEF z
<1>11. h.pos = z[1] /\ (z = IF j + 1 < Fragments(i) THEN <<y[1], j + 1>> ELSE <<y[1] + 1, 0>>)
  <2>1. z = IF j + 1 < Fragments(i) THEN <<y[1], j + 1>> ELSE <<y[1] + 1, 0>>
    BY DEF After
  <2> HIDE DEF q, i, j, z
  <2> QED  BY Zenon, <1>2, <1>6, <1>9, <2>1
<1>12. /\ h.prm \in [Param -> Object]
       /\ \A w \in Param : h.prm[w].linked = g.prm[w].linked /\ h.prm[w].id = g.prm[w].id
       /\ \A w \in Param \ {p} : h.prm[w] = s.prm[w]
       /\ Fragmented(i) => h.prm[p].findex = j + 1
  <2>1. CASE ~ Fragmented(i)
    <3>1. h.prm = s.prm
      BY <1>9, <2>1
    <3> HIDE DEF p, i, tl
    <3> QED  BY <1>2, <2>1, <3>1
  <2>2. CASE Fragmented(i)
    <3> DEFINE v == [s.prm[p] EXCEPT !.findex = @ + 1]
    <3>1. h.prm = [s.prm EXCEPT ![p] = v] /\ q.findex = j
      BY Zenon, <1>5, <1>9, <2>2
    <3>2. v = [q EXCEPT !.findex = q.findex + 1]
      OBVIOUS
    <3>4. q = s.prm[p]
      OBVIOUS
    <3> HIDE DEF v, q, p, i, tl, j
    <3>3. v \in Object /\ v.id = q.id /\ v.linked = q.linked /\ v.findex = j + 1
      BY <1>3, <1>4, <3>1, <3>2 DEF Object
    <3> QED  BY ZenonT(40), <1>2, <1>4, <3>1, <3>3, <3>4
  <2> QED  BY <2>1, <2>2
<1>13. \A w \in Param : w \notin Range(tl) => h.prm[w] = g.prm[w]
  <2> HIDE DEF p, tl
  <2> QED  BY <1>2, <1>4, <1>12
<1>14. \A k \in 1 .. n : k > z[1] /\ Fragmented(ord[k]) =>
            h.prm[tl[k]].findex = IF k = z[1] + 1 THEN z[2] ELSE 0
  <2> SUFFICES ASSUME NEW k \in 1 .. n, k > z[1], Fragmented(ord[k])
               PROVE  h.prm[tl[k]].findex = IF k = z[1] + 1 THEN z[2] ELSE 0
    OBVIOUS
  <2>1. CASE j + 1 < Fragments(i)
    <3>1. z[1] = y[1] /\ z[2] = j + 1
      BY <1>11, <2>1
    <3>2. CASE k = y[1] + 1
      <4>1. tl[k] = p /\ ord[k] = i
        BY <1>4, <3>2
      <4> HIDE DEF p, i, z, tl, n, j
      <4> QED  BY <1>12, <3>1, <3>2, <4>1
    <3>3. CASE k # y[1] + 1
      <4>1. tl[k] # p /\ tl[k] \in Param
        <5> HIDE DEF tl, n
        <5> QED  BY <1>3, <1>4, <1>d, <3>3
      <4> HIDE DEF p, i, z, tl, n, j
      <4>2. s.prm[tl[k]].findex = 0
        BY <1>2, <3>1, <3>3
      <4> QED  BY <1>12, <3>1, <3>3, <4>1, <4>2
    <3> QED  BY <3>2, <3>3
  <2>2. CASE ~ (j + 1 < Fragments(i))
    <3>1. z[1] = y[1] + 1 /\ z[2] = 0
      BY <1>11, <2>2
    <3>2. k > y[1] /\ k # y[1] + 1
      <4> HIDE DEF z, n
      <4> QED  BY <1>3, <3>1
    <3>3. tl[k] # p /\ tl[k] \in Param
      <4> HIDE DEF tl, n
      <4> QED  BY <1>3, <1>4, <1>d, <3>2
    <3> HIDE DEF p, i, z, tl, n, j
    <3>4. s.prm[tl[k]].findex = 0
      BY <1>2, <3>2
    <3> QED  BY <1>12, <3>1, <3>3, <3>4
  <2> QED  BY <2>1, <2>2
<1>15. ASSUME NEW off, IsOffset(off, ord)
       PROVE  off[z[1]] + z[2] = off[x[1]] + x[2] + Len(h.out)
  <2>1. off[z[1]] + z[2] = off[y[1]] + y[2] + 1
    BY <1>1, <1>2, <1>15, AfterIs
  <2>2. off[y[1]] + y[2] = off[x[1]] + x[2] + Len(s.out)
    BY <1>2, <1>15
  <2>3. off[x[1]] + x[2] \in Nat
    BY <1>1, <1>2, <1>15, OffsetIs
  <2>4. Len(h.out) = Len(s.out) + 1 /\ Len(s.out) \in Nat
    BY <1>e
  <2> HIDE DEF z
  <2> QED  BY <2>1, <2>2, <2>3, <2>4
<1>16. h.tbc = SizeOf(h.out) /\ SizeOf(h.out) <= MAX_PARAMS_SIZE
  <2>1. e \in Parts /\ e.len = Bytes(q)
    BY Zenon, <1>6, <1>7 DEF IsPart
  <2>2. SizeOf(h.out) = SizeOf(s.out) + e.len + Overhead
    BY Zenon, <1>2, <1>9, <2>1, SizeMore
  <2> HIDE DEF q
  <2> QED  BY Zenon, <1>9, <2>1, <2>2
<1>17. h.out # <<>>
  <2>1. Len(h.out) = Len(s.out) + 1 /\ Len(s.out) \in Nat
    BY <1>e
  <2>2. Len(<<>>) = 0
    OBVIOUS
  <2> QED  BY <2>1, <2>2
<1> HIDE DEF z, n, tl
<1>18. Filling(g, m, ord, x, h, z)
  BY ZenonT(40), <1>9, <1>10, <1>11, <1>12, <1>13, <1>14, <1>15, <1>16 DEF Filling, tl, n
<1> QED  BY <1>17, <1>18 DEF z

(* One turn of the loop of send(). *)
LEMMA PutIs ==
    ASSUME NEW g, Own(g, {}), NEW m \in Msg, NEW ord, Loaded(g, m, ord), NEW x, NEW y, NEW s,
           Filling(g, m, ord, x, s, y), NEW h, h = Put(g, m, s)
    PROVE  \E z : /\ Filling(g, m, ord, x, h, z)
                  /\ s.out # <<>> => h.out # <<>>
                  /\ ~ Ends(ord, y) => h.out # <<>>
                  /\ Ends(ord, y) => z = y
<1> DEFINE p == g.msg[m].tlvs[s.pos + 1]  q == s.prm[p]  tbc == s.tbc + Bytes(q) + Overhead
<1>1. /\ Len(g.msg[m].tlvs) = Len(ord) /\ s.pos = y[1] /\ y \in Places(ord) /\ s.out \in Seq(Parts)
      /\ s.tbc = SizeOf(s.out) \/ (s.tbc \in Nat /\ s.tbc > MAX_PARAMS_SIZE /\ s.out # <<>>)
      /\ ord \in Seq(Id)
  BY DEF Filling, Carries, Loaded
<1>2. Ends(ord, y) <=> s.pos >= Len(g.msg[m].tlvs)
  <2>1. Len(ord) \in Nat /\ y[1] \in Nat /\ y[1] <= Len(ord)
    BY <1>1 DEF Places
  <2> QED  BY <1>1, <2>1 DEF Ends
<1>3. SizeOf(<<>>) = 0 /\ SizeOf(s.out) \in Nat /\ s.tbc \in Nat
  BY <1>1, SizeMore
<1>4. CASE s.tbc >= MAX_PARAMS_SIZE \/ s.pos >= Len(g.msg[m].tlvs)
  <2>1. h = s
    BY Zenon, <1>4 DEF Put
  <2>2. ~ Ends(ord, y) => s.out # <<>>
    BY <1>1, <1>2, <1>3, <1>4 DEF MAX_PARAMS_SIZE
  <2> QED  BY Zenon, <2>1, <2>2
<1>5. CASE ~ (s.tbc >= MAX_PARAMS_SIZE \/ s.pos >= Len(g.msg[m].tlvs)) /\ tbc > MAX_PARAMS_SIZE
  <2>1. h = [s EXCEPT !.tbc = tbc]
    BY <1>5 DEF Put
  <2>2. Bytes(q) \in 1 .. DATA_SZ
    BY <1>2, <1>5, NextPieceIs
  <2>3. s.tbc = SizeOf(s.out)
    BY <1>1, <1>3, <1>5 DEF MAX_PARAMS_SIZE
  <2>4. tbc \in Nat /\ s.out # <<>>
    <3> DEFINE b == Bytes(q)  c == s.tbc
    <3>1. b \in 1 .. 256 /\ c \in Nat /\ tbc = c + b + 25 /\ tbc > 768 /\ (s.out = <<>> => c = 0)
      BY ZenonT(40), <1>3, <1>5, <2>2, <2>3 DEF MAX_PARAMS_SIZE, DATA_SZ, Overhead
    <3> HIDE DEF q, b, c, tbc
    <3> QED  BY <3>1
  <2>5. s = [tbc |-> s.tbc, pos |-> s.pos, prm |-> s.prm, out |-> s.out]
    BY DEF Filling
  <2> HIDE DEF tbc
  <2>6. /\ h = [tbc |-> h.tbc, pos |-> h.pos, prm |-> h.prm, out |-> h.out]
        /\ h.tbc = tbc /\ h.pos = s.pos /\ h.prm = s.prm /\ h.out = s.out
    BY <2>1, <2>5
  <2>7. Filling(g, m, ord, x, h, y)
    BY <1>5, <2>4, <2>6 DEF Filling
  <2> QED  BY <2>4, <2>6, <2>7
<1>6. CASE ~ (s.tbc >= MAX_PARAMS_SIZE \/ s.pos >= Len(g.msg[m].tlvs)) /\ ~ (tbc > MAX_PARAMS_SIZE)
  <2>1. h = PutPart(g, m, s)
    BY Zenon, <1>6 DEF Put, PutPart
  <2>2. Bytes(q) \in 1 .. DATA_SZ
    BY <1>2, <1>6, NextPieceIs
  <2>3. s.tbc = SizeOf(s.out)
    BY <1>1, <1>3, <1>6 DEF MAX_PARAMS_SIZE
  <2>4. PutPart(g, m, s).tbc = tbc
    <3> DEFINE u == IF Followed(q) THEN s.pos ELSE s.pos + 1
               v == IF Fragmented(q.id) THEN [s.prm EXCEPT ![p].findex = @ + 1] ELSE s.prm
               w == Append(s.out, [id |-> q.id, from |-> From(q), len |-> Bytes(q), frag |-> Followed(q)])
    <3>1. PutPart(g, m, s) = [tbc |-> tbc, pos |-> u, prm |-> v, out |-> w]
      BY DEF PutPart
    <3> HIDE DEF tbc, u, v, w
    <3> QED  BY <3>1
  <2>5. h.tbc <= MAX_PARAMS_SIZE
    <3> DEFINE b == Bytes(q)  c == s.tbc
    <3>1. b \in 1 .. 256 /\ c \in Nat /\ tbc = c + b + 25 /\ ~ (tbc > 768) /\ h.tbc = tbc
      BY ZenonT(40), <1>3, <1>6, <2>1, <2>2, <2>4 DEF MAX_PARAMS_SIZE, DATA_SZ, Overhead
    <3> HIDE DEF q, b, c, tbc
    <3> QED  BY <3>1 DEF MAX_PARAMS_SIZE
  <2> HIDE DEF tbc, q, p
  <2>6. ~ Ends(ord, y)
    BY <1>2, <1>6
  <2>7. Filling(g, m, ord, x, h, After(ord, y)) /\ h.out # <<>>
    BY <2>1, <2>3, <2>5, <2>6, PutPartIs
  <2> QED  BY <2>6, <2>7
<1> QED  BY <1>4, <1>5, <1>6

Unfilled(g, m) == [tbc |-> 0, pos |-> g.msg[m].pos, prm |-> g.prm, out |-> <<>>]
Filled(g, m, s) == [g EXCEPT !.prm = s.prm, !.msg[m].pos = s.pos,
                             !.msg[m].pindex = @ + Len(s.out)]

(* Fill() is that loop, of as many turns as there are fragments. *)
LEMMA FillRun ==
    ASSUME NEW g, NEW m, NEW n \in Nat, g.msg[m].pc = n
    PROVE  \E r : /\ IsRun(r, "put", <<g, m>>, n, <<>>, Unfilled(g, m))
                  /\ Fill(g, m) = [g |-> Filled(g, m, r[n]), pkt |-> r[n].out]
<1> DEFINE F(f) == [k \in 0 .. n |-> IF k = 0 THEN Unfilled(g, m) ELSE Put(g, m, f[k - 1])]
           f == CHOOSE f : f = F(f)
<1>1. Fill(g, m) = [g |-> Filled(g, m, f[n]), pkt |-> f[n].out]
  BY DEF Fill, Filled, Unfilled
<1>2. PICK r : IsRun(r, "put", <<g, m>>, n, <<>>, Unfilled(g, m))
  BY RunExists
<1>3. \A j \in 0 .. n - 1 : r[j + 1] = Put(g, m, r[j])
  BY <1>2 DEF IsRun, Does
<1> DEFINE h == [k \in 0 .. n |-> r[k]]
<1>4. h = F(h)
  <2> SUFFICES ASSUME NEW k \in 0 .. n
               PROVE  r[k] = IF k = 0 THEN Unfilled(g, m) ELSE Put(g, m, h[k - 1])
    OBVIOUS
  <2>1. CASE k = 0
    BY <1>2, <2>1 DEF IsRun
  <2>2. CASE k # 0
    <3>1. k - 1 \in 0 .. n - 1 /\ k - 1 \in 0 .. n /\ (k - 1) + 1 = k
      BY <2>2
    <3>2. r[k] = Put(g, m, r[k - 1])
      BY <1>3, <3>1
    <3> QED  BY <2>2, <3>1, <3>2
  <2> QED  BY <2>1, <2>2
<1>5. \E v : v = F(v)
  <2> HIDE DEF F, h
  <2> QED  BY <1>4
<1>6. f = F(f)
  <2> HIDE DEF F
  <2> QED  BY <1>5
<1> HIDE DEF f
<1>7. f[0] = Unfilled(g, m) /\ \A j \in 0 .. n - 1 : f[j + 1] = Put(g, m, f[j])
  <2>1. f[0] = Unfilled(g, m)
    BY <1>6
  <2>2. ASSUME NEW j \in 0 .. n - 1 PROVE f[j + 1] = Put(g, m, f[j])
    <3>1. j + 1 \in 0 .. n /\ j + 1 # 0 /\ (j + 1) - 1 = j
      OBVIOUS
    <3>2. f[j + 1] = Put(g, m, f[(j + 1) - 1])
      BY <1>6, <3>1
    <3> QED  BY <3>1, <3>2
  <2> QED  BY <2>1, <2>2
<1>8. IsRun(f, "put", <<g, m>>, n, <<>>, Unfilled(g, m))
  BY <1>7 DEF IsRun, Does
<1> QED  BY <1>1, <1>8

(* A message without fragments is at its end. *)
LEMMA SendsEnds ==
    ASSUME NEW g, NEW m, NEW ord, NEW x, Sends(g, m, ord, x)
    PROVE  /\ g.msg[m].pindex \in Nat /\ g.msg[m].pc \in Nat
           /\ Ends(ord, x) <=> g.msg[m].pindex = g.msg[m].pc
           /\ ~ Ends(ord, x) <=> g.msg[m].pindex < g.msg[m].pc
<1>1. PICK off : IsOffset(off, ord) /\ g.msg[m].pindex = off[x[1]] + x[2] /\ g.msg[m].pc = off[Len(ord)]
  BY DEF Sends
<1>2. ord \in Seq(Id) /\ x \in Places(ord)
  BY DEF Sends, Loaded
<1>3. /\ off[x[1]] + x[2] \in Nat
      /\ Ends(ord, x) => off[x[1]] + x[2] = off[Len(ord)]
      /\ ~ Ends(ord, x) => off[x[1]] + x[2] < off[Len(ord)]
      /\ off[Len(ord)] \in Nat
  <2>1. Len(ord) \in 0 .. Len(ord)
    BY <1>2
  <2> QED  BY <1>1, <1>2, <2>1, OffsetIs
<1> DEFINE a == off[x[1]] + x[2]  b == off[Len(ord)]
<1>4. a \in Nat /\ b \in Nat /\ (Ends(ord, x) => a = b) /\ (~ Ends(ord, x) => a < b)
      /\ g.msg[m].pindex = a /\ g.msg[m].pc = b
  BY <1>1, <1>3
<1> HIDE DEF a, b
<1> QED  BY <1>4

(* The first turn of the loop always fits: a piece is smaller than a       *)
(* packet.                                                                 *)
LEMMA FillStarts ==
    ASSUME NEW g, Own(g, {}), NEW m \in Msg, NEW ord, NEW x, Sends(g, m, ord, x)
    PROVE  Filling(g, m, ord, x, Unfilled(g, m), x)
<1> DEFINE u == Unfilled(g, m)
<1>1. u.tbc = 0 /\ u.pos = g.msg[m].pos /\ u.prm = g.prm /\ u.out = <<>>
      /\ u = [tbc |-> u.tbc, pos |-> u.pos, prm |-> u.prm, out |-> u.out]
  BY DEF Unfilled
<1>2. g.prm \in [Param -> Object]
  BY ManagerIs DEF Own
<1>3. ord \in Seq(Id) /\ x \in Places(ord) /\ g.msg[m].pos = x[1]
      /\ \A k \in 1 .. Len(ord) : k > x[1] /\ Fragmented(ord[k]) =>
          g.prm[g.msg[m].tlvs[k]].findex = IF k = x[1] + 1 THEN x[2] ELSE 0
  BY DEF Sends, Loaded
<1>4. Carries(ord, <<>>, x, x)
  BY <1>3, CarriesNone
<1>5. SizeOf(<<>>) = 0
  <2>1. <<>> \in Seq(Parts)
    OBVIOUS
  <2> QED  BY <2>1, SizeMore
<1>6. ASSUME NEW off, IsOffset(off, ord) PROVE off[x[1]] + x[2] = off[x[1]] + x[2] + Len(u.out)
  <2>1. off[x[1]] + x[2] \in Nat /\ Len(u.out) = 0
    BY <1>1, <1>3, <1>6, OffsetIs
  <2> HIDE DEF u
  <2> QED  BY <2>1
<1> HIDE DEF u
<1>7. SizeOf(u.out) <= MAX_PARAMS_SIZE /\ u.tbc = SizeOf(u.out)
  BY <1>1, <1>5 DEF MAX_PARAMS_SIZE
<1>8. Filling(g, m, ord, x, u, x)
  BY <1>1, <1>2, <1>3, <1>4, <1>6, <1>7 DEF Filling
<1> QED  BY <1>8 DEF u

Advance(e, a, b) == [e EXCEPT !.pos = a, !.pindex = @ + b]

(* The sender notes the place it has come to. *)
LEMMA Advanced ==
    ASSUME NEW e \in Envelope, NEW a \in Nat, NEW b \in Nat,
           NEW v, v = Advance(e, a, b)
    PROVE  /\ v \in Envelope /\ v.tlvs = e.tlvs /\ v.frag = e.frag /\ v.pos = a
           /\ v.pindex = e.pindex + b /\ v.pc = e.pc
<1>1. e.pindex \in Nat
  BY DEF Envelope
<1> DEFINE c == e.pindex + b
<1>2. c \in Nat /\ v = [e EXCEPT !.pos = a, !.pindex = c]
  BY <1>1 DEF Advance
<1> HIDE DEF c
<1>3. /\ v \in Envelope /\ v.tlvs = e.tlvs /\ v.frag = e.frag /\ v.pos = a
      /\ v.pindex = c /\ v.pc = e.pc
  BY <1>2 DEF Envelope
<1> QED  BY <1>3 DEF c

(* It does so in the message, and nothing else changes hands. *)
LEMMA FilledIs ==
    ASSUME NEW g, Own(g, {}), NEW m \in Msg, NEW ord, NEW x, Sends(g, m, ord, x),
           NEW s, NEW y, Filling(g, m, ord, x, s, y), NEW h, h = Filled(g, m, s)
    PROVE  Own(h, {}) /\ Kept(g, h, m) /\ h.msgs = g.msgs /\ Sends(h, m, ord, y)
<1> DEFINE e == g.msg[m]
<1>0. g \in Manager /\ e \in Envelope
  BY ManagerIs DEF Own
<1>1. /\ s.pos = y[1] /\ y \in Places(ord) /\ s.out \in Seq(Parts) /\ s.prm \in [Param -> Object]
      /\ \A p \in Param : s.prm[p].linked = g.prm[p].linked /\ s.prm[p].id = g.prm[p].id
      /\ \A p \in Param : p \notin Range(e.tlvs) => s.prm[p] = g.prm[p]
      /\ \A k \in 1 .. Len(ord) : k > y[1] /\ Fragmented(ord[k]) =>
            s.prm[e.tlvs[k]].findex = IF k = y[1] + 1 THEN y[2] ELSE 0
      /\ \A off : IsOffset(off, ord) => off[y[1]] + y[2] = off[x[1]] + x[2] + Len(s.out)
  BY DEF Filling, Carries
<1>2. Len(s.out) \in Nat /\ s.pos \in Nat
  BY <1>1 DEF Places
<1> DEFINE v == Advance(e, s.pos, Len(s.out))
<1>3. /\ v \in Envelope /\ v.tlvs = e.tlvs /\ v.frag = e.frag /\ v.pos = s.pos
      /\ v.pindex = e.pindex + Len(s.out) /\ v.pc = e.pc
  <2> DEFINE a == s.pos  b == Len(s.out)
  <2>1. a \in Nat /\ b \in Nat /\ e \in Envelope
    BY <1>0, <1>2
  <2>2. v = Advance(e, a, b)
    OBVIOUS
  <2> HIDE DEF e, v, a, b
  <2>3. /\ v \in Envelope /\ v.tlvs = e.tlvs /\ v.frag = e.frag /\ v.pos = a
        /\ v.pindex = e.pindex + b /\ v.pc = e.pc
    BY <2>1, <2>2, Advanced
  <2> QED  BY <2>3 DEF a, b
<1>4. h = [g EXCEPT !.prm = s.prm, !.msg[m] = v]
  BY DEF Filled, Advance
<1> HIDE DEF v
<1>5. /\ h \in Manager /\ h.msgs = g.msgs /\ h.free = g.free /\ h.prm = s.prm
      /\ h.msg = [g.msg EXCEPT ![m] = v]
  <2>1. /\ h.msgs = g.msgs /\ h.free = g.free /\ h.prm = s.prm
        /\ h.msg = [g.msg EXCEPT ![m] = v]
        /\ h = [msgs |-> h.msgs, free |-> h.free, prm |-> h.prm, msg |-> h.msg]
    BY <1>0, <1>4 DEF Manager
  <2>2. h.msg \in [Msg -> Envelope]
    BY <1>0, <1>3, <2>1, ManagerIs
  <2> QED  BY <1>0, <1>1, <2>1, <2>2, ManagerIs DEF Manager
<1>6. h.msg[m] = v /\ \A o \in Msg \ {m} : h.msg[o] = g.msg[o]
  BY <1>0, <1>5, ManagerIs
<1>7. Own(h, {})
  <2>1. \A o \in Msg : h.msg[o].tlvs = g.msg[o].tlvs /\ h.msg[o].frag = g.msg[o].frag
    BY <1>3, <1>6
  <2>2. \A p \in Param : h.prm[p].linked = g.prm[p].linked
    BY <1>1, <1>5
  <2> DEFINE Y == {}
  <2>3. Own(g, Y)
    OBVIOUS
  <2> HIDE DEF Y
  <2>4. Own(h, Y)
    BY <1>5, <2>1, <2>2, <2>3, OwnSame
  <2> QED  BY <2>4 DEF Y
<1>8. Loaded(g, m, ord)
  BY DEF Sends
<1>9. Kept(g, h, m)
  <2> SUFFICES ASSUME NEW o \in Msg \ {m}, NEW p \in Pile(g, o) PROVE h.prm[p] = g.prm[p]
    BY <1>5, <1>6 DEF Kept
  <2>1. Pile(g, o) \cap Pile(g, m) = {}
    BY DEF Own
  <2>2. p \in Param /\ Tops(g, m) \subseteq Pile(g, m)
    BY <1>0, <1>8, PileIs DEF Loaded
  <2>3. p \notin Range(e.tlvs)
    BY <2>1, <2>2 DEF Tops
  <2> QED  BY <1>1, <1>5, <2>2, <2>3
<1>10. Loaded(h, m, ord)
  <2>1. \A k \in 1 .. Len(ord) : e.tlvs[k] \in Param
    BY <1>0, <1>8, ManagerIs DEF Loaded
  <2>2. /\ h.msgs = g.msgs /\ h.msg[m].tlvs = e.tlvs /\ h.msg[m].frag = e.frag
        /\ \A p \in Param : h.prm[p].id = g.prm[p].id
    BY <1>1, <1>3, <1>5, <1>6
  <2>3. g.msgs[m] = 0 /\ e.frag = NoParam /\ ord \in Seq(Id) /\ IsInjective(ord)
        /\ Len(e.tlvs) = Len(ord) /\ \A k \in 1 .. Len(ord) : g.prm[e.tlvs[k]].id = ord[k]
    BY <1>8 DEF Loaded
  <2> HIDE DEF e
  <2> QED  BY <2>1, <2>2, <2>3 DEF Loaded
<1>11. \E off : /\ IsOffset(off, ord) /\ h.msg[m].pindex = off[y[1]] + y[2]
                /\ h.msg[m].pc = off[Len(ord)]
  <2>1. PICK off : IsOffset(off, ord) /\ e.pindex = off[x[1]] + x[2] /\ e.pc = off[Len(ord)]
    BY DEF Sends
  <2> HIDE DEF e
  <2>2. h.msg[m].pindex = off[y[1]] + y[2] /\ h.msg[m].pc = off[Len(ord)]
    BY <1>1, <1>3, <1>6, <2>1
  <2> QED  BY <2>1, <2>2
<1>12. Sends(h, m, ord, y)
  BY <1>1, <1>3, <1>5, <1>6, <1>10, <1>11 DEF Sends
<1> QED  BY <1>5, <1>7, <1>9, <1>12

(* A packet of send() or of ServiceMessageNext::run(). *)
LEMMA FillIs ==
    ASSUME NEW g, Own(g, {}), NEW m \in Msg, NEW ord, NEW x, Sends(g, m, ord, x),
           NEW f, f = Fill(g, m)
    PROVE  /\ Own(f.g, {}) /\ Kept(g, f.g, m) /\ f.g.msgs = g.msgs
           /\ SizeOf(f.pkt) <= MAX_PARAMS_SIZE /\ (~ Ends(ord, x) => f.pkt # <<>>)
           /\ \E y : Sends(f.g, m, ord, y) /\ Carries(ord, f.pkt, x, y)
<1> DEFINE n == g.msg[m].pc
<1>1. n \in Nat /\ (~ Ends(ord, x) => n > 0)
  BY SendsEnds
<1>2. PICK r : /\ IsRun(r, "put", <<g, m>>, n, <<>>, Unfilled(g, m))
               /\ f = [g |-> Filled(g, m, r[n]), pkt |-> r[n].out]
  <2> HIDE DEF n
  <2>1. g.msg[m].pc = n
    BY DEF n
  <2> QED  BY <1>1, <2>1, FillRun
<1>3. f.g = Filled(g, m, r[n]) /\ f.pkt = r[n].out
  BY <1>2
<1> HIDE DEF n
<1>4. Loaded(g, m, ord)
  BY DEF Sends
<1> DEFINE J(k) == \E y : /\ Filling(g, m, ord, x, r[k], y)
                          /\ k = 0 => y = x
                          /\ k > 0 /\ ~ Ends(ord, x) => r[k].out # <<>>
           T == {k \in 0 .. n : J(k)}
<1>5. J(0)
  <2>1. r[0] = Unfilled(g, m)
    BY <1>2 DEF IsRun
  <2> QED  BY <2>1, FillStarts
<1>6. ASSUME NEW k \in 0 .. n - 1, J(k) PROVE J(k + 1)
  <2>1. PICK y : /\ Filling(g, m, ord, x, r[k], y)
                 /\ k = 0 => y = x
                 /\ k > 0 /\ ~ Ends(ord, x) => r[k].out # <<>>
    BY <1>6
  <2>2. r[k + 1] = Put(g, m, r[k])
    BY <1>2 DEF IsRun, Does
  <2> DEFINE s == r[k]  h == r[k + 1]
  <2>3. Filling(g, m, ord, x, s, y) /\ h = Put(g, m, s)
    BY <2>1, <2>2
  <2> HIDE DEF s, h
  <2>4. PICK z : /\ Filling(g, m, ord, x, h, z)
                 /\ s.out # <<>> => h.out # <<>>
                 /\ ~ Ends(ord, y) => h.out # <<>>
    BY <1>4, <2>3, PutIs
  <2>5. ~ Ends(ord, x) => h.out # <<>>
    BY <1>1, <2>1, <2>4 DEF s
  <2>6. k + 1 # 0
    BY <1>1
  <2> QED  BY <2>4, <2>5, <2>6 DEF h
<1> HIDE DEF J
<1>7. \A k \in 0 .. n : k \in T
  <2>1. 0 \in T /\ \A k \in 0 .. n - 1 : k \in T => k + 1 \in T
    <3>1. \A k \in 0 .. n - 1 : k + 1 \in 0 .. n
      BY <1>1
    <3> QED  BY <1>1, <1>5, <1>6, <3>1
  <2> HIDE DEF T
  <2> QED  BY <1>1, <2>1, AllUpTo
<1>8. J(n)
  BY <1>1, <1>7
<1>9. PICK y : /\ Filling(g, m, ord, x, r[n], y)
               /\ ~ Ends(ord, x) => r[n].out # <<>>
  BY <1>1, <1>8 DEF J
<1>10. Carries(ord, f.pkt, x, y) /\ SizeOf(f.pkt) <= MAX_PARAMS_SIZE
  BY <1>3, <1>9 DEF Filling
<1>11. Own(f.g, {}) /\ Kept(g, f.g, m) /\ f.g.msgs = g.msgs /\ Sends(f.g, m, ord, y)
  BY <1>3, <1>9, FilledIs
<1> QED  BY <1>3, <1>9, <1>10, <1>11

-----------------------------------------------------------------------------
(* The receiver: the vpmap, *)

(* Only the vpmap of message m is not the same. *)
Notes(g, h, m) ==
    /\ h \in Manager /\ h.msgs = g.msgs /\ h.free = g.free /\ h.prm = g.prm
    /\ \A o \in Msg \ {m} : h.msg[o] = g.msg[o]
    /\ h.msg[m].tlvs = g.msg[m].tlvs /\ h.msg[m].frag = g.msg[m].frag
    /\ h.msg[m].data = g.msg[m].data /\ h.msg[m].missing = g.msg[m].missing

(* A change of the vpmap moves no parameter. *)
LEMMA NotesOwn ==
    ASSUME NEW g, NEW X, Own(g, X), NEW m \in Msg, NEW h, Notes(g, h, m)
    PROVE  Own(h, X) /\ Kept(g, h, m)
<1>1. \A o \in Msg : h.msg[o].tlvs = g.msg[o].tlvs /\ h.msg[o].frag = g.msg[o].frag
  BY DEF Notes
<1>2. h \in Manager /\ h.msgs = g.msgs /\ h.free = g.free
      /\ \A x \in Param : h.prm[x].linked = g.prm[x].linked
  BY DEF Notes
<1>3. Own(h, X)
  BY <1>1, <1>2, OwnSame
<1> QED  BY <1>3 DEF Notes, Kept

(* Two changes of the vpmap are one. *)
LEMMA NotesTrans ==
    ASSUME NEW g, NEW h, NEW k, NEW m, Notes(g, h, m), Notes(h, k, m)
    PROVE  Notes(g, k, m)
BY DEF Notes

WithVp(g, m, v) == [g EXCEPT !.msg[m].vp = v]

(* What the vpmap of a message is replaced by does not matter to this. *)
LEMMA WithVpIs ==
    ASSUME NEW g \in Manager, NEW m \in Msg, NEW v \in Mapping, NEW h, h = WithVp(g, m, v)
    PROVE  Notes(g, h, m) /\ h.msg[m].vp = v
<1>1. g.msg \in [Msg -> Envelope] /\ g.msg[m] \in Envelope
  BY ManagerIs
<1> DEFINE e == g.msg[m]  z == [e EXCEPT !.vp = v]
<1>2. z \in Envelope /\ z.tlvs = e.tlvs /\ z.frag = e.frag /\ z.data = e.data
      /\ z.missing = e.missing /\ z.vp = v
  <2>1. e \in Envelope
    BY <1>1
  <2> HIDE DEF e
  <2> QED  BY <2>1 DEF Envelope
<1>3. /\ h.msgs = g.msgs /\ h.free = g.free /\ h.prm = g.prm /\ h.msg = [g.msg EXCEPT ![m] = z]
      /\ h = [msgs |-> h.msgs, free |-> h.free, prm |-> h.prm, msg |-> h.msg]
  BY <1>1 DEF Manager, WithVp
<1> HIDE DEF z, e
<1>4. h.msg[m] = z /\ \A o \in Msg \ {m} : h.msg[o] = g.msg[o]
  BY <1>1, <1>3
<1>5. h \in Manager
  <2>1. h.msg \in [Msg -> Envelope]
    BY <1>1, <1>2, <1>3
  <2> QED  BY <1>3, <2>1, ManagerIs DEF Manager
<1> QED  BY <1>2, <1>3, <1>4, <1>5 DEF Notes, e

(* No change at all is a change of the vpmap too. *)
LEMMA NotesSame ==
    ASSUME NEW g \in Manager, NEW m
    PROVE  Notes(g, g, m)
BY DEF Notes

(* w is v with c under key k. *)
Puts(v, w, k, c) == DOMAIN w = DOMAIN v \cup {k} /\ w[k] = c /\ \A x \in DOMAIN v \ {k} : w[x] = v[x]

(* Set() puts one value under one key. *)
LEMMA SetIs ==
    ASSUME NEW v \in Mapping, NEW k \in Id \X Nat, NEW c \in Seq(Chunk), NEW w, w = Set(v, k, c)
    PROVE  w \in Mapping /\ Puts(v, w, k, c)
<1>1. DOMAIN v \in Keys /\ \A x \in DOMAIN v : v[x] \in Seq(Chunk)
  BY MappingIs
<1>2. Puts(v, w, k, c) /\ w = [x \in DOMAIN w |-> w[x]]
  BY DEF Set, Puts
<1>3. DOMAIN w \in Keys
  <2>1. IsFiniteSet(DOMAIN v \cup {k})
    BY <1>1, FS_Union, FS_Singleton DEF Keys
  <2> QED  BY <1>1, <1>2, <2>1 DEF Keys, Puts
<1>4. \A x \in DOMAIN w : w[x] \in Seq(Chunk)
  BY <1>1, <1>2 DEF Puts
<1>5. w \in [DOMAIN w -> Seq(Chunk)]
  BY <1>2, <1>4
<1> QED  BY <1>2, <1>3, <1>5, MappingIs

(* The piece of a parameter is of its type. *)
LEMMA PieceIs ==
    ASSUME NEW g \in Manager, NEW p \in Param
    PROVE  Piece(g, p) \in Chunk /\ <<Piece(g, p)>> \in Seq(Chunk)
<1>1. g.prm[p] \in Object
  BY ManagerIs
<1>2. Piece(g, p) \in Chunk
  BY <1>1 DEF Object, Piece, Chunk
<1> QED  BY <1>2

(* vpmap.set_octets() *)
LEMMA SetOctetsIs ==
    ASSUME NEW g \in Manager, NEW m \in Msg, NEW p \in Param, NEW k \in Nat,
           NEW i \in Id, g.prm[p].id = i, NEW h, h = SetOctets(g, m, p, k)
    PROVE  /\ Notes(g, h, m)
           /\ IF p[1] # "variant" THEN h.msg[m].vp = g.msg[m].vp
              ELSE Puts(g.msg[m].vp, h.msg[m].vp, <<i, k>>, <<Piece(g, p)>>)
<1>1. CASE p[1] # "variant"
  <2>1. h = g
    BY <1>1 DEF SetOctets
  <2> QED  BY <1>1, <2>1, NotesSame
<1>2. CASE p[1] = "variant"
  <2> DEFINE v == g.msg[m].vp  w == Set(v, <<i, k>>, <<Piece(g, p)>>)
  <2>1. h = WithVp(g, m, w)
    BY <1>2 DEF SetOctets, WithVp
  <2>2. v \in Mapping
    <3>1. g.msg[m] \in Envelope
      BY ManagerIs
    <3> QED  BY <3>1 DEF Envelope
  <2> HIDE DEF v
  <2>3. w \in Mapping /\ Puts(v, w, <<i, k>>, <<Piece(g, p)>>)
    BY <2>2, PieceIs, SetIs
  <2> HIDE DEF w
  <2>4. Notes(g, h, m) /\ h.msg[m].vp = w
    BY <2>1, <2>3, WithVpIs
  <2> QED  BY <1>2, <2>3, <2>4 DEF v
<1> QED  BY <1>1, <1>2

(* set_pointer() *)
LEMMA SetPointerIs ==
    ASSUME NEW g \in Manager, NEW m \in Msg, NEW p \in Param,
           NEW i \in Id, g.prm[p].id = i, NEW h, h = SetPointer(g, m, p)
    PROVE  /\ Notes(g, h, m)
           /\ IF <<i, 0>> \in DOMAIN g.msg[m].vp THEN h.msg[m].vp = g.msg[m].vp
              ELSE Puts(g.msg[m].vp, h.msg[m].vp, <<i, 0>>, g.msg[m].data)
<1> DEFINE v == g.msg[m].vp  d == g.msg[m].data  k == <<i, 0>>
           w == IF k \in DOMAIN v THEN v ELSE Set(v, k, d)
<1>1. h = WithVp(g, m, w)
  BY DEF SetPointer, WithVp
<1>2. v \in Mapping /\ d \in Seq(Chunk) /\ k \in Id \X Nat
  <2>1. g.msg[m] \in Envelope
    BY ManagerIs
  <2> QED  BY <2>1 DEF Envelope
<1> HIDE DEF v, d, k
<1>3. CASE k \in DOMAIN v
  <2>1. w = v
    BY <1>3
  <2> HIDE DEF w
  <2>2. Notes(g, h, m) /\ h.msg[m].vp = w
    BY <1>1, <1>2, <2>1, WithVpIs
  <2> QED  BY <1>3, <2>1, <2>2 DEF v, k
<1>4. CASE k \notin DOMAIN v
  <2>1. w = Set(v, k, d)
    BY <1>4
  <2> HIDE DEF w
  <2>2. w \in Mapping /\ Puts(v, w, k, d)
    BY <1>2, <2>1, SetIs
  <2>3. Notes(g, h, m) /\ h.msg[m].vp = w
    BY <1>1, <2>2, WithVpIs
  <2> QED  BY <1>4, <2>2, <2>3 DEF v, k, d
<1> QED  BY <1>3, <1>4

(* The pieces of value i that vpmap v has, in their order. *)
Indices(v, i) == {q \in Nat : <<i, q>> \in DOMAIN v}
Merged(v, i) == LET s == InOrder(Indices(v, i))
                IN FlattenSeq([n \in DOMAIN s |-> v[<<i, s[n]>>]])

(* The fragment indices of a value are those of its keys. *)
LEMMA IndicesIs ==
    ASSUME NEW v \in Mapping, NEW i \in Id
    PROVE  /\ Indices(v, i) \in SUBSET Nat /\ IsFiniteSet(Indices(v, i))
           /\ Indices(v, i) = {k[2] : k \in {k \in DOMAIN v : k[1] = i}}
<1>1. DOMAIN v \in SUBSET (Id \X Nat) /\ IsFiniteSet(DOMAIN v)
  BY MappingIs DEF Keys
<1>2. Indices(v, i) = {k[2] : k \in {k \in DOMAIN v : k[1] = i}}
  <2>1. ASSUME NEW q \in Indices(v, i) PROVE q \in {k[2] : k \in {k \in DOMAIN v : k[1] = i}}
    <3>1. <<i, q>> \in {k \in DOMAIN v : k[1] = i} /\ <<i, q>>[2] = q
      BY DEF Indices
    <3> QED  BY <3>1
  <2>2. ASSUME NEW k \in DOMAIN v, k[1] = i PROVE k[2] \in Indices(v, i)
    <3>1. k = <<k[1], k[2]>> /\ k[2] \in Nat
      BY <1>1
    <3> QED  BY <2>2, <3>1 DEF Indices
  <2> QED  BY <2>1, <2>2
<1>3. IsFiniteSet({k[2] : k \in {k \in DOMAIN v : k[1] = i}})
  <2> DEFINE S == {k \in DOMAIN v : k[1] = i}
  <2>1. IsFiniteSet(S)
    BY <1>1, FS_Subset
  <2> HIDE DEF S
  <2> DEFINE T == {k[2] : k \in S}  u == [k \in S |-> k[2]]
  <2>3. u \in Surjection(S, T)
    BY DEF Surjection
  <2> HIDE DEF T, u
  <2>4. IsFiniteSet(T)
    BY <2>1, <2>3, FS_Surjection
  <2>2. IsFiniteSet({k[2] : k \in S})
    BY <2>4 DEF T
  <2> QED  BY <2>2 DEF S
<1> QED  BY <1>2, <1>3 DEF Indices

(* If the indices are 0 .. n, the pieces are joined in that order. *)
LEMMA MergedIs ==
    ASSUME NEW v \in Mapping, NEW i \in Id
    PROVE  /\ Merged(v, i) \in Seq(Chunk)
           /\ \A n \in Nat : \A c \in [1 .. n + 1 -> Chunk] :
                (\A q \in Nat : <<i, q>> \in DOMAIN v <=> q <= n)
                /\ (\A q \in 0 .. n : v[<<i, q>>] = <<c[q + 1]>>) => Merged(v, i) = c
<1> DEFINE S == Indices(v, i)  s == InOrder(S)  l == Len(s)  u == [n \in 1 .. l |-> v[<<i, s[n]>>]]
<1>1. s \in Seq(S) /\ l \in Nat /\ DOMAIN s = 1 .. l
  <2>1. S \in SUBSET Nat /\ IsFiniteSet(S)
    BY IndicesIs
  <2> HIDE DEF S
  <2> QED  BY <2>1, InOrderIs
<1>2. Merged(v, i) = FlattenSeq(u)
  BY <1>1 DEF Merged
<1>3. \A n \in 1 .. l : s[n] \in Nat /\ <<i, s[n]>> \in DOMAIN v
  <2>1. \A n \in 1 .. l : s[n] \in S
    <3> HIDE DEF S, s, l
    <3> QED  BY <1>1
  <2> QED  BY <2>1 DEF Indices
<1>4. u \in [1 .. l -> Seq(Chunk)]
  <2>1. \A n \in 1 .. l : v[<<i, s[n]>>] \in Seq(Chunk)
    <3> HIDE DEF s, l
    <3> QED  BY <1>3, MappingIs
  <2> HIDE DEF s, l
  <2> QED  BY <2>1
<1>5. Merged(v, i) \in Seq(Chunk)
  <2> HIDE DEF u, l
  <2>1. PICK r : IsRun(r, "join", 0, l, u, <<>>) /\ FlattenSeq(u) = r[l]
    BY <1>1, <1>4, FlattenRun
  <2> DEFINE T == {k \in 0 .. l : r[k] \in Seq(Chunk)}
  <2>2. 0 \in T
    <3>1. r[0] = <<>>
      BY <2>1 DEF IsRun
    <3>2. <<>> \in Seq(Chunk) /\ 0 \in 0 .. l
      BY <1>1
    <3>3. r[0] \in Seq(Chunk)
      BY <3>1, <3>2
    <3> QED  BY <3>2, <3>3
  <2>3. ASSUME NEW k \in 0 .. l - 1, k \in T PROVE k + 1 \in T
    <3>1. k + 1 \in 1 .. l /\ k + 1 \in 0 .. l
      BY <1>1
    <3>2. r[k + 1] = r[k] \o u[k + 1]
      BY <2>1 DEF IsRun, Does
    <3>3. u[k + 1] \in Seq(Chunk)
      BY <1>4, <3>1
    <3> DEFINE a == r[k]  b == u[k + 1]
    <3>4. a \in Seq(Chunk) /\ b \in Seq(Chunk) /\ r[k + 1] = a \o b
      BY <2>3, <3>2, <3>3
    <3> HIDE DEF a, b
    <3>5. r[k + 1] \in Seq(Chunk)
      BY <3>4, JoinIs
    <3> QED  BY <3>1, <3>5
  <2> HIDE DEF T
  <2>4. \A k \in 0 .. l : k \in T
    BY <1>1, <2>2, <2>3, AllUpTo
  <2>5. r[l] \in Seq(Chunk)
    BY <1>1, <2>4 DEF T
  <2> QED  BY <1>2, <2>1, <2>5
<1>6. ASSUME NEW n \in Nat, NEW c \in [1 .. n + 1 -> Chunk],
             \A q \in Nat : <<i, q>> \in DOMAIN v <=> q <= n,
             \A q \in 0 .. n : v[<<i, q>>] = <<c[q + 1]>>
      PROVE  Merged(v, i) = c
  <2>1. S = 0 .. n
    BY <1>6 DEF Indices
  <2>2. InOrder(0 .. n) = [k \in 1 .. n + 1 |-> k - 1]
    BY InOrderUpTo
  <2>3. s = [k \in 1 .. n + 1 |-> k - 1]
    BY <2>1, <2>2
  <2> HIDE DEF s, S
  <2>4. l = n + 1 /\ \A k \in 1 .. n + 1 : s[k] = k - 1
    BY <1>1, <2>3
  <2> HIDE DEF l
  <2>5. \A k \in 1 .. n + 1 : v[<<i, s[k]>>] = <<c[k]>>
    <3> SUFFICES ASSUME NEW k \in 1 .. n + 1 PROVE v[<<i, s[k]>>] = <<c[k]>>
      OBVIOUS
    <3>1. k - 1 \in 0 .. n /\ (k - 1) + 1 = k /\ s[k] = k - 1
      BY <2>4
    <3>2. v[<<i, k - 1>>] = <<c[(k - 1) + 1]>>
      BY <1>6, <3>1
    <3> QED  BY <3>1, <3>2
  <2>6. u = [k \in 1 .. n + 1 |-> <<c[k]>>]
    BY <2>4, <2>5
  <2> HIDE DEF u
  <2> DEFINE o == n + 1
  <2>7. o \in Nat /\ c \in [1 .. o -> Chunk] /\ u = [k \in 1 .. o |-> <<c[k]>>]
    BY <2>6
  <2> HIDE DEF o
  <2>8. FlattenSeq(u) = c
    BY <2>7, FlattenOnes
  <2> QED  BY <1>2, <2>8
<1> QED  BY <1>5, <1>6

(* w is v with the pieces of value i made one. *)
Merges(v, w, i) ==
    /\ DOMAIN w = {k \in DOMAIN v : k[1] # i} \cup {<<i, 0>>}
    /\ w[<<i, 0>>] = Merged(v, i)
    /\ \A k \in DOMAIN v : k[1] # i => w[k] = v[k]

(* vpmap.defragment() *)
LEMMA DefragmentIs ==
    ASSUME NEW g \in Manager, NEW m \in Msg, NEW p \in Param,
           NEW i \in Id, g.prm[p].id = i, NEW h, h = Defragment(g, m, p)
    PROVE  /\ Notes(g, h, m)
           /\ IF p[1] # "variant" \/ <<i, 0>> \notin DOMAIN g.msg[m].vp THEN h.msg[m].vp = g.msg[m].vp
              ELSE Merges(g.msg[m].vp, h.msg[m].vp, i)
<1> DEFINE v == g.msg[m].vp  ks == {k \in DOMAIN v : k[1] = i}
           w == Set(Restrict(v, DOMAIN v \ ks), <<i, 0>>, Merged(v, i))
<1>1. v \in Mapping
  <2>1. g.msg[m] \in Envelope
    BY ManagerIs
  <2> QED  BY <2>1 DEF Envelope
<1>2. <<i, 0>> \in ks <=> <<i, 0>> \in DOMAIN v
  OBVIOUS
<1>3. CASE p[1] # "variant" \/ <<i, 0>> \notin DOMAIN v
  <2>1. h = g
    BY <1>2, <1>3 DEF Defragment
  <2> QED  BY <1>3, <2>1, NotesSame
<1>4. CASE ~ (p[1] # "variant" \/ <<i, 0>> \notin DOMAIN v)
  <2> DEFINE s == InOrder({k[2] : k \in ks})
             u == FlattenSeq([n \in DOMAIN s |-> v[<<i, s[n]>>]])
  <2>1. u = Merged(v, i)
    <3>1. Indices(v, i) = {k[2] : k \in ks}
      BY <1>1, IndicesIs
    <3> HIDE DEF v, ks
    <3> QED  BY <3>1 DEF Merged
  <2>2. h = [g EXCEPT !.msg[m].vp = Set(Restrict(v, DOMAIN v \ ks), <<i, 0>>, u)]
    BY <1>2, <1>4 DEF Defragment
  <2>3. h = WithVp(g, m, w)
    BY <2>1, <2>2 DEF WithVp
  <2> DEFINE z == Restrict(v, DOMAIN v \ ks)
  <2>4. z \in Mapping /\ DOMAIN z = DOMAIN v \ ks /\ \A k \in DOMAIN v \ ks : z[k] = v[k]
    <3>1. DOMAIN z = DOMAIN v \ ks /\ z = [k \in DOMAIN z |-> z[k]] /\ \A k \in DOMAIN v \ ks : z[k] = v[k]
      BY DEF Restrict
    <3> HIDE DEF z
    <3>2. DOMAIN v \in Keys /\ \A k \in DOMAIN v : v[k] \in Seq(Chunk)
      <4> HIDE DEF v
      <4> QED  BY <1>1, MappingIs
    <3> HIDE DEF ks, v
    <3>3. DOMAIN z \in Keys
      BY <3>1, <3>2, FS_Subset DEF Keys
    <3>4. \A k \in DOMAIN z : z[k] \in Seq(Chunk)
      BY <3>1, <3>2
    <3>5. z \in [DOMAIN z -> Seq(Chunk)]
      BY <3>1, <3>4
    <3>6. z \in Mapping
      BY <3>3, <3>5, MappingIs
    <3> QED  BY <3>1, <3>6
  <2>5. w = Set(z, <<i, 0>>, Merged(v, i))
    OBVIOUS
  <2> HIDE DEF z, w
  <2> DEFINE key == <<i, 0>>  c == Merged(v, i)
  <2>6. key \in Id \X Nat /\ c \in Seq(Chunk)
    <3>1. key \in Id \X Nat
      OBVIOUS
    <3> HIDE DEF v, key
    <3> QED  BY <1>1, <3>1, MergedIs
  <2>7. w = Set(z, key, c)
    BY <2>5
  <2> HIDE DEF key, c
  <2>8. w \in Mapping /\ Puts(z, w, key, c)
    BY <2>4, <2>6, <2>7, SetIs
  <2>9. Notes(g, h, m) /\ h.msg[m].vp = w
    BY <2>3, <2>8, WithVpIs
  <2>10. Merges(v, w, i)
    <3>1. /\ DOMAIN w = (DOMAIN v \ ks) \cup {<<i, 0>>} /\ w[<<i, 0>>] = Merged(v, i)
          /\ \A x \in DOMAIN v \ ks : x # <<i, 0>> => w[x] = v[x]
      BY <2>4, <2>8 DEF Puts, key, c
    <3>2. \A k \in DOMAIN v : k \in ks <=> k[1] = i
      OBVIOUS
    <3>3. DOMAIN v \ ks = {k \in DOMAIN v : k[1] # i}
      OBVIOUS
    <3>4. \A k \in DOMAIN v : k[1] # i => k # <<i, 0>>
      OBVIOUS
    <3> HIDE DEF ks, v
    <3> QED  BY <3>1, <3>2, <3>3, <3>4 DEF Merges
  <2> QED  BY <1>4, <2>9, <2>10
<1> QED  BY <1>3, <1>4

-----------------------------------------------------------------------------
(* the parameters of a message, *)

(* Message m takes p, which was in hand, as a value or as frag_param. *)
Joins(g, h, m, p) ==
    /\ g.msgs[m] = 0 /\ h.msgs = g.msgs /\ h.free = g.free
    /\ \A o \in Msg \ {m} : h.msg[o] = g.msg[o]
    /\ \A x \in Param : h.prm[x].linked = g.prm[x].linked
    /\ \A x \in Param \ {p} : h.prm[x] = g.prm[x]
    /\ \/ h.msg[m].tlvs = Append(g.msg[m].tlvs, p) /\ h.msg[m].frag = g.msg[m].frag
       \/ h.msg[m].tlvs = g.msg[m].tlvs /\ g.msg[m].frag = NoParam /\ h.msg[m].frag = p

(* The message takes over the parameter that was in hand. *)
LEMMA JoinsIs ==
    ASSUME NEW g, NEW p \in Param, Own(g, {p}), NEW m \in Msg, NEW h \in Manager, Joins(g, h, m, p)
    PROVE  Own(h, {}) /\ Kept(g, h, m)
<1>0. g \in Manager
  BY DEF Own
<1>1. /\ g.msgs[m] = 0 /\ h.msgs = g.msgs /\ h.free = g.free
      /\ \A o \in Msg \ {m} : h.msg[o] = g.msg[o]
      /\ \A x \in Param : h.prm[x].linked = g.prm[x].linked
      /\ \A x \in Param \ {p} : h.prm[x] = g.prm[x]
  BY DEF Joins
<1>2. /\ \A o \in Msg : p \notin Pile(g, o) /\ Pile(g, o) \in SUBSET Param
      /\ g.prm[p].linked = <<>> /\ g.free[p] = 0 /\ Proper(g, m)
  BY <1>0, <1>1, PileIs DEF Own
<1>3. Kept(g, h, m)
  <2> SUFFICES ASSUME NEW o \in Msg \ {m}, NEW x \in Pile(g, o) PROVE h.prm[x] = g.prm[x]
    BY <1>1 DEF Kept
  <2>1. x \in Param \ {p}
    BY <1>2
  <2> QED  BY <1>1, <2>1
<1>4. Tops(g, m) \in SUBSET Param /\ Tops(g, m) \in SUBSET Pile(g, m) /\ p \notin Tops(g, m)
      /\ g.msg[m].tlvs \in Seq(Param) /\ Pile(g, m) = HeldBy(g, m)
  BY <1>0, <1>1, <1>2, ManagerIs, PileIs DEF Pile
<1>5. /\ Tops(h, m) = Tops(g, m) \cup {p}
      /\ IsInjective(h.msg[m].tlvs) /\ h.msg[m].frag \notin Range(h.msg[m].tlvs)
      /\ h.msg[m].frag # NoParam => h.prm[h.msg[m].frag].linked = <<>>
  <2>1. p \notin Range(g.msg[m].tlvs) /\ (g.msg[m].frag # NoParam => p # g.msg[m].frag) /\ p # NoParam
    BY <1>4, NoParamIs DEF Tops
  <2>2. /\ IsInjective(g.msg[m].tlvs) /\ g.msg[m].frag \notin Range(g.msg[m].tlvs)
        /\ g.msg[m].frag # NoParam => g.prm[g.msg[m].frag].linked = <<>> /\ g.msg[m].frag \in Param
    BY <1>0, <1>2, ManagerIs DEF Proper
  <2>3. CASE h.msg[m].tlvs = Append(g.msg[m].tlvs, p) /\ h.msg[m].frag = g.msg[m].frag
    <3>1. IsInjective(h.msg[m].tlvs) /\ Range(h.msg[m].tlvs) = Range(g.msg[m].tlvs) \cup {p}
      BY <1>4, <2>1, <2>2, <2>3, FreshEnds
    <3>2. h.msg[m].frag # p
      BY <2>1, <2>3
    <3> QED  BY <1>1, <2>2, <2>3, <3>1, <3>2 DEF Tops
  <2>4. CASE h.msg[m].tlvs = g.msg[m].tlvs /\ g.msg[m].frag = NoParam /\ h.msg[m].frag = p
    BY <1>1, <1>2, <2>1, <2>2, <2>4 DEF Tops
  <2> QED  BY <2>3, <2>4 DEF Joins
<1>6. /\ Cluster(h, p) = {p} /\ \A x \in Tops(g, m) : Cluster(h, x) = Cluster(g, x)
      /\ \A x \in Tops(g, m) : Cluster(g, x) \in SUBSET Pile(g, m)
  <2>1. Range(<<>>) = {}
    BY DEF Range
  <2>2. \A x \in Tops(g, m) : Cluster(g, x) \in SUBSET Pile(g, m)
    BY <1>4 DEF HeldBy
  <2> QED  BY <1>1, <1>2, <1>4, <2>1, <2>2 DEF Cluster
<1>7. Pile(h, m) = Pile(g, m) \cup {p}
  <2>1. Pile(h, m) = HeldBy(h, m)
    BY <1>1 DEF Pile
  <2> QED  BY <1>4, <1>5, <1>6, <2>1 DEF HeldBy
<1>8. Proper(h, m)
  <2>1. \A x \in Tops(h, m) : IsInjective(h.prm[x].linked) /\ x \notin Range(h.prm[x].linked)
    <3>1. IsInjective(<<>>) /\ Range(<<>>) = {}
      BY DEF IsInjective, Range
    <3> QED  BY <1>1, <1>2, <1>4, <1>5, <3>1 DEF Proper
  <2>2. \A x, y \in Tops(h, m) : x # y => Cluster(h, x) \cap Cluster(h, y) = {}
    <3>1. \A x, y \in Tops(g, m) : x # y => Cluster(g, x) \cap Cluster(g, y) = {}
      BY <1>2 DEF Proper
    <3>2. \A x \in Tops(g, m) : p \notin Cluster(g, x)
      BY <1>2, <1>6
    <3> QED  BY <1>5, <1>6, <3>1, <3>2
  <2> QED  BY <1>5, <2>1, <2>2 DEF Proper
<1>9. \A o \in Msg \ {m} : Pile(g, o) \cap Pile(g, m) = {}
  BY DEF Own
<1>10. \A x \in Mine(g, m) : h.free[x] = 0 <=> x \in {} \/ x \in Pile(h, m)
  <2> SUFFICES ASSUME NEW x \in Mine(g, m) PROVE g.free[x] = 0 <=> x = p \/ x \in Pile(g, m)
    BY <1>1, <1>7
  <2>1. x \in Param /\ \A o \in Msg \ {m} : x \notin Pile(g, o)
    BY DEF Mine
  <2>2. g.free[x] = 0 <=> x \in {p} \/ \E o \in Msg : x \in Pile(g, o)
    BY <2>1 DEF Own
  <2> QED  BY <2>1, <2>2
<1>11. \A x \in Mine(g, m) : h.free[x] = 1 \/ x \in {} => h.prm[x].linked = <<>>
  BY <1>1 DEF Own, Mine
<1>12. p \in Mine(g, m) /\ Pile(g, m) \in SUBSET Mine(g, m)
  BY <1>2, <1>9 DEF Mine
<1>13. Own(h, {})
  <2> DEFINE Y == {}
  <2>1. /\ Y \in SUBSET Mine(g, m) /\ Pile(h, m) \cap Y = {}
        /\ \A x \in Mine(g, m) : h.free[x] = 0 <=> x \in Y \/ x \in Pile(h, m)
        /\ \A x \in Mine(g, m) : h.free[x] = 1 \/ x \in Y => h.prm[x].linked = <<>>
    BY <1>10, <1>11
  <2> HIDE DEF Y
  <2>2. Again(g, h, m, Y)
    BY <1>1, <1>3, <1>7, <1>8, <1>12, <2>1 DEF Again
  <2>3. Own(h, Y)
    BY <2>2, OwnAgain
  <2> QED  BY <2>3 DEF Y
<1> QED  BY <1>3, <1>13

(* A parameter in hand goes back to its pool. *)
LEMMA ReleasedIs ==
    ASSUME NEW g, NEW X, Own(g, X), NEW p \in X, NEW h, h = FreeParam(g, p)
    PROVE  /\ Own(h, X \ {p}) /\ h.msgs = g.msgs /\ h.msg = g.msg
           /\ \A x \in Param \ {p} : h.prm[x] = g.prm[x]
           /\ \A m : Kept(g, h, m)
<1>0. g \in Manager /\ p \in Param /\ g.free[p] = 0 /\ \A o \in Msg : p \notin Pile(g, o)
  BY DEF Own
<1>1. /\ h \in Manager /\ h.msgs = g.msgs /\ h.msg = g.msg
      /\ h.free = [g.free EXCEPT ![p] = 1] /\ h.prm = [g.prm EXCEPT ![p] = Reset(g, p)]
  BY <1>0, FreeParamIs
<1>2. Reset(g, p).linked = <<>>
  BY <1>0, ResetIs
<1>3. /\ h.free[p] = 1 /\ h.prm[p].linked = <<>>
      /\ \A x \in Param \ {p} : h.free[x] = g.free[x] /\ h.prm[x] = g.prm[x]
  BY <1>0, <1>1, <1>2, ManagerIs
<1>4. \A m : Kept(g, h, m)
  <2>1. \A o \in Msg : \A x \in Pile(g, o) : h.prm[x] = g.prm[x]
    BY <1>0, <1>3, PileIs
  <2> QED  BY <1>1, <2>1 DEF Kept
<1>5. \A o \in Msg : Pile(h, o) = Pile(g, o) /\ (g.msgs[o] = 0 /\ Proper(g, o) => Proper(h, o))
  <2> SUFFICES ASSUME NEW o \in Msg
               PROVE  Pile(h, o) = Pile(g, o) /\ (g.msgs[o] = 0 /\ Proper(g, o) => Proper(h, o))
    OBVIOUS
  <2>1. Kept(g, h, 0) /\ o \in Msg \ {0}
    BY <1>4, ConstantsAssumption
  <2> QED  BY <1>0, <2>1, KeptPile
<1>6. \A o \in Msg : IF h.msgs[o] = 0 THEN Proper(h, o) ELSE h.msg[o].tlvs = <<>>
  BY <1>1, <1>5 DEF Own
<1>7. \A x \in Param : h.free[x] = 0 <=> x \in X \ {p} \/ \E o \in Msg : x \in Pile(h, o)
  <2> SUFFICES ASSUME NEW x \in Param
               PROVE  h.free[x] = 0 <=> x \in X \ {p} \/ \E o \in Msg : x \in Pile(g, o)
    BY <1>5
  <2>1. g.free[x] = 0 <=> x \in X \/ \E o \in Msg : x \in Pile(g, o)
    BY DEF Own
  <2>2. CASE x = p
    BY <1>0, <1>3, <2>2
  <2>3. CASE x # p
    BY <1>3, <2>1, <2>3
  <2> QED  BY <2>2, <2>3
<1>8. \A x \in Param : h.free[x] = 1 \/ x \in X \ {p} => h.prm[x].linked = <<>>
  BY <1>3 DEF Own
<1>9. /\ X \ {p} \in SUBSET Param
      /\ \A m, o \in Msg : m # o => Pile(h, m) \cap Pile(h, o) = {}
      /\ \A m \in Msg : Pile(h, m) \cap (X \ {p}) = {}
  BY <1>5 DEF Own
<1> DEFINE Y == X \ {p}
<1>10. Own(h, Y)
  <2>1. /\ h \in Manager /\ Y \in SUBSET Param
        /\ \A o \in Msg : IF h.msgs[o] = 0 THEN Proper(h, o) ELSE h.msg[o].tlvs = <<>>
        /\ \A m, o \in Msg : m # o => Pile(h, m) \cap Pile(h, o) = {}
        /\ \A m \in Msg : Pile(h, m) \cap Y = {}
        /\ \A x \in Param : h.free[x] = 0 <=> x \in Y \/ \E m \in Msg : x \in Pile(h, m)
        /\ \A x \in Param : h.free[x] = 1 \/ x \in Y => h.prm[x].linked = <<>>
    BY <1>1, <1>6, <1>7, <1>8, <1>9
  <2> HIDE DEF Y
  <2> QED  BY <2>1 DEF Own
<1> QED  BY <1>1, <1>3, <1>4, <1>10

Parted(g, m) == [g EXCEPT !.msg[m].frag = NoParam]

(* frag_param leaves its message and is in hand. *)
LEMMA PartedIs ==
    ASSUME NEW g, Own(g, {}), NEW m \in Msg, g.msgs[m] = 0, NEW f, f = g.msg[m].frag, f # NoParam,
           NEW h, h = Parted(g, m)
    PROVE  /\ Own(h, {f}) /\ Kept(g, h, m) /\ h.msgs = g.msgs /\ h.prm = g.prm /\ h.free = g.free
           /\ h.msg = [g.msg EXCEPT ![m].frag = NoParam]
           /\ h.msg[m].tlvs = g.msg[m].tlvs /\ h.msg[m].frag = NoParam
           /\ h.msg[m].vp = g.msg[m].vp /\ h.msg[m].missing = g.msg[m].missing
<1>0. g \in Manager /\ f \in Param
  BY ManagerIs DEF Own
<1>1. g.msg \in [Msg -> Envelope] /\ g.msg[m] \in Envelope
  BY <1>0, ManagerIs
<1> DEFINE e == g.msg[m]  z == [e EXCEPT !.frag = NoParam]
<1>2. z \in Envelope /\ z.tlvs = e.tlvs /\ z.frag = NoParam /\ z.vp = e.vp /\ z.missing = e.missing
  <2>1. e \in Envelope
    BY <1>1
  <2> HIDE DEF e
  <2> QED  BY <2>1 DEF Envelope
<1>3. /\ h.msgs = g.msgs /\ h.free = g.free /\ h.prm = g.prm /\ h.msg = [g.msg EXCEPT ![m] = z]
      /\ h = [msgs |-> h.msgs, free |-> h.free, prm |-> h.prm, msg |-> h.msg]
      /\ h.msg = [g.msg EXCEPT ![m].frag = NoParam]
  BY <1>0, <1>1 DEF Manager, Parted
<1> HIDE DEF z, e
<1>4. h.msg[m] = z /\ \A o \in Msg \ {m} : h.msg[o] = g.msg[o]
  BY <1>1, <1>3
<1>5. h \in Manager
  <2>1. h.msg \in [Msg -> Envelope]
    BY <1>1, <1>2, <1>3
  <2> QED  BY <1>0, <1>3, <2>1, ManagerIs DEF Manager
<1>6. Kept(g, h, m)
  BY <1>3, <1>4 DEF Kept
<1>7. Tops(g, m) = Range(g.msg[m].tlvs) \cup {f} /\ Tops(h, m) = Range(g.msg[m].tlvs)
  BY <1>2, <1>4 DEF Tops, e
<1>8. Proper(g, m) /\ Tops(g, m) \in SUBSET Pile(g, m) /\ Pile(g, m) = HeldBy(g, m)
      /\ Pile(g, m) \in SUBSET Param
  BY <1>0, PileIs DEF Own, Pile
<1>9. f \notin Range(g.msg[m].tlvs) /\ g.prm[f].linked = <<>> /\ Cluster(g, f) = {f}
  <2>1. Range(<<>>) = {}
    BY DEF Range
  <2> QED  BY <1>8, <2>1 DEF Proper, Cluster
<1>10. \A x : Cluster(h, x) = Cluster(g, x)
  BY <1>3 DEF Cluster
<1>11. Pile(h, m) = Pile(g, m) \ {f}
  <2> DEFINE R == Range(g.msg[m].tlvs)
  <2>1. \A x : x \in Pile(h, m) <=> \E y \in R : x \in Cluster(g, y)
    BY <1>3, <1>7, <1>10 DEF Pile, HeldBy
  <2>2. \A x : x \in Pile(g, m) <=> \E y \in Tops(g, m) : x \in Cluster(g, y)
    BY <1>8 DEF HeldBy
  <2>3. \A x \in R : f \notin Cluster(g, x)
    BY <1>7, <1>8, <1>9 DEF Proper
  <2>4. Tops(g, m) = R \cup {f}
    BY <1>7
  <2> HIDE DEF R
  <2>5. \A x : x \in Pile(g, m) <=> x = f \/ \E y \in R : x \in Cluster(g, y)
    BY <1>9, <2>2, <2>4
  <2> QED  BY <2>1, <2>3, <2>5
<1>12. Proper(h, m)
  <2>1. NoParam \notin Range(g.msg[m].tlvs)
    BY <1>0, ManagerIs, NoParamIs
  <2> QED  BY <1>2, <1>3, <1>4, <1>7, <1>8, <1>10, <2>1 DEF Proper, e
<1>13. f \in Pile(g, m) /\ \A o \in Msg \ {m} : Pile(g, o) \cap Pile(g, m) = {}
  BY <1>7, <1>8 DEF Own
<1>14. Pile(g, m) \in SUBSET Mine(g, m)
  BY <1>8, <1>13 DEF Mine
<1>15. \A x \in Mine(g, m) : h.free[x] = 0 <=> x \in {f} \/ x \in Pile(h, m)
  <2> SUFFICES ASSUME NEW x \in Mine(g, m) PROVE g.free[x] = 0 <=> x \in Pile(g, m)
    BY <1>3, <1>11, <1>13
  <2>1. x \in Param /\ \A o \in Msg \ {m} : x \notin Pile(g, o)
    BY DEF Mine
  <2>2. g.free[x] = 0 <=> x \in {} \/ \E o \in Msg : x \in Pile(g, o)
    BY <2>1 DEF Own
  <2> QED  BY <2>1, <2>2
<1>16. \A x \in Mine(g, m) : h.free[x] = 1 \/ x \in {f} => h.prm[x].linked = <<>>
  BY <1>3, <1>9 DEF Own, Mine
<1>17. Again(g, h, m, {f})
  BY <1>3, <1>6, <1>11, <1>12, <1>13, <1>14, <1>15, <1>16 DEF Again
<1> DEFINE Y == {f}  N == {}
<1>18. Own(g, N) /\ Again(g, h, m, Y)
  BY <1>17
<1> HIDE DEF Y, N
<1>19. Own(h, Y)
  BY <1>5, <1>18, OwnAgain
<1> QED  BY <1>2, <1>3, <1>4, <1>6, <1>19 DEF Y, e

(* The last fragment: frag_param goes back to its pool. *)
Dropped(g, m, f) == [FreeParam(g, f) EXCEPT !.msg[m].frag = NoParam]

(* Message m lets go of frag_param, which is free then. *)
LEMMA DroppedIs ==
    ASSUME NEW g, Own(g, {}), NEW m \in Msg, g.msgs[m] = 0, NEW f, f = g.msg[m].frag, f # NoParam,
           NEW h, h = Dropped(g, m, f)
    PROVE  /\ Own(h, {}) /\ Kept(g, h, m) /\ h.msgs = g.msgs
           /\ \A x \in Param \ {f} : h.prm[x] = g.prm[x]
           /\ h.msg[m].tlvs = g.msg[m].tlvs /\ h.msg[m].frag = NoParam
           /\ h.msg[m].vp = g.msg[m].vp /\ h.msg[m].missing = g.msg[m].missing
<1> DEFINE u == Parted(g, m)  k == FreeParam(u, f)  v == FreeParam(g, f)
<1>0. g \in Manager /\ f \in Param /\ f \in Pile(g, m)
  <2>1. g \in Manager /\ f \in Param /\ f \in Tops(g, m)
    BY ManagerIs DEF Own, Tops
  <2> QED  BY <2>1, PileIs
<1>1. g.free[f] = 0
  BY <1>0 DEF Own
<1>2. /\ Own(u, {f}) /\ Kept(g, u, m) /\ u.msgs = g.msgs /\ u.prm = g.prm /\ u.free = g.free
      /\ u.msg = [g.msg EXCEPT ![m].frag = NoParam]
      /\ u.msg[m].tlvs = g.msg[m].tlvs /\ u.msg[m].frag = NoParam
      /\ u.msg[m].vp = g.msg[m].vp /\ u.msg[m].missing = g.msg[m].missing
  <2> HIDE DEF u
  <2>1. u = Parted(g, m)
    BY DEF u
  <2> QED  BY <2>1, PartedIs
<1> HIDE DEF u
<1> DEFINE X == {f}
<1>3. Own(u, X) /\ f \in X /\ u \in Manager /\ f \in Param /\ u.free[f] = 0
  BY <1>0, <1>1, <1>2 DEF Own
<1> HIDE DEF X
<1>4. /\ Own(k, X \ {f}) /\ k.msgs = u.msgs /\ k.msg = u.msg
      /\ \A x \in Param \ {f} : k.prm[x] = u.prm[x]
      /\ \A o : Kept(u, k, o)
  <2> HIDE DEF k
  <2>1. k = FreeParam(u, f)
    BY DEF k
  <2> QED  BY <1>3, <2>1, ReleasedIs
<1>5. /\ v \in Manager /\ v.msgs = g.msgs /\ v.msg = g.msg
      /\ v.free = [g.free EXCEPT ![f] = 1] /\ v.prm = [g.prm EXCEPT ![f] = Reset(g, f)]
  BY <1>0, <1>1, FreeParamIs
<1>6. /\ k \in Manager /\ k.msgs = u.msgs /\ k.msg = u.msg
      /\ k.free = [u.free EXCEPT ![f] = 1] /\ k.prm = [u.prm EXCEPT ![f] = Reset(u, f)]
  BY <1>3, FreeParamIs
<1>7. Reset(u, f) = Reset(g, f)
  BY <1>2 DEF Reset
<1>8. h = k
  <2> HIDE DEF v, k
  <2>1. h = [v EXCEPT !.msg[m].frag = NoParam]
    BY DEF Dropped, v
  <2>2. /\ h.msgs = v.msgs /\ h.free = v.free /\ h.prm = v.prm /\ h.msg = [v.msg EXCEPT ![m].frag = NoParam]
        /\ h = [msgs |-> h.msgs, free |-> h.free, prm |-> h.prm, msg |-> h.msg]
        /\ k = [msgs |-> k.msgs, free |-> k.free, prm |-> k.prm, msg |-> k.msg]
    BY <1>5, <1>6, <2>1 DEF Manager
  <2>3. h.msgs = k.msgs /\ h.free = k.free /\ h.prm = k.prm /\ h.msg = k.msg
    BY <1>2, <1>5, <1>6, <1>7, <2>2
  <2> QED  BY <2>2, <2>3
<1> HIDE DEF k
<1>9. X \ {f} = {}
  BY DEF X
<1>10. Kept(g, k, m)
  BY <1>0, <1>2, <1>4, KeptTrans
<1> QED  BY <1>2, <1>4, <1>8, <1>9, <1>10

(* A parameter taken for a piece t that has arrived. *)
ChunkOf(t) == [from |-> t.from, len |-> t.len]
Taken(g, h, m, p, t) ==
    /\ g.msgs[m] = 0 /\ p \in Param /\ p[1] = TypeOf(t.id) /\ t.id \in Id
    /\ Own(h, {p}) /\ Kept(g, h, m) /\ h.msgs = g.msgs /\ h.msg = g.msg
    /\ \A x \in Param \ {p} : h.prm[x] = g.prm[x]
    /\ h.prm[p].id = t.id /\ Piece(h, p) = ChunkOf(t) /\ p \notin Tops(g, m)

(* new_param() for a piece that has arrived. *)
LEMMA TakenIs ==
    ASSUME NEW g, Own(g, {}), NEW m \in Msg, g.msgs[m] = 0, NEW t \in Parts,
           Available(g, TypeOf(t.id)), NEW p, p = NextParam(g, TypeOf(t.id)),
           NEW h, h = NewParam(g, t.id, t.from, t.len)
    PROVE  Taken(g, h, m, p, t)
<1>1. t.id \in Id /\ t.from \in Nat /\ t.len \in Nat
  BY DEF Parts, DATA_SZ
<1> DEFINE i == t.id  a == t.from  b == t.len  X == {}
<1>2. i \in Id /\ a \in Nat /\ b \in Nat /\ Own(g, X) /\ Available(g, TypeOf(i))
      /\ p = NextParam(g, TypeOf(i)) /\ h = NewParam(g, i, a, b)
  BY <1>1
<1> HIDE DEF i, a, b, X
<1>3. Made(g, X, h, p, i, a, b)
  BY <1>2, NewParamIs
<1>4. X \cup {p} = {p}
  BY DEF X
<1>5. /\ p \in Param /\ p[1] = TypeOf(i)
      /\ Own(h, {p}) /\ Kept(g, h, m) /\ h.msgs = g.msgs /\ h.msg = g.msg
      /\ \A x \in Param \ {p} : h.prm[x] = g.prm[x]
      /\ h.prm[p].id = i /\ h.prm[p].from = a /\ h.prm[p].len = b /\ p \notin Pile(g, m)
  BY <1>3, <1>4 DEF Made
<1>6. Piece(h, p) = ChunkOf(t)
  BY <1>5 DEF Piece, ChunkOf, a, b
<1>7. p \notin Tops(g, m)
  BY <1>5, PileIs DEF Own
<1> QED  BY <1>2, <1>5, <1>6, <1>7 DEF Taken, i

Added(g, m, p) == [g EXCEPT !.msg[m].tlvs = Append(@, p)]
Begins(g, m, p) == [g EXCEPT !.msg[m].frag = p, !.prm[p].findex = 0, !.msg[m].data = <<Piece(g, p)>>]
Goes(g, m, f, p) == [g EXCEPT !.prm[f].findex = g.prm[f].findex + 1, !.msg[m].data = Append(@, Piece(g, p))]

(* A record for message m, and another one for parameter f. *)
Edited(g, m, e, f, q) == [g EXCEPT !.msg[m] = e, !.prm[f] = q]

(* The manager with the two records is a manager. *)
LEMMA EditedRecord ==
    ASSUME NEW g \in Manager, NEW m \in Msg, NEW e \in Envelope, NEW f \in Param, NEW q \in Object,
           NEW h, h = Edited(g, m, e, f, q)
    PROVE  h = [msgs |-> g.msgs, free |-> g.free,
                prm |-> [g.prm EXCEPT ![f] = q], msg |-> [g.msg EXCEPT ![m] = e]]
<1>1. /\ h.msgs = g.msgs /\ h.free = g.free /\ h.msg = [g.msg EXCEPT ![m] = e]
      /\ h.prm = [g.prm EXCEPT ![f] = q]
      /\ h = [msgs |-> h.msgs, free |-> h.free, prm |-> h.prm, msg |-> h.msg]
  BY DEF Manager, Edited
<1> QED  BY <1>1

(* Both records can be told from the others. *)
LEMMA EditedIs ==
    ASSUME NEW g \in Manager, NEW m \in Msg, NEW e \in Envelope, NEW f \in Param, NEW q \in Object,
           NEW h, h = Edited(g, m, e, f, q)
    PROVE  /\ h \in Manager /\ h.msgs = g.msgs /\ h.free = g.free
           /\ h.msg[m] = e /\ h.prm[f] = q
           /\ \A o \in Msg \ {m} : h.msg[o] = g.msg[o]
           /\ \A x \in Param \ {f} : h.prm[x] = g.prm[x]
<1>1. /\ h.msgs = g.msgs /\ h.free = g.free /\ h.msg = [g.msg EXCEPT ![m] = e]
      /\ h.prm = [g.prm EXCEPT ![f] = q]
      /\ h = [msgs |-> h.msgs, free |-> h.free, prm |-> h.prm, msg |-> h.msg]
  BY DEF Manager, Edited
<1>2. g.msg \in [Msg -> Envelope] /\ g.prm \in [Param -> Object]
  BY ManagerIs
<1>3. h.msg \in [Msg -> Envelope] /\ h.prm \in [Param -> Object]
  BY <1>1, <1>2
<1>4. h \in Manager
  BY <1>1, <1>3, ManagerIs DEF Manager
<1> QED  BY <1>1, <1>2, <1>4

(* WholeParam(): the parameter becomes one of the message. *)
LEMMA AddedIs ==
    ASSUME NEW g, NEW p \in Param, Own(g, {p}), NEW m \in Msg, g.msgs[m] = 0, NEW h, h = Added(g, m, p)
    PROVE  /\ Own(h, {}) /\ Kept(g, h, m) /\ h.msgs = g.msgs
           /\ \A x \in Param : h.prm[x] = g.prm[x]
           /\ h.msg[m].tlvs = Append(g.msg[m].tlvs, p) /\ h.msg[m].frag = g.msg[m].frag
           /\ h.msg[m].vp = g.msg[m].vp /\ h.msg[m].missing = g.msg[m].missing
<1>0. g \in Manager
  BY DEF Own
<1> DEFINE e == g.msg[m]  s == Append(e.tlvs, p)  z == [e EXCEPT !.tlvs = s]
<1>1. e \in Envelope /\ g.prm[p] \in Object /\ s \in Seq(Param) /\ g.prm \in [Param -> Object]
  <2>1. e \in Envelope /\ g.prm[p] \in Object /\ g.prm \in [Param -> Object]
    BY <1>0, ManagerIs
  <2>2. e.tlvs \in Seq(Param)
    <3> HIDE DEF e
    <3> QED  BY <2>1 DEF Envelope
  <2> HIDE DEF e
  <2> QED  BY <2>1, <2>2
<1>2. z \in Envelope /\ z.tlvs = s /\ z.frag = e.frag /\ z.vp = e.vp /\ z.missing = e.missing
  <2> HIDE DEF e, s
  <2> QED  BY <1>1 DEF Envelope
<1>3. h = Edited(g, m, z, p, g.prm[p])
  <2>1. g.prm = [g.prm EXCEPT ![p] = g.prm[p]]
    BY <1>1
  <2>2. g = [msgs |-> g.msgs, free |-> g.free, prm |-> g.prm, msg |-> g.msg]
    BY <1>0 DEF Manager
  <2>3. h = [msgs |-> g.msgs, free |-> g.free, prm |-> g.prm, msg |-> [g.msg EXCEPT ![m] = z]]
    BY <2>2 DEF Added
  <2>4. Edited(g, m, z, p, g.prm[p]) = [msgs |-> g.msgs, free |-> g.free,
            prm |-> [g.prm EXCEPT ![p] = g.prm[p]], msg |-> [g.msg EXCEPT ![m] = z]]
    <3> DEFINE q == g.prm[p]
    <3>1. q \in Object
      BY <1>1
    <3> HIDE DEF z, q
    <3>2. Edited(g, m, z, p, q) = [msgs |-> g.msgs, free |-> g.free,
            prm |-> [g.prm EXCEPT ![p] = q], msg |-> [g.msg EXCEPT ![m] = z]]
      BY <1>0, <1>2, <3>1, EditedRecord
    <3> QED  BY <3>2 DEF q
  <2> QED  BY <2>1, <2>3, <2>4
<1> DEFINE q == g.prm[p]
<1>4. q \in Object /\ h = Edited(g, m, z, p, q) /\ q = g.prm[p]
  BY <1>1, <1>3
<1> HIDE DEF z, q
<1>5. /\ h \in Manager /\ h.msgs = g.msgs /\ h.free = g.free
      /\ h.msg[m] = z /\ h.prm[p] = q
      /\ \A o \in Msg \ {m} : h.msg[o] = g.msg[o]
      /\ \A x \in Param \ {p} : h.prm[x] = g.prm[x]
  BY <1>0, <1>2, <1>4, EditedIs
<1>6. Joins(g, h, m, p)
  BY <1>2, <1>4, <1>5 DEF Joins
<1>7. Own(h, {}) /\ Kept(g, h, m)
  BY <1>5, <1>6, JoinsIs
<1> QED  BY <1>2, <1>4, <1>5, <1>7

(* FirstFragment(): the parameter becomes frag_param. *)
LEMMA BeginsIs ==
    ASSUME NEW g, NEW p \in Param, Own(g, {p}), NEW m \in Msg, g.msgs[m] = 0,
           g.msg[m].frag = NoParam, NEW h, h = Begins(g, m, p)
    PROVE  /\ Own(h, {}) /\ Kept(g, h, m) /\ h.msgs = g.msgs
           /\ \A x \in Param \ {p} : h.prm[x] = g.prm[x]
           /\ h.prm[p].id = g.prm[p].id /\ Piece(h, p) = Piece(g, p) /\ h.prm[p].findex = 0
           /\ h.msg[m].tlvs = g.msg[m].tlvs /\ h.msg[m].frag = p
           /\ h.msg[m].data = <<Piece(g, p)>>
           /\ h.msg[m].vp = g.msg[m].vp /\ h.msg[m].missing = g.msg[m].missing
<1>0. g \in Manager
  BY DEF Own
<1> DEFINE e == g.msg[m]  c == <<Piece(g, p)>>  z == [e EXCEPT !.frag = p, !.data = c]
           y == g.prm[p]  q == [y EXCEPT !.findex = 0]
<1>1. e \in Envelope /\ y \in Object /\ c \in Seq(Chunk)
  BY <1>0, ManagerIs, PieceIs
<1>2. z \in Envelope /\ z.tlvs = e.tlvs /\ z.frag = p /\ z.vp = e.vp /\ z.missing = e.missing /\ z.data = c
  <2> HIDE DEF e, c
  <2> QED  BY <1>1 DEF Envelope
<1>3. q \in Object /\ q.findex = 0 /\ q.id = y.id /\ q.from = y.from /\ q.len = y.len /\ q.linked = y.linked
  <2> HIDE DEF y
  <2> QED  BY <1>1 DEF Object
<1>4. h = Edited(g, m, z, p, q)
  <2>1. g = [msgs |-> g.msgs, free |-> g.free, prm |-> g.prm, msg |-> g.msg]
    BY <1>0 DEF Manager
  <2>2. h = [msgs |-> g.msgs, free |-> g.free, prm |-> [g.prm EXCEPT ![p] = q], msg |-> [g.msg EXCEPT ![m] = z]]
    BY <1>0, <2>1, ManagerIs DEF Begins
  <2> HIDE DEF z, q
  <2>3. Edited(g, m, z, p, q) = [msgs |-> g.msgs, free |-> g.free,
            prm |-> [g.prm EXCEPT ![p] = q], msg |-> [g.msg EXCEPT ![m] = z]]
    BY <1>0, <1>1, <1>2, <1>3, EditedRecord
  <2> QED  BY <2>2, <2>3
<1> HIDE DEF z, q
<1>5. /\ h \in Manager /\ h.msgs = g.msgs /\ h.free = g.free
      /\ h.msg[m] = z /\ h.prm[p] = q
      /\ \A o \in Msg \ {m} : h.msg[o] = g.msg[o]
      /\ \A x \in Param \ {p} : h.prm[x] = g.prm[x]
  BY <1>0, <1>2, <1>3, <1>4, EditedIs
<1>6. Joins(g, h, m, p)
  BY <1>2, <1>3, <1>5 DEF Joins
<1>7. Own(h, {}) /\ Kept(g, h, m)
  BY <1>5, <1>6, JoinsIs
<1>8. Piece(h, p) = Piece(g, p)
  BY <1>3, <1>5 DEF Piece
<1> QED  BY <1>2, <1>3, <1>5, <1>7, <1>8

(* Keep(): the fragment index and the data go on. *)
LEMMA GoesIs ==
    ASSUME NEW g, NEW X, Own(g, X), NEW m \in Msg, g.msgs[m] = 0, NEW f, f = g.msg[m].frag, f # NoParam,
           NEW p \in Param, p # f, NEW h, h = Goes(g, m, f, p)
    PROVE  /\ Own(h, X) /\ Kept(g, h, m) /\ h.msgs = g.msgs
           /\ \A x \in Param \ {f} : h.prm[x] = g.prm[x]
           /\ h.prm[f].findex = g.prm[f].findex + 1 /\ Piece(h, p) = Piece(g, p)
           /\ h.msg[m].tlvs = g.msg[m].tlvs /\ h.msg[m].frag = f
           /\ h.msg[m].data = Append(g.msg[m].data, Piece(g, p))
           /\ h.msg[m].vp = g.msg[m].vp /\ h.msg[m].missing = g.msg[m].missing
<1>0. g \in Manager /\ f \in Param
  BY ManagerIs DEF Own
<1> DEFINE e == g.msg[m]  c == Append(e.data, Piece(g, p))  z == [e EXCEPT !.data = c]
           y == g.prm[f]  d == y.findex + 1  q == [y EXCEPT !.findex = d]
<1>1. e \in Envelope /\ y \in Object /\ c \in Seq(Chunk) /\ d \in Nat
  <2>1. e \in Envelope /\ y \in Object /\ Piece(g, p) \in Chunk
    BY <1>0, ManagerIs, PieceIs
  <2> HIDE DEF e, y
  <2>2. e.data \in Seq(Chunk) /\ y.findex \in Nat
    BY <2>1 DEF Envelope, Object
  <2> QED  BY <2>1, <2>2
<1>2. z \in Envelope /\ z.tlvs = e.tlvs /\ z.frag = e.frag /\ z.vp = e.vp /\ z.missing = e.missing /\ z.data = c
  <2> HIDE DEF e, c
  <2> QED  BY <1>1 DEF Envelope
<1>3. q \in Object /\ q.findex = d /\ q.linked = y.linked
  <2> HIDE DEF y, d
  <2> QED  BY <1>1 DEF Object
<1>4. h = Edited(g, m, z, f, q)
  <2>1. g = [msgs |-> g.msgs, free |-> g.free, prm |-> g.prm, msg |-> g.msg]
    BY <1>0 DEF Manager
  <2>2. h = [msgs |-> g.msgs, free |-> g.free, prm |-> [g.prm EXCEPT ![f] = q], msg |-> [g.msg EXCEPT ![m] = z]]
    BY <1>0, <2>1, ManagerIs DEF Goes
  <2> HIDE DEF z, q, e, c, y, d
  <2>3. Edited(g, m, z, f, q) = [msgs |-> g.msgs, free |-> g.free,
            prm |-> [g.prm EXCEPT ![f] = q], msg |-> [g.msg EXCEPT ![m] = z]]
    BY <1>0, <1>2, <1>3, EditedRecord
  <2> QED  BY <2>2, <2>3
<1> HIDE DEF z, q
<1>5. /\ h \in Manager /\ h.msgs = g.msgs /\ h.free = g.free
      /\ h.msg[m] = z /\ h.prm[f] = q
      /\ \A o \in Msg \ {m} : h.msg[o] = g.msg[o]
      /\ \A x \in Param \ {f} : h.prm[x] = g.prm[x]
  BY <1>0, <1>1, <1>2, <1>3, <1>4, EditedIs
<1>6. Own(h, X)
  <2>1. \A o \in Msg : h.msg[o].tlvs = g.msg[o].tlvs /\ h.msg[o].frag = g.msg[o].frag
    BY <1>2, <1>5
  <2>2. \A x \in Param : h.prm[x].linked = g.prm[x].linked
    BY <1>3, <1>5
  <2> QED  BY <1>5, <2>1, <2>2, OwnSame
<1>7. Kept(g, h, m)
  <2>1. f \in Pile(g, m)
    <3>1. f \in Tops(g, m)
      BY DEF Tops
    <3> QED  BY <1>0, <3>1, PileIs
  <2>2. \A o \in Msg \ {m} : Pile(g, o) \cap Pile(g, m) = {} /\ Pile(g, o) \in SUBSET Param
    BY <1>0, PileIs DEF Own
  <2> SUFFICES ASSUME NEW o \in Msg \ {m}, NEW x \in Pile(g, o) PROVE h.prm[x] = g.prm[x]
    BY <1>5 DEF Kept
  <2>3. x \in Param \ {f}
    BY <2>1, <2>2
  <2> QED  BY <1>5, <2>3
<1>8. Piece(h, p) = Piece(g, p)
  BY <1>5 DEF Piece
<1> QED  BY <1>2, <1>3, <1>5, <1>6, <1>7, <1>8

-----------------------------------------------------------------------------
(* and one parameter of a packet after the other. *)

(* What a parameter that arrives changes, whatever it is. *)
Steady(g, k, m) ==
    /\ Own(k, {}) /\ Kept(g, k, m) /\ k.msgs = g.msgs
    /\ k.msg[m].missing = g.msg[m].missing
    /\ \A x \in Range(g.msg[m].tlvs) : k.prm[x] = g.prm[x]

(* A piece goes into the vpmap, if it is of a variant. *)
Octet(v, w, i, q, c) == IF TypeOf(i) # "variant" THEN w = v ELSE Puts(v, w, <<i, q>>, <<c>>)

GotWhole(g, k, m, t) ==
    \E p \in Param : /\ p[1] = TypeOf(t.id) /\ k.prm[p].id = t.id /\ Piece(k, p) = ChunkOf(t)
                     /\ k.msg[m].tlvs = Append(g.msg[m].tlvs, p) /\ k.msg[m].frag = g.msg[m].frag
                     /\ Octet(g.msg[m].vp, k.msg[m].vp, t.id, 0, ChunkOf(t))

(* A value that is not cut has arrived. *)
LEMMA WholeIs ==
    ASSUME NEW g, Own(g, {}), NEW m \in Msg, NEW t, NEW p, NEW h, Taken(g, h, m, p, t),
           NEW k, k = WholeParam(h, m, p)
    PROVE  Steady(g, k, m) /\ GotWhole(g, k, m, t)
<1> DEFINE u == Added(h, m, p)
<1>1. /\ g.msgs[m] = 0 /\ p \in Param /\ p[1] = TypeOf(t.id) /\ t.id \in Id
      /\ Own(h, {p}) /\ Kept(g, h, m) /\ h.msgs = g.msgs /\ h.msg = g.msg
      /\ \A x \in Param \ {p} : h.prm[x] = g.prm[x]
      /\ h.prm[p].id = t.id /\ Piece(h, p) = ChunkOf(t) /\ p \notin Tops(g, m)
      /\ g \in Manager /\ h \in Manager
  BY DEF Taken, Own
<1>2. k = SetOctets(u, m, p, 0)
  BY DEF WholeParam, Added
<1>3. /\ Own(u, {}) /\ Kept(h, u, m) /\ u.msgs = h.msgs
      /\ \A x \in Param : u.prm[x] = h.prm[x]
      /\ u.msg[m].tlvs = Append(h.msg[m].tlvs, p) /\ u.msg[m].frag = h.msg[m].frag
      /\ u.msg[m].vp = h.msg[m].vp /\ u.msg[m].missing = h.msg[m].missing
  <2>1. h.msgs[m] = 0 /\ Own(h, {p}) /\ p \in Param
    BY <1>1
  <2> HIDE DEF u
  <2>2. u = Added(h, m, p)
    BY DEF u
  <2> QED  BY <2>1, <2>2, AddedIs
<1> HIDE DEF u
<1>4. /\ Notes(u, k, m)
      /\ IF p[1] # "variant" THEN k.msg[m].vp = u.msg[m].vp
         ELSE Puts(u.msg[m].vp, k.msg[m].vp, <<t.id, 0>>, <<Piece(u, p)>>)
  <2> DEFINE i == t.id  z == 0
  <2>1. u \in Manager /\ i \in Id /\ u.prm[p].id = i /\ p \in Param /\ k = SetOctets(u, m, p, z) /\ z \in Nat
    BY <1>1, <1>2, <1>3 DEF Own
  <2> HIDE DEF i, z
  <2>2. /\ Notes(u, k, m)
        /\ IF p[1] # "variant" THEN k.msg[m].vp = u.msg[m].vp
           ELSE Puts(u.msg[m].vp, k.msg[m].vp, <<i, z>>, <<Piece(u, p)>>)
    BY <2>1, SetOctetsIs
  <2> QED  BY <2>2 DEF i, z
<1> DEFINE X == {}
<1>5. Own(k, X) /\ Kept(u, k, m)
  <2>1. Own(u, X)
    BY <1>3
  <2> HIDE DEF X
  <2> QED  BY <1>4, <2>1, NotesOwn
<1>6. Kept(g, k, m)
  <2>1. u \in Manager
    BY <1>3 DEF Own
  <2>2. Kept(g, u, m)
    BY <1>1, <1>3, KeptTrans
  <2> QED  BY <1>1, <1>5, <2>1, <2>2, KeptTrans
<1>7. /\ k.msgs = g.msgs /\ \A x \in Param : k.prm[x] = h.prm[x]
      /\ k.msg[m].missing = g.msg[m].missing /\ k.msg[m].frag = g.msg[m].frag
      /\ k.msg[m].tlvs = Append(g.msg[m].tlvs, p)
  BY <1>1, <1>3, <1>4 DEF Notes
<1>8. \A x \in Range(g.msg[m].tlvs) : x \in Param /\ x # p
  BY <1>1, ManagerIs DEF Tops
<1>9. Piece(k, p) = ChunkOf(t) /\ Piece(u, p) = ChunkOf(t) /\ k.prm[p].id = t.id
  BY <1>1, <1>3, <1>7 DEF Piece
<1>10. Octet(g.msg[m].vp, k.msg[m].vp, t.id, 0, ChunkOf(t))
  BY <1>1, <1>3, <1>4, <1>9 DEF Octet
<1>11. Steady(g, k, m)
  BY <1>1, <1>5, <1>6, <1>7, <1>8 DEF Steady
<1> QED  BY <1>1, <1>7, <1>9, <1>10, <1>11 DEF GotWhole

GotFirst(g, k, m, t) ==
    /\ k.msg[m].tlvs = g.msg[m].tlvs
    /\ k.msg[m].frag # NoParam /\ k.prm[k.msg[m].frag].findex = 0
    /\ k.msg[m].data = <<ChunkOf(t)>>
    /\ Octet(g.msg[m].vp, k.msg[m].vp, t.id, 0, ChunkOf(t))

(* The first fragment of a value has arrived. *)
LEMMA FirstIs ==
    ASSUME NEW g, Own(g, {}), NEW m \in Msg, NEW t, NEW p, NEW h, Taken(g, h, m, p, t),
           g.msg[m].frag = NoParam, NEW k, k = FirstFragment(h, m, p)
    PROVE  Steady(g, k, m) /\ GotFirst(g, k, m, t)
<1> DEFINE u == Begins(h, m, p)
<1>1. /\ g.msgs[m] = 0 /\ p \in Param /\ p[1] = TypeOf(t.id) /\ t.id \in Id
      /\ Own(h, {p}) /\ Kept(g, h, m) /\ h.msgs = g.msgs /\ h.msg = g.msg
      /\ \A x \in Param \ {p} : h.prm[x] = g.prm[x]
      /\ h.prm[p].id = t.id /\ Piece(h, p) = ChunkOf(t) /\ p \notin Tops(g, m)
      /\ g \in Manager /\ h \in Manager
  BY DEF Taken, Own
<1>2. k = SetOctets(u, m, p, 0)
  BY DEF FirstFragment, Begins
<1>3. /\ Own(u, {}) /\ Kept(h, u, m) /\ u.msgs = h.msgs
      /\ \A x \in Param \ {p} : u.prm[x] = h.prm[x]
      /\ u.prm[p].id = h.prm[p].id /\ Piece(u, p) = Piece(h, p) /\ u.prm[p].findex = 0
      /\ u.msg[m].tlvs = h.msg[m].tlvs /\ u.msg[m].frag = p
      /\ u.msg[m].data = <<Piece(h, p)>>
      /\ u.msg[m].vp = h.msg[m].vp /\ u.msg[m].missing = h.msg[m].missing
  <2>1. h.msgs[m] = 0 /\ Own(h, {p}) /\ p \in Param /\ h.msg[m].frag = NoParam
    BY <1>1
  <2> HIDE DEF u
  <2>2. u = Begins(h, m, p)
    BY DEF u
  <2> QED  BY <2>1, <2>2, BeginsIs
<1> HIDE DEF u
<1>4. /\ Notes(u, k, m)
      /\ IF p[1] # "variant" THEN k.msg[m].vp = u.msg[m].vp
         ELSE Puts(u.msg[m].vp, k.msg[m].vp, <<t.id, 0>>, <<Piece(u, p)>>)
  <2> DEFINE i == t.id  z == 0
  <2>1. u \in Manager /\ i \in Id /\ u.prm[p].id = i /\ p \in Param /\ k = SetOctets(u, m, p, z) /\ z \in Nat
    BY <1>1, <1>2, <1>3 DEF Own
  <2> HIDE DEF i, z
  <2>2. /\ Notes(u, k, m)
        /\ IF p[1] # "variant" THEN k.msg[m].vp = u.msg[m].vp
           ELSE Puts(u.msg[m].vp, k.msg[m].vp, <<i, z>>, <<Piece(u, p)>>)
    BY <2>1, SetOctetsIs
  <2> QED  BY <2>2 DEF i, z
<1> DEFINE X == {}
<1>5. Own(k, X) /\ Kept(u, k, m)
  <2>1. Own(u, X)
    BY <1>3
  <2> HIDE DEF X
  <2> QED  BY <1>4, <2>1, NotesOwn
<1>6. Kept(g, k, m)
  <2>1. u \in Manager
    BY <1>3 DEF Own
  <2>2. Kept(g, u, m)
    BY <1>1, <1>3, KeptTrans
  <2> QED  BY <1>1, <1>5, <2>1, <2>2, KeptTrans
<1>7. /\ k.msgs = g.msgs /\ \A x \in Param : k.prm[x] = u.prm[x]
      /\ k.msg[m].missing = g.msg[m].missing /\ k.msg[m].frag = p
      /\ k.msg[m].tlvs = g.msg[m].tlvs /\ k.msg[m].data = <<ChunkOf(t)>>
  BY <1>1, <1>3, <1>4 DEF Notes
<1>8. \A x \in Range(g.msg[m].tlvs) : x \in Param /\ x # p
  BY <1>1, ManagerIs DEF Tops
<1>9. k.prm[p].findex = 0 /\ p # NoParam
  BY <1>1, <1>3, <1>7, NoParamIs
<1>10. Octet(g.msg[m].vp, k.msg[m].vp, t.id, 0, ChunkOf(t))
  BY <1>1, <1>3, <1>4 DEF Octet
<1>11. Steady(g, k, m)
  BY Zenon, <1>1, <1>3, <1>5, <1>6, <1>7, <1>8 DEF Steady
<1> QED  BY <1>7, <1>9, <1>10, <1>11 DEF GotFirst

(* The piece is kept, and its parameter is still in hand. *)
Keeps(g, k, m, f, p, t) ==
    /\ Own(k, {p}) /\ Kept(g, k, m) /\ k.msgs = g.msgs
    /\ k.msg[m].missing = g.msg[m].missing /\ k.msg[m].tlvs = g.msg[m].tlvs /\ k.msg[m].frag = f
    /\ k.msg[m].data = Append(g.msg[m].data, ChunkOf(t))
    /\ k.prm[f].findex = g.prm[f].findex + 1 /\ k.prm[p].id = t.id
    /\ \A x \in Param \ {f, p} : k.prm[x] = g.prm[x]
    /\ Octet(g.msg[m].vp, k.msg[m].vp, t.id, g.prm[f].findex + 1, ChunkOf(t))

(* A further fragment is kept, in the vpmap and in the data. *)
LEMMA KeepIs ==
    ASSUME NEW g, Own(g, {}), NEW m \in Msg, NEW t, NEW p, NEW h, Taken(g, h, m, p, t),
           NEW f, f = g.msg[m].frag, f # NoParam, NEW k, k = Keep(h, m, f, p)
    PROVE  Keeps(g, k, m, f, p, t)
<1> DEFINE u == Goes(h, m, f, p)  n == g.prm[f].findex + 1
<1>1. /\ g.msgs[m] = 0 /\ p \in Param /\ p[1] = TypeOf(t.id) /\ t.id \in Id
      /\ Own(h, {p}) /\ Kept(g, h, m) /\ h.msgs = g.msgs /\ h.msg = g.msg
      /\ \A x \in Param \ {p} : h.prm[x] = g.prm[x]
      /\ h.prm[p].id = t.id /\ Piece(h, p) = ChunkOf(t) /\ p \notin Tops(g, m)
      /\ g \in Manager /\ h \in Manager
  BY DEF Taken, Own
<1>a. f \in Tops(g, m) /\ f \in Param /\ f # p /\ g.prm[f] \in Object
  <2>1. f \in Tops(g, m)
    BY DEF Tops
  <2> QED  BY <1>1, <2>1, ManagerIs
<1>b. n \in Nat /\ h.prm[f].findex + 1 = n
  BY <1>1, <1>a DEF Object
<1>2. k = SetOctets(u, m, p, n)
  BY <1>b DEF Keep, Goes
<1>3. /\ Own(u, {p}) /\ Kept(h, u, m) /\ u.msgs = h.msgs
      /\ \A x \in Param \ {f} : u.prm[x] = h.prm[x]
      /\ u.prm[f].findex = h.prm[f].findex + 1 /\ Piece(u, p) = Piece(h, p)
      /\ u.msg[m].tlvs = h.msg[m].tlvs /\ u.msg[m].frag = f
      /\ u.msg[m].data = Append(h.msg[m].data, Piece(h, p))
      /\ u.msg[m].vp = h.msg[m].vp /\ u.msg[m].missing = h.msg[m].missing
  <2> DEFINE X == {p}
  <2>1. h.msgs[m] = 0 /\ Own(h, X) /\ p \in Param /\ f = h.msg[m].frag /\ p # f
    BY <1>1, <1>a
  <2> HIDE DEF u, X
  <2>2. u = Goes(h, m, f, p)
    BY DEF u
  <2>3. /\ Own(u, X) /\ Kept(h, u, m) /\ u.msgs = h.msgs
        /\ \A x \in Param \ {f} : u.prm[x] = h.prm[x]
        /\ u.prm[f].findex = h.prm[f].findex + 1 /\ Piece(u, p) = Piece(h, p)
        /\ u.msg[m].tlvs = h.msg[m].tlvs /\ u.msg[m].frag = f
        /\ u.msg[m].data = Append(h.msg[m].data, Piece(h, p))
        /\ u.msg[m].vp = h.msg[m].vp /\ u.msg[m].missing = h.msg[m].missing
    BY <2>1, <2>2, GoesIs
  <2> QED  BY <2>3 DEF X
<1> HIDE DEF u, n
<1>4. /\ Notes(u, k, m)
      /\ IF p[1] # "variant" THEN k.msg[m].vp = u.msg[m].vp
         ELSE Puts(u.msg[m].vp, k.msg[m].vp, <<t.id, n>>, <<Piece(u, p)>>)
  <2> DEFINE i == t.id
  <2>1. u \in Manager /\ i \in Id /\ u.prm[p].id = i /\ p \in Param /\ k = SetOctets(u, m, p, n) /\ n \in Nat
    BY <1>1, <1>2, <1>3, <1>a, <1>b DEF Own
  <2> HIDE DEF i
  <2>2. /\ Notes(u, k, m)
        /\ IF p[1] # "variant" THEN k.msg[m].vp = u.msg[m].vp
           ELSE Puts(u.msg[m].vp, k.msg[m].vp, <<i, n>>, <<Piece(u, p)>>)
    BY <2>1, SetOctetsIs
  <2> QED  BY <2>2 DEF i
<1> DEFINE X == {p}
<1>5. Own(k, X) /\ Kept(u, k, m)
  <2>1. Own(u, X)
    BY <1>3
  <2> HIDE DEF X
  <2> QED  BY <1>4, <2>1, NotesOwn
<1>6. Kept(g, k, m)
  <2>1. u \in Manager
    BY <1>3 DEF Own
  <2>2. Kept(g, u, m)
    BY Zenon, <1>1, <1>3, KeptTrans
  <2> QED  BY <1>1, <1>5, <2>1, <2>2, KeptTrans
<1>7. /\ k.msgs = g.msgs /\ \A x \in Param : k.prm[x] = u.prm[x]
      /\ k.msg[m].missing = g.msg[m].missing /\ k.msg[m].frag = f
      /\ k.msg[m].tlvs = g.msg[m].tlvs /\ k.msg[m].data = Append(g.msg[m].data, ChunkOf(t))
  BY ZenonT(40), <1>1, <1>3, <1>4 DEF Notes
<1>8. k.prm[f].findex = n /\ k.prm[p].id = t.id /\ \A x \in Param \ {f, p} : k.prm[x] = g.prm[x]
  BY Zenon, <1>1, <1>3, <1>7, <1>a, <1>b
<1>10. Octet(g.msg[m].vp, k.msg[m].vp, t.id, n, ChunkOf(t))
  BY <1>1, <1>3, <1>4 DEF Octet
<1> QED  BY Zenon, <1>5, <1>6, <1>7, <1>8, <1>10 DEF Keeps, n

GotMore(g, k, m, t) ==
    /\ k.msg[m].tlvs = g.msg[m].tlvs /\ k.msg[m].frag = g.msg[m].frag
    /\ k.prm[g.msg[m].frag].findex = g.prm[g.msg[m].frag].findex + 1
    /\ k.msg[m].data = Append(g.msg[m].data, ChunkOf(t))
    /\ Octet(g.msg[m].vp, k.msg[m].vp, t.id, g.prm[g.msg[m].frag].findex + 1, ChunkOf(t))

(* A fragment in the middle of a value has arrived. *)
LEMMA MoreIs ==
    ASSUME NEW g, Own(g, {}), NEW m \in Msg, NEW t, NEW p, NEW h, Taken(g, h, m, p, t),
           NEW f, f = g.msg[m].frag, f # NoParam, NEW k, k = MoreFragment(h, m, f, p)
    PROVE  Steady(g, k, m) /\ GotMore(g, k, m, t)
<1> DEFINE u == Keep(h, m, f, p)
<1>1. g \in Manager /\ p \in Param /\ p \notin Tops(g, m) /\ f \in Param /\ f \in Tops(g, m)
  <2>1. g \in Manager /\ p \in Param /\ p \notin Tops(g, m) /\ f \in Tops(g, m)
    BY DEF Taken, Own, Tops
  <2> QED  BY <2>1, ManagerIs
<1>2. Keeps(g, u, m, f, p, t) /\ k = FreeParam(u, p)
  <2>1. k = FreeParam(u, p)
    BY DEF MoreFragment
  <2> HIDE DEF u
  <2>2. u = Keep(h, m, f, p)
    BY DEF u
  <2> QED  BY <2>1, <2>2, KeepIs
<1> HIDE DEF u
<1> DEFINE X == {p}
<1>3. Own(u, X) /\ p \in X
  BY <1>2 DEF Keeps
<1> HIDE DEF X
<1>4. /\ Own(k, X \ {p}) /\ k.msgs = u.msgs /\ k.msg = u.msg
      /\ \A x \in Param \ {p} : k.prm[x] = u.prm[x]
      /\ \A o : Kept(u, k, o)
  BY <1>2, <1>3, ReleasedIs
<1>5. Own(k, {})
  BY <1>4 DEF X
<1>6. Kept(g, k, m)
  <2>1. Kept(g, u, m) /\ Kept(u, k, m)
    BY <1>2, <1>4 DEF Keeps
  <2> QED  BY <1>1, <2>1, KeptTrans
<1>7. f \notin Range(g.msg[m].tlvs)
  BY <1>1 DEF Own, Proper, Taken
<1>8. \A x \in Range(g.msg[m].tlvs) : x \in Param /\ x # p /\ x # f
  BY <1>1, <1>7, ManagerIs DEF Tops
<1>9. Steady(g, k, m)
  BY <1>2, <1>4, <1>5, <1>6, <1>8 DEF Keeps, Steady
<1>10. k.prm[f].findex = u.prm[f].findex
  BY <1>1, <1>4
<1> QED  BY <1>2, <1>4, <1>9, <1>10 DEF Keeps, GotMore

(* The vpmap after defragment() and set_pointer(). *)
Ended(u, w, i, d) ==
    \E v : /\ IF TypeOf(i) # "variant" \/ <<i, 0>> \notin DOMAIN u THEN v = u ELSE Merges(u, v, i)
           /\ IF <<i, 0>> \in DOMAIN v THEN w = v ELSE Puts(v, w, <<i, 0>>, d)

GotLast(g, k, m, t) ==
    /\ k.msg[m].tlvs = g.msg[m].tlvs /\ k.msg[m].frag = NoParam
    /\ \E u \in Mapping :
         /\ Octet(g.msg[m].vp, u, t.id, g.prm[g.msg[m].frag].findex + 1, ChunkOf(t))
         /\ Ended(u, k.msg[m].vp, t.id, Append(g.msg[m].data, ChunkOf(t)))

(* The last fragment of a value has arrived. *)
LEMMA LastIs ==
    ASSUME NEW g, Own(g, {}), NEW m \in Msg, NEW t, NEW p, NEW h, Taken(g, h, m, p, t),
           NEW f, f = g.msg[m].frag, f # NoParam, NEW k, k = LastFragment(h, m, f, p)
    PROVE  Steady(g, k, m) /\ GotLast(g, k, m, t)
<1> DEFINE a == Keep(h, m, f, p)  b == Defragment(a, m, p)  c == SetPointer(b, m, p)
           d == FreeParam(c, p)
<1>1. g \in Manager /\ p \in Param /\ p \notin Tops(g, m) /\ f \in Param /\ f \in Tops(g, m)
      /\ p[1] = TypeOf(t.id) /\ t.id \in Id /\ g.msgs[m] = 0
  <2>1. g \in Manager /\ p \in Param /\ p \notin Tops(g, m) /\ f \in Tops(g, m)
        /\ p[1] = TypeOf(t.id) /\ t.id \in Id /\ g.msgs[m] = 0
    BY DEF Taken, Own, Tops
  <2> QED  BY <2>1, ManagerIs
<1>2. k = Dropped(d, m, f)
  BY DEF LastFragment, Dropped
<1>3. Keeps(g, a, m, f, p, t)
  <2> HIDE DEF a
  <2>2. a = Keep(h, m, f, p)
    BY DEF a
  <2> QED  BY <2>2, KeepIs
<1> HIDE DEF a
<1> DEFINE i == t.id  X == {p}
<1>4. Own(a, X) /\ a \in Manager /\ p \in X /\ a.prm[p].id = i /\ i \in Id
  BY <1>1, <1>3 DEF Keeps, Own
<1> HIDE DEF i, X
<1>5. /\ Notes(a, b, m)
      /\ IF p[1] # "variant" \/ <<i, 0>> \notin DOMAIN a.msg[m].vp THEN b.msg[m].vp = a.msg[m].vp
         ELSE Merges(a.msg[m].vp, b.msg[m].vp, i)
  <2> HIDE DEF b
  <2>1. b = Defragment(a, m, p)
    BY DEF b
  <2> QED  BY <1>1, <1>4, <2>1, DefragmentIs
<1> HIDE DEF b
<1>6. b \in Manager /\ b.prm = a.prm
  BY <1>5 DEF Notes
<1>7. /\ Notes(b, c, m)
      /\ IF <<i, 0>> \in DOMAIN b.msg[m].vp THEN c.msg[m].vp = b.msg[m].vp
         ELSE Puts(b.msg[m].vp, c.msg[m].vp, <<i, 0>>, b.msg[m].data)
  <2> HIDE DEF c
  <2>1. c = SetPointer(b, m, p) /\ b.prm[p].id = i
    BY <1>4, <1>6 DEF c
  <2> QED  BY <1>1, <1>4, <1>6, <2>1, SetPointerIs
<1> HIDE DEF c
<1>8. Notes(a, c, m)
  BY <1>5, <1>7, NotesTrans
<1>9. Own(c, X) /\ Kept(a, c, m)
  BY <1>4, <1>8, NotesOwn
<1>10. /\ Own(d, X \ {p}) /\ d.msgs = c.msgs /\ d.msg = c.msg
       /\ \A x \in Param \ {p} : d.prm[x] = c.prm[x]
       /\ \A o : Kept(c, d, o)
  <2> HIDE DEF d
  <2>1. d = FreeParam(c, p)
    BY DEF d
  <2> QED  BY <1>4, <1>9, <2>1, ReleasedIs
<1> HIDE DEF d
<1>11. Own(d, {})
  BY <1>10 DEF X
<1>12. /\ c.msgs = a.msgs /\ c.prm = a.prm /\ c.msg[m].tlvs = a.msg[m].tlvs /\ c.msg[m].frag = a.msg[m].frag
       /\ c.msg[m].data = a.msg[m].data /\ c.msg[m].missing = a.msg[m].missing
       /\ b.msg[m].data = a.msg[m].data
  BY <1>5, <1>8 DEF Notes
<1>13. /\ a.msgs = g.msgs /\ Kept(g, a, m)
       /\ a.msg[m].missing = g.msg[m].missing /\ a.msg[m].tlvs = g.msg[m].tlvs /\ a.msg[m].frag = f
       /\ a.msg[m].data = Append(g.msg[m].data, ChunkOf(t))
       /\ \A x \in Param \ {f, p} : a.prm[x] = g.prm[x]
       /\ Octet(g.msg[m].vp, a.msg[m].vp, i, g.prm[f].findex + 1, ChunkOf(t))
  BY <1>3 DEF Keeps, i
<1>14. /\ Own(k, {}) /\ Kept(d, k, m) /\ k.msgs = d.msgs
       /\ \A x \in Param \ {f} : k.prm[x] = d.prm[x]
       /\ k.msg[m].tlvs = d.msg[m].tlvs /\ k.msg[m].frag = NoParam
       /\ k.msg[m].vp = d.msg[m].vp /\ k.msg[m].missing = d.msg[m].missing
  <2>1. d.msgs[m] = 0 /\ f = d.msg[m].frag
    BY <1>1, <1>10, <1>12, <1>13
  <2> QED  BY <1>2, <1>11, <2>1, DroppedIs
<1>15. Kept(g, k, m)
  <2>1. c \in Manager /\ d \in Manager
    BY <1>9, <1>11 DEF Own
  <2>2. Kept(g, c, m)
    BY <1>1, <1>4, <1>9, <1>13, KeptTrans
  <2>3. Kept(g, d, m)
    BY <1>1, <1>10, <2>1, <2>2, KeptTrans
  <2> QED  BY <1>1, <1>14, <2>1, <2>3, KeptTrans
<1>16. \A x \in Range(g.msg[m].tlvs) : x \in Param /\ x # p /\ x # f
  <2>1. f \notin Range(g.msg[m].tlvs)
    BY <1>1 DEF Own, Proper
  <2> QED  BY <1>1, <2>1, ManagerIs DEF Tops
<1>17. /\ k.msgs = g.msgs /\ k.msg[m].missing = g.msg[m].missing /\ k.msg[m].tlvs = g.msg[m].tlvs
       /\ \A x \in Param \ {f, p} : k.prm[x] = g.prm[x]
  <2>1. k.msgs = g.msgs /\ k.msg[m].missing = g.msg[m].missing /\ k.msg[m].tlvs = g.msg[m].tlvs
    BY <1>10, <1>12, <1>13, <1>14
  <2>2. ASSUME NEW x \in Param \ {f, p} PROVE k.prm[x] = g.prm[x]
    <3>1. k.prm[x] = d.prm[x]
      BY Zenon, <1>14
    <3>2. d.prm[x] = c.prm[x]
      BY Zenon, <1>10
    <3>3. c.prm[x] = a.prm[x]
      BY Zenon, <1>12
    <3>4. a.prm[x] = g.prm[x]
      BY Zenon, <1>13
    <3> QED  BY Zenon, <3>1, <3>2, <3>3, <3>4
  <2> QED  BY <2>1, <2>2
<1>18. Steady(g, k, m)
  BY <1>14, <1>15, <1>16, <1>17 DEF Steady
<1>19. k.msg[m].vp = c.msg[m].vp
  BY <1>10, <1>14
<1>20. Ended(a.msg[m].vp, k.msg[m].vp, i, Append(g.msg[m].data, ChunkOf(t)))
  <2>1. p[1] = TypeOf(i)
    BY <1>1 DEF i
  <2>2. IF TypeOf(i) # "variant" \/ <<i, 0>> \notin DOMAIN a.msg[m].vp THEN b.msg[m].vp = a.msg[m].vp
        ELSE Merges(a.msg[m].vp, b.msg[m].vp, i)
    BY <1>5, <2>1
  <2>3. IF <<i, 0>> \in DOMAIN b.msg[m].vp THEN k.msg[m].vp = b.msg[m].vp
        ELSE Puts(b.msg[m].vp, k.msg[m].vp, <<i, 0>>, Append(g.msg[m].data, ChunkOf(t)))
    BY <1>7, <1>12, <1>13, <1>19
  <2> QED  BY <2>2, <2>3 DEF Ended
<1>21. a.msg[m].vp \in Mapping
  <2>1. a.msg[m] \in Envelope
    BY Zenon, <1>4, ManagerIs
  <2> QED  BY <2>1 DEF Envelope
<1>22. GotLast(g, k, m, t)
  BY Zenon, <1>13, <1>14, <1>17, <1>20, <1>21 DEF GotLast, i
<1> QED  BY <1>18, <1>22

(* Nothing but missing is set when there is no room. *)
GotNone(g, k, m) ==
    /\ Own(k, {}) /\ Kept(g, k, m) /\ k.msgs = g.msgs /\ k.msg[m].missing = TRUE

Missed(g, m) == [g EXCEPT !.msg[m].missing = TRUE]

(* A message that misses a parameter is as it was. *)
LEMMA MissedIs ==
    ASSUME NEW g, Own(g, {}), NEW m \in Msg, NEW k, k = Missed(g, m)
    PROVE  GotNone(g, k, m)
<1>0. g \in Manager
  BY DEF Own
<1>1. g.msg \in [Msg -> Envelope] /\ g.msg[m] \in Envelope
  BY <1>0, ManagerIs
<1> DEFINE e == g.msg[m]  z == [e EXCEPT !.missing = TRUE]
<1>2. z \in Envelope /\ z.tlvs = e.tlvs /\ z.frag = e.frag /\ z.missing = TRUE
  <2>1. e \in Envelope
    BY <1>1
  <2> HIDE DEF e
  <2> QED  BY <2>1 DEF Envelope
<1>3. /\ k.msgs = g.msgs /\ k.free = g.free /\ k.prm = g.prm /\ k.msg = [g.msg EXCEPT ![m] = z]
      /\ k = [msgs |-> k.msgs, free |-> k.free, prm |-> k.prm, msg |-> k.msg]
  BY <1>0, <1>1 DEF Manager, Missed
<1> HIDE DEF z, e
<1>4. k.msg[m] = z /\ \A o \in Msg \ {m} : k.msg[o] = g.msg[o]
  BY <1>1, <1>3
<1>5. k \in Manager
  <2>1. k.msg \in [Msg -> Envelope]
    BY <1>1, <1>2, <1>3
  <2> QED  BY <1>0, <1>3, <2>1, ManagerIs DEF Manager
<1>6. \A o \in Msg : k.msg[o].tlvs = g.msg[o].tlvs /\ k.msg[o].frag = g.msg[o].frag
  BY <1>2, <1>4 DEF e
<1> DEFINE Y == {}
<1>7. Own(g, Y)
  OBVIOUS
<1> HIDE DEF Y
<1>8. Own(k, Y)
  BY <1>3, <1>5, <1>6, <1>7, OwnSame
<1>9. Kept(g, k, m)
  BY <1>3, <1>4 DEF Kept
<1> QED  BY <1>2, <1>3, <1>4, <1>8, <1>9 DEF GotNone, Y

(* One parameter of a packet. *)
Got(g, k, m, t) ==
    /\ Steady(g, k, m)
    /\ CASE t.frag /\ g.msg[m].frag = NoParam -> GotFirst(g, k, m, t)
         [] t.frag /\ g.msg[m].frag # NoParam -> GotMore(g, k, m, t)
         [] ~ t.frag /\ g.msg[m].frag = NoParam -> GotWhole(g, k, m, t)
         [] ~ t.frag /\ g.msg[m].frag # NoParam -> GotLast(g, k, m, t)

(* Every parameter that arrives is one of these cases. *)
LEMMA RecvParamIs ==
    ASSUME NEW g, Own(g, {}), NEW m \in Msg, g.msgs[m] = 0, NEW t \in Parts,
           NEW k, k = RecvParam(g, m, t)
    PROVE  GotNone(g, k, m) \/ Got(g, k, m, t)
<1> DEFINE p == NextParam(g, TypeOf(t.id))  h == NewParam(g, t.id, t.from, t.len)  f == g.msg[m].frag
<1>0. t.frag \in BOOLEAN
  BY DEF Parts
<1>1. CASE ~ Available(g, TypeOf(t.id))
  <2>1. k = Missed(g, m)
    BY <1>1 DEF RecvParam, Missed
  <2> QED  BY <2>1, MissedIs
<1>2. CASE Available(g, TypeOf(t.id))
  <2>1. Taken(g, h, m, p, t)
    <3> HIDE DEF p, h
    <3>1. p = NextParam(g, TypeOf(t.id)) /\ h = NewParam(g, t.id, t.from, t.len)
      BY DEF p, h
    <3> QED  BY <1>2, <3>1, TakenIs
  <2>2. k = IF t.frag THEN IF f = NoParam THEN FirstFragment(h, m, p) ELSE MoreFragment(h, m, f, p)
            ELSE IF f = NoParam THEN WholeParam(h, m, p) ELSE LastFragment(h, m, f, p)
    BY <1>2 DEF RecvParam
  <2> HIDE DEF p, h
  <2>3. CASE t.frag /\ f = NoParam
    <3>1. k = FirstFragment(h, m, p)
      BY <2>2, <2>3
    <3>2. Steady(g, k, m) /\ GotFirst(g, k, m, t)
      BY <2>1, <2>3, <3>1, FirstIs
    <3> QED  BY <2>3, <3>2 DEF Got
  <2>4. CASE t.frag /\ f # NoParam
    <3>1. k = MoreFragment(h, m, f, p)
      BY <2>2, <2>4
    <3>2. Steady(g, k, m) /\ GotMore(g, k, m, t)
      BY <2>1, <2>4, <3>1, MoreIs
    <3> QED  BY <2>4, <3>2 DEF Got
  <2>5. CASE ~ t.frag /\ f = NoParam
    <3>1. k = WholeParam(h, m, p)
      BY <2>2, <2>5
    <3>2. Steady(g, k, m) /\ GotWhole(g, k, m, t)
      BY <2>1, <2>5, <3>1, WholeIs
    <3> QED  BY <2>5, <3>2 DEF Got
  <2>6. CASE ~ t.frag /\ f # NoParam
    <3>1. k = LastFragment(h, m, f, p)
      BY <2>2, <2>6
    <3>2. Steady(g, k, m) /\ GotLast(g, k, m, t)
      BY <2>1, <2>6, <3>1, LastIs
    <3> QED  BY <2>6, <3>2 DEF Got
  <2> QED  BY <1>0, <2>3, <2>4, <2>5, <2>6
<1> QED  BY <1>1, <1>2

-----------------------------------------------------------------------------
(* What the receiver has got at each place. *)

PieceOf(i, j) == [from |-> DATA_SZ * j, len |-> LengthOf(i, j)]
Begun(i, j) == [k \in 1 .. j |-> PieceOf(i, k - 1)]

(* A piece of a value has an offset and a length. *)
LEMMA PieceOfIs ==
    ASSUME NEW i \in Id, NEW j \in Nat, j < Fragments(i)
    PROVE  PieceOf(i, j) \in Chunk
<1>1. Fragments(i) \in Nat /\ Size[i] \in Nat /\ DATA_SZ * (Fragments(i) - 1) < Size[i]
  BY FragmentsIs
<1>2. LengthOf(i, j) \in Nat
  <2>1. CASE j + 1 < Fragments(i)
    BY <2>1 DEF LengthOf, DATA_SZ
  <2>2. CASE ~ (j + 1 < Fragments(i))
    <3>1. Fragments(i) - 1 = j
      BY <1>1, <2>2
    <3> QED  BY <1>1, <2>2, <3>1 DEF LengthOf, DATA_SZ
  <2> QED  BY <2>1, <2>2
<1> QED  BY <1>2 DEF PieceOf, Chunk, DATA_SZ

(* The pieces in front of a place, one after the other; all of them are    *)
(* the value.                                                              *)
LEMMA BegunIs ==
    ASSUME NEW i \in Id, NEW j \in Nat, j <= Fragments(i)
    PROVE  /\ Begun(i, j) \in [1 .. j -> Chunk] /\ Begun(i, j) \in Seq(Chunk) /\ Len(Begun(i, j)) = j
           /\ j < Fragments(i) => Append(Begun(i, j), PieceOf(i, j)) = Begun(i, j + 1)
           /\ Begun(i, 1) = <<PieceOf(i, 0)>>
           /\ Begun(i, Fragments(i)) = Pieces(i)
<1>1. Fragments(i) \in Nat
  BY FragmentsIs
<1>2. Begun(i, j) \in [1 .. j -> Chunk]
  <2>1. \A k \in 1 .. j : PieceOf(i, k - 1) \in Chunk
    <3> SUFFICES ASSUME NEW k \in 1 .. j PROVE PieceOf(i, k - 1) \in Chunk
      OBVIOUS
    <3>1. k - 1 \in Nat /\ k - 1 < Fragments(i)
      BY <1>1
    <3> QED  BY <3>1, PieceOfIs
  <2> QED  BY <2>1 DEF Begun
<1>3. Begun(i, j) \in Seq(Chunk) /\ Len(Begun(i, j)) = j
  BY <1>2
<1>4. ASSUME j < Fragments(i) PROVE Append(Begun(i, j), PieceOf(i, j)) = Begun(i, j + 1)
  <2> DEFINE s == Begun(i, j)  c == PieceOf(i, j)  z == Begun(i, j + 1)
  <2>1. c \in Chunk
    BY <1>4, PieceOfIs
  <2>2. DOMAIN z = 1 .. j + 1 /\ z = [k \in 1 .. j + 1 |-> z[k]] /\ z[j + 1] = c
        /\ \A k \in 1 .. j : z[k] = s[k]
    <3>1. (j + 1) - 1 = j
      OBVIOUS
    <3>2. z = [k \in 1 .. j + 1 |-> PieceOf(i, k - 1)] /\ s = [k \in 1 .. j |-> PieceOf(i, k - 1)]
      BY DEF Begun
    <3> HIDE DEF z, s
    <3>3. j + 1 \in 1 .. j + 1 /\ \A k \in 1 .. j : k \in 1 .. j + 1
      OBVIOUS
    <3>4. z[j + 1] = PieceOf(i, (j + 1) - 1)
      BY <3>2, <3>3
    <3>5. \A k \in 1 .. j : z[k] = s[k]
      BY <3>2, <3>3
    <3> QED  BY <3>1, <3>2, <3>4, <3>5
  <2> HIDE DEF s, c, z
  <2>3. s \in Seq(Chunk) /\ Len(s) = j
    BY <1>3 DEF s
  <2>4. Append(s, c) \in Seq(Chunk) /\ Len(Append(s, c)) = j + 1
        /\ \A k \in 1 .. j + 1 : Append(s, c)[k] = z[k]
    BY <2>1, <2>2, <2>3
  <2> DEFINE u == Append(s, c)  l == j + 1
  <2>7. u \in Seq(Chunk) /\ Len(u) = l /\ l \in Nat /\ \A k \in 1 .. l : u[k] = z[k]
    BY <2>4
  <2>8. z = [k \in 1 .. l |-> z[k]]
    BY <2>2
  <2> HIDE DEF u, l
  <2>5. u = [k \in 1 .. l |-> u[k]]
    BY <2>7
  <2>9. u = z
    BY <2>5, <2>7, <2>8
  <2>6. Append(s, c) = z
    BY <2>9 DEF u
  <2> QED  BY <2>6 DEF s, c, z
<1>5. Begun(i, 1) = <<PieceOf(i, 0)>>
  <2>1. \A k \in 1 .. 1 : k = 1 /\ k - 1 = 0
    OBVIOUS
  <2>2. Begun(i, 1) = [k \in 1 .. 1 |-> PieceOf(i, 0)]
    BY <2>1 DEF Begun
  <2> QED  BY <2>2
<1>6. Begun(i, Fragments(i)) = Pieces(i)
  <2> SUFFICES ASSUME NEW k \in 1 .. Fragments(i)
               PROVE  PieceOf(i, k - 1) = [from |-> DATA_SZ * (k - 1),
                         len |-> IF k < Fragments(i) THEN DATA_SZ ELSE Size[i] - DATA_SZ * (k - 1)]
    BY DEF Begun, Pieces
  <2>1. (k - 1) + 1 = k
    BY <1>1
  <2> QED  BY <2>1 DEF PieceOf, LengthOf
<1> QED  BY <1>2, <1>3, <1>4, <1>5, <1>6

(* The vpmap after all of the values D and j pieces of value c. *)
Stored(i) == i \notin Octets \/ Fragmented(i)
Vp(v, D, c, j) ==
    /\ v \in Mapping
    /\ \A i \in Id, q \in Nat : <<i, q>> \in DOMAIN v <=>
          (i \in D /\ Stored(i) /\ q = 0) \/ (i = c /\ c \notin Octets /\ q < j)
    /\ \A i \in D : Stored(i) => v[<<i, 0>>] = Pieces(i)
    /\ \A q \in Nat : q < j /\ c \notin Octets => v[<<c, q>>] = <<PieceOf(c, q)>>

(* Only octets are kept apart from the vpmap. *)
LEMMA TypeOfIs == \A i : TypeOf(i) = "variant" <=> i \notin Octets
BY DEF TypeOf

(* The keys of the vpmap. *)
LEMMA KeyIs ==
    ASSUME NEW v \in Mapping, NEW k \in DOMAIN v
    PROVE  k = <<k[1], k[2]>> /\ k[1] \in Id /\ k[2] \in Nat
BY MappingIs DEF Keys

(* A message that has been reset has nothing in its vpmap. *)
LEMMA VpStart == ASSUME NEW c PROVE Vp(<<>>, {}, c, 0)
<1>1. <<>> \in Mapping /\ DOMAIN <<>> = {}
  BY MappingIs
<1> QED  BY <1>1 DEF Vp

(* A value that has no pieces yet is like any other. *)
LEMMA VpOther ==
    ASSUME NEW v, NEW D, NEW c, NEW b, Vp(v, D, c, 0)
    PROVE  Vp(v, D, b, 0)
<1>1. \A q \in Nat : ~ (q < 0)
  OBVIOUS
<1> QED  BY <1>1 DEF Vp

(* One more piece of the value that is being received. *)
LEMMA VpMore ==
    ASSUME NEW v, NEW D \in SUBSET Id, NEW c \in Id \ D, NEW j \in Nat, Vp(v, D, c, j),
           NEW w \in Mapping, Octet(v, w, c, j, PieceOf(c, j))
    PROVE  Vp(w, D, c, j + 1)
<1>1. CASE c \in Octets
  <2>1. w = v
    BY <1>1, TypeOfIs DEF Octet
  <2> QED  BY <1>1, <2>1 DEF Vp
<1>2. CASE c \notin Octets
  <2>1. Puts(v, w, <<c, j>>, <<PieceOf(c, j)>>)
    BY <1>2, TypeOfIs DEF Octet
  <2>2. \A i \in Id, q \in Nat : <<i, q>> \in DOMAIN w <=> <<i, q>> \in DOMAIN v \/ (i = c /\ q = j)
    BY <2>1 DEF Puts
  <2>3. \A q \in Nat : q < j + 1 <=> q < j \/ q = j
    OBVIOUS
  <2>4. \A i \in Id, q \in Nat : <<i, q>> \in DOMAIN w <=>
          (i \in D /\ Stored(i) /\ q = 0) \/ (i = c /\ c \notin Octets /\ q < j + 1)
    BY <1>2, <2>2, <2>3 DEF Vp
  <2>5. ASSUME NEW i \in D, Stored(i) PROVE w[<<i, 0>>] = Pieces(i)
    <3>1. <<i, 0>> \in DOMAIN v /\ <<i, 0>> # <<c, j>> /\ v[<<i, 0>>] = Pieces(i)
      BY <2>5 DEF Vp
    <3> QED  BY <2>1, <3>1 DEF Puts
  <2>6. ASSUME NEW q \in Nat, q < j + 1 PROVE w[<<c, q>>] = <<PieceOf(c, q)>>
    <3>1. CASE q = j
      BY <2>1, <3>1 DEF Puts
    <3>2. CASE q < j
      <4>1. <<c, q>> \in DOMAIN v /\ <<c, q>> # <<c, j>> /\ v[<<c, q>>] = <<PieceOf(c, q)>>
        BY <1>2, <3>2 DEF Vp
      <4> QED  BY <2>1, <4>1 DEF Puts
    <3> QED  BY <2>6, <3>1, <3>2
  <2> QED  BY <2>4, <2>5, <2>6 DEF Vp
<1> QED  BY <1>1, <1>2

(* A value in one piece. *)
LEMMA VpWhole ==
    ASSUME NEW v, NEW D \in SUBSET Id, NEW c \in Id \ D, Vp(v, D, c, 0), Fragments(c) = 1,
           NEW w \in Mapping, Octet(v, w, c, 0, PieceOf(c, 0)), NEW b
    PROVE  Vp(w, D \cup {c}, b, 0)
<1>1. Pieces(c) = <<PieceOf(c, 0)>> /\ ~ Fragmented(c)
  <2>1. 0 \in Nat /\ 0 <= Fragments(c)
    OBVIOUS
  <2> QED  BY <2>1, BegunIs, FragmentsIs
<1>2. \A q \in Nat : ~ (q < 0)
  OBVIOUS
<1>3. CASE c \in Octets
  <2>1. w = v /\ ~ Stored(c)
    BY <1>1, <1>3, TypeOfIs DEF Octet, Stored
  <2> QED  BY <1>2, <1>3, <2>1 DEF Vp
<1>4. CASE c \notin Octets
  <2>1. Puts(v, w, <<c, 0>>, <<PieceOf(c, 0)>>) /\ Stored(c)
    BY <1>4, TypeOfIs DEF Octet, Stored
  <2>2. \A i \in Id, q \in Nat : <<i, q>> \in DOMAIN w <=> <<i, q>> \in DOMAIN v \/ (i = c /\ q = 0)
    BY <2>1 DEF Puts
  <2>3. \A i \in Id, q \in Nat : <<i, q>> \in DOMAIN w <=>
          (i \in D \cup {c} /\ Stored(i) /\ q = 0) \/ (i = b /\ b \notin Octets /\ q < 0)
    BY <1>2, <2>1, <2>2 DEF Vp
  <2>4. ASSUME NEW i \in D \cup {c}, Stored(i) PROVE w[<<i, 0>>] = Pieces(i)
    <3>1. CASE i = c
      BY <1>1, <2>1, <3>1 DEF Puts
    <3>2. CASE i # c
      <4>1. <<i, 0>> \in DOMAIN v /\ <<i, 0>> # <<c, 0>> /\ v[<<i, 0>>] = Pieces(i)
        BY <2>4, <3>2 DEF Vp
      <4> QED  BY <2>1, <4>1 DEF Puts
    <3> QED  BY <3>1, <3>2
  <2> QED  BY <1>2, <2>3, <2>4 DEF Vp
<1> QED  BY <1>3, <1>4

(* The last piece: the value is in the vpmap in full. *)
LEMMA VpEnd ==
    ASSUME NEW u, NEW D \in SUBSET Id, NEW c \in Id \ D, Fragments(c) > 1, Vp(u, D, c, Fragments(c)),
           NEW w \in Mapping, Ended(u, w, c, Pieces(c)), NEW b
    PROVE  Vp(w, D \cup {c}, b, 0)
<1> DEFINE n == Fragments(c)
<1>1. n \in Nat /\ Fragmented(c) /\ Stored(c) /\ u \in Mapping /\ n - 1 \in Nat
  BY FragmentsIs DEF Stored, Vp
<1>2. \A q \in Nat : ~ (q < 0)
  OBVIOUS
<1>3. PICK v : /\ IF TypeOf(c) # "variant" \/ <<c, 0>> \notin DOMAIN u THEN v = u ELSE Merges(u, v, c)
               /\ IF <<c, 0>> \in DOMAIN v THEN w = v ELSE Puts(v, w, <<c, 0>>, Pieces(c))
  BY DEF Ended
<1>4. /\ \A i \in Id, q \in Nat : <<i, q>> \in DOMAIN u <=>
          (i \in D /\ Stored(i) /\ q = 0) \/ (i = c /\ c \notin Octets /\ q < n)
      /\ \A i \in D : Stored(i) => u[<<i, 0>>] = Pieces(i)
      /\ \A q \in Nat : q < n /\ c \notin Octets => u[<<c, q>>] = <<PieceOf(c, q)>>
  BY DEF Vp
<1>5. /\ \A i \in Id, q \in Nat : <<i, q>> \in DOMAIN w <=>
          (i \in D /\ Stored(i) /\ q = 0) \/ (i = c /\ q = 0)
      /\ w[<<c, 0>>] = Pieces(c)
      /\ \A i \in D : Stored(i) => w[<<i, 0>>] = Pieces(i)
  <2>1. CASE c \in Octets
    <3>1. v = u /\ <<c, 0>> \notin DOMAIN u
      BY <1>3, <1>4, <2>1, TypeOfIs
    <3>2. Puts(u, w, <<c, 0>>, Pieces(c))
      BY <1>3, <3>1
    <3>3. \A i \in Id, q \in Nat : <<i, q>> \in DOMAIN w <=> <<i, q>> \in DOMAIN u \/ (i = c /\ q = 0)
      BY <3>2 DEF Puts
    <3>4. ASSUME NEW i \in D, Stored(i) PROVE w[<<i, 0>>] = Pieces(i)
      <4>1. <<i, 0>> \in DOMAIN u /\ <<i, 0>> # <<c, 0>> /\ u[<<i, 0>>] = Pieces(i)
        BY <1>4, <3>4
      <4> QED  BY <3>2, <4>1 DEF Puts
    <3> QED  BY <1>4, <2>1, <3>2, <3>3, <3>4 DEF Puts
  <2>2. CASE c \notin Octets
    <3>1. <<c, 0>> \in DOMAIN u
      BY <1>1, <1>4, <2>2
    <3>2. Merges(u, v, c)
      BY <1>3, <2>2, <3>1, TypeOfIs
    <3>3. w = v
      BY <1>3, <3>2 DEF Merges
    <3>4. Merged(u, c) = Pieces(c)
      <4> DEFINE l == n - 1  s == Begun(c, n)
      <4>1. l \in Nat /\ l + 1 = n /\ \A q \in Nat : q < n <=> q <= l
        BY <1>1
      <4>2. s \in [1 .. n -> Chunk] /\ s = Pieces(c)
        <5>1. n <= Fragments(c)
          BY <1>1
        <5> QED  BY <1>1, <5>1, BegunIs
      <4>3. \A q \in 0 .. l : u[<<c, q>>] = <<s[q + 1]>>
        <5> SUFFICES ASSUME NEW q \in 0 .. l PROVE u[<<c, q>>] = <<s[q + 1]>>
          OBVIOUS
        <5>1. q \in Nat /\ q < n /\ q + 1 \in 1 .. n /\ (q + 1) - 1 = q
          BY <1>1
        <5>2. s[q + 1] = PieceOf(c, (q + 1) - 1)
          BY <5>1 DEF Begun
        <5> QED  BY <1>4, <2>2, <5>1, <5>2
      <4>4. \A q \in Nat : <<c, q>> \in DOMAIN u <=> q <= l
        BY <1>4, <2>2, <4>1
      <4> HIDE DEF s, l
      <4>5. s \in [1 .. l + 1 -> Chunk]
        BY <4>1, <4>2
      <4>6. Merged(u, c) = s
        BY <1>1, <4>1, <4>3, <4>4, <4>5, MergedIs
      <4> QED  BY <4>2, <4>6
    <3>5. ASSUME NEW i \in Id, NEW q \in Nat
          PROVE  <<i, q>> \in DOMAIN w <=> (i \in D /\ Stored(i) /\ q = 0) \/ (i = c /\ q = 0)
      <4>1. <<i, q>> \in DOMAIN w <=> (<<i, q>> \in DOMAIN u /\ i # c) \/ (i = c /\ q = 0)
        BY <3>2, <3>3 DEF Merges
      <4> QED  BY <1>4, <4>1
    <3>6. ASSUME NEW i \in D, Stored(i) PROVE w[<<i, 0>>] = Pieces(i)
      <4>1. <<i, 0>> \in DOMAIN u /\ <<i, 0>>[1] # c /\ u[<<i, 0>>] = Pieces(i)
        BY <1>4, <3>6
      <4> QED  BY <3>2, <3>3, <4>1 DEF Merges
    <3> QED  BY <3>2, <3>3, <3>4, <3>5, <3>6 DEF Merges
  <2> QED  BY <2>1, <2>2
<1>6. \A i \in Id, q \in Nat : <<i, q>> \in DOMAIN w <=>
          (i \in D \cup {c} /\ Stored(i) /\ q = 0) \/ (i = b /\ b \notin Octets /\ q < 0)
  BY <1>1, <1>2, <1>5
<1> QED  BY <1>1, <1>2, <1>5, <1>6 DEF Vp

(* The values the receiver has all of, at place x. *)
Done(ord, n) == {ord[k] : k \in 1 .. n}

(* The octets that are not in the vpmap are among the parameters. *)
Shorts(g, m) == {p \in Range(g.msg[m].tlvs) : p[1] = "octets"}
Plain(g, m, D) ==
    /\ \A p \in Shorts(g, m) : /\ g.prm[p].id \in D /\ ~ Stored(g.prm[p].id)
                               /\ Piece(g, p) = PieceOf(g.prm[p].id, 0)
    /\ \A i \in D : ~ Stored(i) => \E p \in Shorts(g, m) : g.prm[p].id = i

(* frag_param and data are about the value that is being received. *)
Cut(g, m, c, j) ==
    IF j = 0 THEN g.msg[m].frag = NoParam
    ELSE /\ g.msg[m].frag # NoParam /\ g.prm[g.msg[m].frag].findex + 1 = j
         /\ g.msg[m].data = Begun(c, j)

(* The receiver of a message has come to place x. *)
Recvs(g, m, ord, x) ==
    /\ ord \in Seq(Id) /\ IsInjective(ord) /\ x \in Places(ord) /\ g.msgs[m] = 0
    /\ Cut(g, m, ord[x[1] + 1], x[2])
    /\ Vp(g.msg[m].vp, Done(ord, x[1]), ord[x[1] + 1], x[2])
    /\ Plain(g, m, Done(ord, x[1]))

(* A change that leaves the parameters of the message alone. *)
LEMMA PlainSame ==
    ASSUME NEW g \in Manager, NEW m \in Msg, NEW k, NEW D, Plain(g, m, D),
           k.msg[m].tlvs = g.msg[m].tlvs, \A x \in Range(g.msg[m].tlvs) : k.prm[x] = g.prm[x]
    PROVE  Plain(k, m, D) /\ \A c : Stored(c) => Plain(k, m, D \cup {c})
<1>1. Shorts(k, m) = Shorts(g, m) /\ \A p \in Shorts(g, m) : k.prm[p] = g.prm[p]
  BY DEF Shorts
<1> QED  BY <1>1 DEF Plain, Piece

(* A value that has become a parameter of the message. *)
LEMMA PlainMore ==
    ASSUME NEW g \in Manager, NEW m \in Msg, NEW k, NEW D, Plain(g, m, D), NEW c, Fragments(c) = 1, c \in Id,
           NEW p \in Param, p[1] = TypeOf(c), k.prm[p].id = c, Piece(k, p) = PieceOf(c, 0),
           k.msg[m].tlvs = Append(g.msg[m].tlvs, p),
           \A x \in Range(g.msg[m].tlvs) : k.prm[x] = g.prm[x]
    PROVE  Plain(k, m, D \cup {c})
<1>1. Range(k.msg[m].tlvs) = Range(g.msg[m].tlvs) \cup {p}
  BY ManagerIs, FreshEnds
<1>2. Stored(c) <=> p[1] # "octets"
  BY FragmentsIs DEF Stored, TypeOf
<1>3. Shorts(k, m) = IF Stored(c) THEN Shorts(g, m) ELSE Shorts(g, m) \cup {p}
  BY <1>1, <1>2 DEF Shorts
<1>4. \A q \in Shorts(g, m) : k.prm[q] = g.prm[q] /\ Piece(k, q) = Piece(g, q)
  BY DEF Shorts, Piece
<1>5. CASE Stored(c)
  BY <1>3, <1>4, <1>5 DEF Plain
<1>6. CASE ~ Stored(c)
  BY <1>3, <1>4, <1>6 DEF Plain
<1> QED  BY <1>5, <1>6

(* The values that are complete, after one more. *)
LEMMA DoneIs ==
    ASSUME NEW ord \in Seq(Id), IsInjective(ord), NEW n \in Nat, n < Len(ord)
    PROVE  /\ Done(ord, n) \in SUBSET Id /\ ord[n + 1] \in Id \ Done(ord, n)
           /\ Done(ord, n + 1) = Done(ord, n) \cup {ord[n + 1]}
<1>1. \A k \in 1 .. n + 1 : k \in DOMAIN ord /\ ord[k] \in Id
  OBVIOUS
<1>2. \A k \in 1 .. n : ord[k] # ord[n + 1]
  BY <1>1 DEF IsInjective
<1>3. \A k : k \in 1 .. n + 1 <=> k \in 1 .. n \/ k = n + 1
  OBVIOUS
<1> QED  BY <1>1, <1>2, <1>3 DEF Done

(* One piece takes the receiver to the next place. *)
LEMMA GotIs ==
    ASSUME NEW g, Own(g, {}), NEW m \in Msg, NEW ord, NEW x, Recvs(g, m, ord, x), ~ Ends(ord, x),
           NEW t, IsPart(ord, x, t), NEW k, Got(g, k, m, t)
    PROVE  Recvs(k, m, ord, After(ord, x))
<1> DEFINE n == x[1]  c == ord[n + 1]  j == x[2]  D == Done(ord, n)  f == g.msg[m].frag  y == After(ord, x)
           v == g.msg[m].vp  w == k.msg[m].vp
<1>0. g \in Manager /\ k \in Manager /\ Steady(g, k, m) /\ g.msgs[m] = 0
  BY DEF Own, Got, Steady, Recvs
<1>1. /\ ord \in Seq(Id) /\ IsInjective(ord) /\ x \in Places(ord) /\ Cut(g, m, c, j)
      /\ Vp(v, D, c, j) /\ Plain(g, m, D)
  BY DEF Recvs
<1>2. /\ n \in Nat /\ n < Len(ord) /\ j \in Nat /\ j < Fragments(c) /\ y \in Places(ord)
  <2>1. n \in Nat /\ n < Len(ord) /\ j \in Nat /\ j < Fragments(c)
    BY <1>1 DEF Places, Ends
  <2> QED  BY <1>1, <2>1, AfterIs
<1>3. D \in SUBSET Id /\ c \in Id \ D /\ Done(ord, n + 1) = D \cup {c}
  BY <1>1, <1>2, DoneIs
<1>4. /\ t \in Parts /\ t.id = c /\ ChunkOf(t) = PieceOf(c, j) /\ (t.frag <=> j + 1 < Fragments(c))
      /\ t.frag \in BOOLEAN
  BY DEF IsPart, ChunkOf, PieceOf, Parts
<1>5. Fragments(c) \in Nat
  BY <1>3, FragmentsIs
<1>6. k.msgs[m] = 0 /\ \A p \in Range(g.msg[m].tlvs) : k.prm[p] = g.prm[p]
  BY <1>0 DEF Steady
<1>7. w \in Mapping
  <2>1. k.msg[m] \in Envelope
    BY <1>0, ManagerIs
  <2> QED  BY <2>1 DEF Envelope
<1>8. f = NoParam <=> j = 0
  BY <1>1 DEF Cut
<1>y. y = IF j + 1 < Fragments(c) THEN <<n, j + 1>> ELSE <<n + 1, 0>>
  BY DEF After
<1>9. CASE t.frag
  <2>0. j + 1 < Fragments(c)
    BY <1>4, <1>9
  <2>1. y[1] = n /\ y[2] = j + 1 /\ j + 1 <= Fragments(c)
    <3>1. y = <<n, j + 1>>
      BY <2>0, <1>y
    <3>2. j + 1 <= Fragments(c)
      BY <1>2, <1>5, <2>0
    <3> HIDE DEF y, n, j, c
    <3> QED  BY <3>1, <3>2
  <2>2. ASSUME Octet(v, w, c, j, PieceOf(c, j)), k.msg[m].tlvs = g.msg[m].tlvs, Cut(k, m, c, j + 1)
        PROVE  Recvs(k, m, ord, y)
    <3> HIDE DEF y, D, c, j, n, v, w
    <3>1. Vp(w, D, c, j + 1)
      BY <1>1, <1>2, <1>3, <1>7, <2>2, VpMore
    <3>2. Plain(k, m, D)
      BY <1>0, <1>1, <1>6, <2>2, PlainSame
    <3> QED  BY <1>1, <1>2, <1>6, <2>1, <2>2, <3>1, <3>2 DEF Recvs, D, c, w
  <2>3. CASE f = NoParam
    <3>1. GotFirst(g, k, m, t) /\ j = 0
      BY <1>8, <1>9, <2>3 DEF Got
    <3>2. Begun(c, 1) = <<PieceOf(c, 0)>>
      <4>1. 0 \in Nat /\ 0 <= Fragments(c) /\ c \in Id
        BY <1>3, <1>5
      <4> HIDE DEF c
      <4> QED  BY <4>1, BegunIs
    <3>3. k.msg[m].frag # NoParam /\ k.prm[k.msg[m].frag].findex = 0 /\ k.msg[m].data = Begun(c, 1)
          /\ k.msg[m].tlvs = g.msg[m].tlvs /\ Octet(v, w, c, 0, PieceOf(c, 0))
      BY <1>4, <3>1, <3>2 DEF GotFirst
    <3>4. Cut(k, m, c, j + 1)
      BY <3>1, <3>3 DEF Cut
    <3> QED  BY <2>2, <3>1, <3>3, <3>4
  <2>4. CASE f # NoParam
    <3>1. GotMore(g, k, m, t) /\ j # 0
      BY <1>8, <1>9, <2>4 DEF Got
    <3>2. g.prm[f].findex + 1 = j /\ g.msg[m].data = Begun(c, j)
      BY <1>1, <3>1 DEF Cut
    <3>3. Append(Begun(c, j), PieceOf(c, j)) = Begun(c, j + 1)
      <4> HIDE DEF c, j
      <4> QED  BY <1>2, <1>3, <1>5, BegunIs
    <3>4. /\ k.msg[m].tlvs = g.msg[m].tlvs /\ k.msg[m].frag = f
          /\ k.prm[f].findex = j
          /\ k.msg[m].data = Begun(c, j + 1)
          /\ Octet(v, w, c, j, PieceOf(c, j))
      BY <1>4, <3>1, <3>2, <3>3 DEF GotMore
    <3>5. Cut(k, m, c, j + 1)
      BY <1>2, <2>4, <3>4 DEF Cut
    <3> QED  BY <2>2, <3>4, <3>5
  <2> QED  BY <2>3, <2>4
<1>10. CASE ~ t.frag
  <2>1. y[1] = n + 1 /\ y[2] = 0 /\ Fragments(c) = j + 1
    BY <1>2, <1>4, <1>5, <1>10, <1>y
  <2>2. ASSUME Vp(w, D \cup {c}, ord[(n + 1) + 1], 0), Plain(k, m, D \cup {c}), k.msg[m].frag = NoParam
        PROVE  Recvs(k, m, ord, y)
    <3> HIDE DEF y, D, n, w
    <3> QED  BY <1>1, <1>2, <1>3, <1>6, <2>1, <2>2 DEF Recvs, Cut, w
  <2>3. CASE f = NoParam
    <3>1. GotWhole(g, k, m, t) /\ j = 0
      BY <1>8, <1>10, <2>3 DEF Got
    <3>2. PICK p \in Param : /\ p[1] = TypeOf(c) /\ k.prm[p].id = c /\ Piece(k, p) = PieceOf(c, 0)
                             /\ k.msg[m].tlvs = Append(g.msg[m].tlvs, p) /\ k.msg[m].frag = f
                             /\ Octet(v, w, c, 0, PieceOf(c, 0))
      BY <1>4, <3>1 DEF GotWhole
    <3>3. Fragments(c) = 1
      BY <2>1, <3>1
    <3> DEFINE b == ord[(n + 1) + 1]
    <3> HIDE DEF c, D, v, w, b
    <3>4. Vp(v, D, c, 0)
      BY <1>1, <3>1
    <3>5. Vp(w, D \cup {c}, b, 0)
      BY <1>3, <1>7, <3>2, <3>3, <3>4, VpWhole
    <3>6. Plain(k, m, D \cup {c})
      BY <1>0, <1>1, <1>3, <1>6, <3>2, <3>3, PlainMore
    <3> QED  BY <2>2, <2>3, <3>2, <3>5, <3>6 DEF b, c, D, w
  <2>4. CASE f # NoParam
    <3>1. GotLast(g, k, m, t) /\ j # 0
      BY <1>8, <1>10, <2>4 DEF Got
    <3>2. g.prm[f].findex + 1 = j /\ g.msg[m].data = Begun(c, j)
      BY <1>1, <3>1 DEF Cut
    <3>3. Append(Begun(c, j), PieceOf(c, j)) = Pieces(c)
      <4>1. Append(Begun(c, j), PieceOf(c, j)) = Begun(c, j + 1)
        <5> HIDE DEF c, j
        <5> QED  BY <1>2, <1>3, <1>5, BegunIs
      <4>2. Begun(c, Fragments(c)) = Pieces(c)
        <5> HIDE DEF c, j
        <5> QED  BY <1>2, <1>3, <1>5, BegunIs
      <4> QED  BY <2>1, <4>1, <4>2
    <3>4. PICK u \in Mapping : Octet(v, u, c, j, PieceOf(c, j)) /\ Ended(u, w, c, Pieces(c))
      BY <1>4, <3>1, <3>2, <3>3 DEF GotLast
    <3>5. k.msg[m].tlvs = g.msg[m].tlvs /\ k.msg[m].frag = NoParam
      BY <3>1 DEF GotLast
    <3> DEFINE b == ord[(n + 1) + 1]
    <3> HIDE DEF c, D, v, w, b, j
    <3>6. Vp(u, D, c, j + 1)
      BY <1>1, <1>2, <1>3, <3>4, VpMore
    <3>7. Fragments(c) > 1 /\ Vp(u, D, c, Fragments(c))
      BY <1>2, <2>1, <3>1, <3>6
    <3>8. Vp(w, D \cup {c}, b, 0)
      BY <1>3, <1>7, <3>4, <3>7, VpEnd
    <3>9. Stored(c)
      BY <1>3, <3>7, FragmentsIs DEF Stored
    <3>10. Plain(k, m, D \cup {c})
      BY <1>0, <1>1, <1>6, <3>5, <3>9, PlainSame
    <3> QED  BY <2>2, <3>5, <3>8, <3>10 DEF b, c, D, w
  <2> QED  BY <2>3, <2>4
<1> QED  BY <1>4, <1>9, <1>10

(* A whole packet. *)
LEMMA RecvParamsIs ==
    ASSUME NEW g, Own(g, {}), NEW m \in Msg, g.msgs[m] = 0, NEW ord, NEW pkt, NEW x, NEW y,
           Carries(ord, pkt, x, y), g.msg[m].missing = FALSE => Recvs(g, m, ord, x),
           NEW k, k = RecvParams(g, m, pkt)
    PROVE  /\ Own(k, {}) /\ Kept(g, k, m) /\ k.msgs = g.msgs
           /\ k.msg[m].missing = FALSE => Recvs(k, m, ord, y)
<1> DEFINE n == Len(pkt)
<1>1. pkt \in Seq(Parts) /\ n \in Nat /\ DOMAIN pkt = 1 .. n
  BY DEF Carries
<1>2. PICK w : /\ w[0] = x /\ w[n] = y
               /\ \A i \in 1 .. n : /\ w[i - 1] \in Places(ord) /\ ~ Ends(ord, w[i - 1])
                                    /\ IsPart(ord, w[i - 1], pkt[i])
                                    /\ w[i] = After(ord, w[i - 1])
  BY DEF Carries
<1> HIDE DEF n
<1>3. PICK r : IsRun(r, "recv", m, n, pkt, g) /\ k = r[n]
  BY <1>1, RecvRun
<1> DEFINE J(i) == /\ Own(r[i], {}) /\ Kept(g, r[i], m) /\ r[i].msgs = g.msgs
                   /\ r[i].msg[m].missing = FALSE => Recvs(r[i], m, ord, w[i])
           T == {i \in 0 .. n : J(i)}
<1>4. J(0)
  <2>1. r[0] = g
    BY <1>3 DEF IsRun
  <2> QED  BY <1>2, <2>1 DEF Kept
<1>5. ASSUME NEW i \in 0 .. n - 1, J(i) PROVE J(i + 1)
  <2> DEFINE a == r[i]  b == r[i + 1]  t == pkt[i + 1]  u == w[i]
  <2>1. i + 1 \in 1 .. n /\ (i + 1) - 1 = i
    BY <1>1
  <2>2. b = RecvParam(a, m, t)
    BY <1>3 DEF IsRun, Does
  <2>3. ~ Ends(ord, u) /\ IsPart(ord, u, t) /\ w[i + 1] = After(ord, u)
    <3>1. ~ Ends(ord, w[(i + 1) - 1]) /\ IsPart(ord, w[(i + 1) - 1], pkt[i + 1])
          /\ w[i + 1] = After(ord, w[(i + 1) - 1])
      BY <1>2, <2>1
    <3> QED  BY <2>1, <3>1
  <2>4. Own(a, {}) /\ Kept(g, a, m) /\ a.msgs = g.msgs /\ a.msgs[m] = 0
        /\ (a.msg[m].missing = FALSE => Recvs(a, m, ord, u))
    BY <1>5
  <2>5. t \in Parts
    BY <2>3 DEF IsPart
  <2> HIDE DEF a, b, t, u
  <2>6. GotNone(a, b, m) \/ Got(a, b, m, t)
    BY <2>2, <2>4, <2>5, RecvParamIs
  <2>7. g \in Manager
    BY DEF Own
  <2>8. CASE GotNone(a, b, m)
    <3>1. Own(b, {}) /\ Kept(a, b, m) /\ b.msgs = a.msgs /\ b.msg[m].missing = TRUE
      BY <2>8 DEF GotNone
    <3>2. Kept(g, b, m)
      BY <2>4, <2>7, <3>1, KeptTrans
    <3> QED  BY <2>4, <3>1, <3>2 DEF b
  <2>9. CASE Got(a, b, m, t)
    <3>1. Own(b, {}) /\ Kept(a, b, m) /\ b.msgs = a.msgs /\ b.msg[m].missing = a.msg[m].missing
      BY <2>9 DEF Got, Steady
    <3>2. Kept(g, b, m)
      BY <2>4, <2>7, <3>1, KeptTrans
    <3>3. ASSUME b.msg[m].missing = FALSE PROVE Recvs(b, m, ord, After(ord, u))
      <4>1. Recvs(a, m, ord, u)
        BY <2>4, <3>1, <3>3
      <4> QED  BY <2>3, <2>4, <2>9, <4>1, GotIs
    <3> QED  BY <2>3, <2>4, <3>1, <3>2, <3>3 DEF b
  <2> QED  BY <2>6, <2>8, <2>9
<1> HIDE DEF J
<1>6. \A i \in 0 .. n : i \in T
  <2>1. 0 \in T /\ \A i \in 0 .. n - 1 : i \in T => i + 1 \in T
    <3>1. \A i \in 0 .. n - 1 : i + 1 \in 0 .. n
      BY <1>1
    <3> QED  BY <1>1, <1>4, <1>5, <3>1
  <2> HIDE DEF T
  <2> QED  BY <1>1, <2>1, AllUpTo
<1>7. J(n)
  BY <1>1, <1>6
<1> QED  BY <1>2, <1>3, <1>7 DEF J

(* At the end the user finds the values that were sent. *)
LEMMA ContentsIs ==
    ASSUME NEW g \in Manager, NEW m \in Msg, NEW ord, NEW x, Recvs(g, m, ord, x), Ends(ord, x)
    PROVE  Contents(g, m) = [k \in Range(ord) \X {0} |-> Pieces(k[1])]
<1> DEFINE v == g.msg[m].vp  D == Range(ord)  S == Shorts(g, m)
           K == DOMAIN v \cup {<<g.prm[p].id, 0>> : p \in S}
<1>1. x[2] = 0 /\ x[1] = Len(ord) /\ ord \in Seq(Id)
  BY DEF Recvs, Places, Ends
<1>2. Done(ord, x[1]) = D
  BY <1>1 DEF Done, Range
<1> DEFINE c == ord[x[1] + 1]
<1>3. Vp(v, D, c, 0) /\ Plain(g, m, D) /\ D \in SUBSET Id
  <2>1. D \in SUBSET Id
    BY <1>1 DEF Range
  <2>2. Vp(v, Done(ord, x[1]), c, x[2]) /\ Plain(g, m, Done(ord, x[1]))
    BY DEF Recvs
  <2> HIDE DEF v, D, c
  <2> QED  BY <1>1, <1>2, <2>1, <2>2
<1> HIDE DEF c
<1>4. Contents(g, m) = [k \in K |-> IF k \in DOMAIN v THEN v[k]
                                   ELSE <<Piece(g, CHOOSE p \in S : g.prm[p].id = k[1])>>]
  BY DEF Contents, Shorts
<1>5. \A q \in Nat : ~ (q < 0)
  OBVIOUS
<1> HIDE DEF v, D, S
<1>6. /\ v \in Mapping
      /\ \A i \in Id, q \in Nat : <<i, q>> \in DOMAIN v <=> i \in D /\ Stored(i) /\ q = 0
      /\ \A i \in D : Stored(i) => v[<<i, 0>>] = Pieces(i)
  BY <1>3, <1>5 DEF Vp
<1>7. /\ \A p \in S : /\ g.prm[p].id \in D /\ ~ Stored(g.prm[p].id)
                      /\ Piece(g, p) = PieceOf(g.prm[p].id, 0)
      /\ \A i \in D : ~ Stored(i) => \E p \in S : g.prm[p].id = i
  BY <1>3 DEF Plain, S
<1>8. K = D \X {0}
  <2>1. ASSUME NEW k \in DOMAIN v PROVE k \in D \X {0}
    <3>1. k = <<k[1], k[2]>> /\ k[1] \in Id /\ k[2] \in Nat
      BY <1>6, KeyIs
    <3>2. <<k[1], k[2]>> \in DOMAIN v
      BY <3>1
    <3>3. k[1] \in D /\ k[2] = 0
      BY <1>6, <3>1, <3>2
    <3> QED  BY <3>1, <3>3
  <2>2. ASSUME NEW p \in S PROVE <<g.prm[p].id, 0>> \in D \X {0}
    BY <1>7
  <2>3. ASSUME NEW i \in D PROVE <<i, 0>> \in K
    <3>1. i \in Id
      BY <1>3
    <3>2. CASE Stored(i)
      BY <1>6, <3>1, <3>2
    <3>3. CASE ~ Stored(i)
      <4>1. PICK p \in S : g.prm[p].id = i
        BY <1>7, <3>3
      <4> QED  BY <4>1
    <3> QED  BY <3>2, <3>3
  <2>4. \A k \in D \X {0} : k = <<k[1], 0>> /\ k[1] \in D
    OBVIOUS
  <2>5. \A k \in K : k \in D \X {0}
    BY <2>1, <2>2
  <2>6. \A k \in D \X {0} : k \in K
    BY <2>3, <2>4
  <2> HIDE DEF K
  <2> QED  BY <2>5, <2>6
<1>9. ASSUME NEW k \in D \X {0}
      PROVE  (IF k \in DOMAIN v THEN v[k]
              ELSE <<Piece(g, CHOOSE p \in S : g.prm[p].id = k[1])>>) = Pieces(k[1])
  <2>1. k = <<k[1], 0>> /\ k[1] \in D /\ k[1] \in Id
    BY <1>3
  <2> DEFINE i == k[1]
  <2> HIDE DEF i
  <2>2. i \in D /\ i \in Id /\ k = <<i, 0>>
    BY <2>1 DEF i
  <2>3. CASE Stored(i)
    <3>1. <<i, 0>> \in DOMAIN v /\ v[<<i, 0>>] = Pieces(i)
      BY <1>6, <2>2, <2>3
    <3> QED  BY <2>2, <3>1 DEF i
  <2>4. CASE ~ Stored(i)
    <3>1. k \notin DOMAIN v
      BY <1>6, <2>2, <2>4
    <3> DEFINE p == CHOOSE p \in S : g.prm[p].id = i
    <3>2. p \in S /\ g.prm[p].id = i
      BY <1>7, <2>2, <2>4
    <3>3. Piece(g, p) = PieceOf(i, 0)
      BY <1>7, <3>2
    <3>4. Pieces(i) = <<PieceOf(i, 0)>>
      <4>1. Fragments(i) = 1 /\ 0 \in Nat /\ 0 <= Fragments(i)
        BY <2>2, <2>4, FragmentsIs DEF Stored
      <4> QED  BY <2>2, <4>1, BegunIs
    <3> QED  BY <3>1, <3>3, <3>4 DEF i
  <2> QED  BY <2>3, <2>4
<1> HIDE DEF K
<1> QED  BY <1>4, <1>8, <1>9 DEF D

-----------------------------------------------------------------------------
(* The messages of the pools. *)

(* A message is taken from the pool, with envelope e. *)
Used(g, m, e) == [g EXCEPT !.msgs[m] = @ - 1, !.msg[m] = e]

(* It is out of the pool, and holds nothing. *)
LEMMA UsedIs ==
    ASSUME NEW g, Own(g, {}), NEW m \in Msg, g.msgs[m] > 0,
           NEW e \in Envelope, e.tlvs = <<>>, e.frag = NoParam, NEW h, h = Used(g, m, e)
    PROVE  /\ Own(h, {}) /\ Kept(g, h, m) /\ h.msgs = [g.msgs EXCEPT ![m] = 0]
           /\ h.prm = g.prm /\ h.msg[m] = e /\ h.msgs[m] = 0 /\ g.msgs[m] = 1
<1>0. g \in Manager
  BY DEF Own
<1>1. g.msgs[m] = 1
  BY <1>0, ManagerIs
<1>2. /\ h.msgs = [g.msgs EXCEPT ![m] = 0] /\ h.free = g.free /\ h.prm = g.prm
      /\ h.msg = [g.msg EXCEPT ![m] = e] /\ h \in Manager
  <2>1. /\ h.msgs = [g.msgs EXCEPT ![m] = g.msgs[m] - 1] /\ h.free = g.free /\ h.prm = g.prm
        /\ h.msg = [g.msg EXCEPT ![m] = e]
        /\ h = [msgs |-> h.msgs, free |-> h.free, prm |-> h.prm, msg |-> h.msg]
    BY <1>0 DEF Manager, Used
  <2>2. g.msgs[m] - 1 = 0
    BY <1>1
  <2>3. h.msgs \in [Msg -> {0, 1}] /\ h.msg \in [Msg -> Envelope]
    BY <1>0, <2>1, <2>2, ManagerIs
  <2> QED  BY <1>0, <2>1, <2>2, <2>3, ManagerIs DEF Manager
<1>3. g.msgs \in [Msg -> {0, 1}] /\ g.msg \in [Msg -> Envelope]
  BY <1>0, ManagerIs
<1>4. h.msg[m] = e /\ h.msgs[m] = 0 /\ \A o \in Msg \ {m} : h.msgs[o] = g.msgs[o] /\ h.msg[o] = g.msg[o]
  BY <1>2, <1>3
<1>5. Kept(g, h, m)
  BY <1>2, <1>4 DEF Kept
<1>6. Pile(h, m) = {} /\ Proper(h, m)
  BY <1>4, EmptyPile
<1>7. Pile(g, m) = {}
  BY <1>1 DEF Pile
<1> DEFINE Y == {}
<1>8. Own(g, Y)
  OBVIOUS
<1>9. Again(g, h, m, Y)
  <2>1. \A x \in Mine(g, m) : x \in Param /\ \A o \in Msg : x \notin Pile(g, o)
    BY <1>7 DEF Mine
  <2>2. \A x \in Mine(g, m) : h.free[x] # 0
    BY <1>2, <2>1 DEF Own
  <2>3. \A x \in Mine(g, m) : h.free[x] = 1 => h.prm[x].linked = <<>>
    BY <1>2, <2>1 DEF Own
  <2> QED  BY <1>2, <1>4, <1>5, <1>6, <2>2, <2>3 DEF Again
<1> HIDE DEF Y
<1>10. Own(h, Y)
  BY <1>2, <1>8, <1>9, OwnAgain
<1> QED  BY <1>1, <1>2, <1>4, <1>5, <1>10 DEF Y

(* gdt_push(): the message of a request. *)
Fetched(g, m) == [g EXCEPT !.msgs[m] = @ - 1]

Draws(g, m, h) == Own(h, {}) /\ Kept(g, h, m) /\ h.msgs[m] = 0 /\ h.msg[m].frag = NoParam

(* It is out of the pool, and holds nothing. *)
LEMMA FetchedIs ==
    ASSUME NEW g, Own(g, {}), NEW m \in Msg, g.msgs[m] > 0, g.msg[m].frag = NoParam,
           NEW h, h = Fetched(g, m)
    PROVE  Draws(g, m, h)
<1> SUFFICES /\ Own(h, {}) /\ Kept(g, h, m) /\ h.msgs = [g.msgs EXCEPT ![m] = 0]
             /\ h.msgs[m] = 0 /\ h.msg[m].frag = NoParam
  BY DEF Draws
<1>0. g \in Manager
  BY DEF Own
<1> DEFINE e == g.msg[m]
<1>1. e \in Envelope /\ e.tlvs = <<>> /\ e.frag = NoParam
  BY <1>0, ManagerIs DEF Own
<1>2. h = Used(g, m, e)
  <2>1. [g.msg EXCEPT ![m] = e] = g.msg
    BY <1>0, ManagerIs
  <2>2. h = [msgs |-> [g.msgs EXCEPT ![m] = @ - 1], free |-> g.free, prm |-> g.prm, msg |-> g.msg]
    BY <1>0 DEF Manager, Fetched
  <2> HIDE DEF e
  <2> SUFFICES ASSUME NEW u, u = Used(g, m, e) PROVE h = u
    OBVIOUS
  <2>3. /\ u.msgs = [g.msgs EXCEPT ![m] = g.msgs[m] - 1] /\ u.free = g.free /\ u.prm = g.prm
        /\ u.msg = [g.msg EXCEPT ![m] = e]
        /\ u = [msgs |-> u.msgs, free |-> u.free, prm |-> u.prm, msg |-> u.msg]
    BY <1>0 DEF Manager, Used
  <2> QED  BY <2>1, <2>2, <2>3
<1> HIDE DEF e
<1> DEFINE Y == {}
<1>3. Own(g, Y)
  OBVIOUS
<1> HIDE DEF Y
<1>4. /\ Own(h, Y) /\ Kept(g, h, m) /\ h.msgs = [g.msgs EXCEPT ![m] = 0]
      /\ h.msg[m] = e /\ h.msgs[m] = 0
  BY <1>1, <1>2, <1>3, UsedIs DEF Y
<1> QED  BY <1>1, <1>4 DEF Y

(* ServiceStreamHandlerNew::run(): the message that is received into. *)
Refreshed(g, m) == [g EXCEPT !.msgs[m] = @ - 1, !.msg[m] = Renewed(@)]

(* It is out of the pool, and ready for the first piece of any message. *)
LEMMA RefreshedIs ==
    ASSUME NEW g, Own(g, {}), NEW m \in Msg, g.msgs[m] > 0, NEW h, h = Refreshed(g, m)
    PROVE  /\ Own(h, {}) /\ Kept(g, h, m) /\ h.msgs = [g.msgs EXCEPT ![m] = 0]
           /\ h.msgs[m] = 0
           /\ \A ord \in Seq(Id) : IsInjective(ord) => Recvs(h, m, ord, <<0, 0>>)
<1>0. g \in Manager
  BY DEF Own
<1> DEFINE e == Renewed(g.msg[m])
<1>1. g.msg[m].tlvs = <<>>
  BY <1>0, ManagerIs DEF Own
<1>2. /\ e \in Envelope /\ e.tlvs = <<>> /\ e.frag = NoParam /\ e.vp = <<>>
  <2> DEFINE q == <<>>
  <2>1. q \in Seq(Param)
    OBVIOUS
  <2>2. NoParam \in Param \cup {NoParam}
    OBVIOUS
  <2>3. e = [Message EXCEPT !.tlvs = q]
    BY <1>1 DEF Renewed
  <2> HIDE DEF e, q
  <2>4. e = [tlvs |-> q, frag |-> NoParam, vp |-> <<>>, data |-> <<>>,
             missing |-> FALSE, pos |-> 0, pindex |-> 0, pc |-> 0] /\ e \in Envelope
    <3> DEFINE r == [tlvs |-> q, frag |-> NoParam, vp |-> <<>>, data |-> <<>>,
             missing |-> FALSE, pos |-> 0, pindex |-> 0, pc |-> 0]
    <3>1. r \in Envelope /\ [Message EXCEPT !.tlvs = q] = r
      BY <2>1, <2>2, FreshEnvelope
    <3> HIDE DEF r
    <3>2. e = r /\ r \in Envelope
      BY <2>3, <3>1
    <3> QED  BY <3>2 DEF r
  <2> QED  BY <2>4 DEF q
<1>3. h = Used(g, m, e)
  BY DEF Used, Refreshed
<1> HIDE DEF e
<1>4. /\ Own(h, {}) /\ Kept(g, h, m) /\ h.msgs = [g.msgs EXCEPT ![m] = 0]
      /\ h.msg[m] = e /\ h.msgs[m] = 0
  BY <1>2, <1>3, UsedIs
<1>5. ASSUME NEW ord \in Seq(Id), IsInjective(ord) PROVE Recvs(h, m, ord, <<0, 0>>)
  <2> DEFINE x == <<0, 0>>  c == ord[x[1] + 1]
  <2>1. x[1] = 0 /\ x[2] = 0 /\ x \in Nat \X Nat
    OBVIOUS
  <2>2. x \in Places(ord)
    <3>1. Len(ord) \in Nat /\ (Len(ord) # 0 => ord[1] \in Id)
      OBVIOUS
    <3>2. Len(ord) # 0 => Fragments(ord[1]) > 0
      BY <3>1, FragmentsIs
    <3> QED  BY <2>1, <3>1, <3>2 DEF Places
  <2>3. Done(ord, x[1]) = {}
    BY <2>1 DEF Done
  <2> HIDE DEF x, c
  <2>4. Vp(h.msg[m].vp, Done(ord, x[1]), c, x[2])
    <3> DEFINE Y == {}  o == <<>>
    <3>1. Vp(o, Y, c, 0)
      BY VpStart
    <3>2. h.msg[m].vp = o /\ Done(ord, x[1]) = Y
      BY <1>2, <1>4, <2>3
    <3> HIDE DEF Y, o
    <3> QED  BY <2>1, <3>1, <3>2
  <2>5. Plain(h, m, Done(ord, x[1]))
    <3>1. Range(<<>>) = {}
      BY DEF Range
    <3>2. Shorts(h, m) = {}
      BY <1>2, <1>4, <3>1 DEF Shorts
    <3> QED  BY <2>3, <3>2 DEF Plain
  <2>6. Cut(h, m, c, x[2])
    BY <1>2, <1>4, <2>1 DEF Cut
  <2>7. Recvs(h, m, ord, x)
    BY <1>4, <1>5, <2>2, <2>4, <2>5, <2>6 DEF Recvs, c
  <2> QED  BY <2>7 DEF x
<1> QED  BY <1>4, <1>5

(* What is done with another message does not concern a stream. *)
LEMMA SendsKept ==
    ASSUME NEW g \in Manager, NEW h, NEW m, Kept(g, h, m), NEW o \in Msg \ {m}, NEW ord, NEW x,
           Sends(g, o, ord, x)
    PROVE  Sends(h, o, ord, x)
<1>1. h.msgs[o] = g.msgs[o] /\ h.msg[o] = g.msg[o] /\ \A p \in Pile(g, o) : h.prm[p] = g.prm[p]
  BY DEF Kept
<1>2. Loaded(g, o, ord)
  BY DEF Sends
<1>3. \A k \in 1 .. Len(ord) : h.prm[g.msg[o].tlvs[k]] = g.prm[g.msg[o].tlvs[k]]
  <2> SUFFICES ASSUME NEW k \in 1 .. Len(ord) PROVE g.msg[o].tlvs[k] \in Pile(g, o)
    BY <1>1
  <2>1. Tops(g, o) \in SUBSET Pile(g, o)
    BY <1>2, PileIs DEF Loaded
  <2>2. g.msg[o].tlvs \in Seq(Param) /\ Len(g.msg[o].tlvs) = Len(ord)
    BY <1>2, ManagerIs DEF Loaded
  <2>3. k \in DOMAIN g.msg[o].tlvs
    BY <2>2
  <2> QED  BY <2>1, <2>3 DEF Tops, Range
<1>4. Loaded(h, o, ord)
  BY <1>1, <1>2, <1>3 DEF Loaded
<1> QED  BY <1>1, <1>3, <1>4 DEF Sends

(* The same for a receiver. *)
LEMMA RecvsKept ==
    ASSUME NEW g \in Manager, NEW h, NEW m, Kept(g, h, m), NEW o \in Msg \ {m}, NEW ord, NEW x,
           Recvs(g, o, ord, x)
    PROVE  Recvs(h, o, ord, x)
<1>1. h.msgs[o] = g.msgs[o] /\ h.msg[o] = g.msg[o] /\ \A p \in Pile(g, o) : h.prm[p] = g.prm[p]
  BY DEF Kept
<1>2. g.msgs[o] = 0
  BY DEF Recvs
<1>3. /\ \A p \in Range(g.msg[o].tlvs) : h.prm[p] = g.prm[p]
      /\ g.msg[o].frag # NoParam => h.prm[g.msg[o].frag] = g.prm[g.msg[o].frag]
  BY <1>1, <1>2, PileIs DEF Tops
<1> DEFINE c == ord[x[1] + 1]  D == Done(ord, x[1])
<1>4. Cut(g, o, c, x[2]) /\ Plain(g, o, D) /\ Vp(g.msg[o].vp, D, c, x[2])
  BY DEF Recvs
<1> HIDE DEF c, D
<1>5. Cut(h, o, c, x[2])
  BY <1>1, <1>3, <1>4 DEF Cut
<1>6. Plain(h, o, D)
  BY <1>1, <1>3, <1>4, PlainSame
<1>7. Vp(h.msg[o].vp, D, c, x[2])
  BY <1>1, <1>4
<1> QED  BY <1>1, <1>5, <1>6, <1>7 DEF Recvs, c, D

-----------------------------------------------------------------------------
(* The streams. *)

(* What the streams of the two nodes are. *)
Whole(B) == [k \in B \X {0} |-> Pieces(k[1])]
Nets == {None, "start", "ack", "next", "last", "end", "error"}
Exchange == [src : Node \cup {None}, dst : Node \cup {None}, body : SUBSET Id,
             sm : Msg \cup {NoMsg}, rm : Msg \cup {NoMsg}, net : Nets, pkt : Seq(Parts),
             given : BOOLEAN, got : {<<>>} \cup {Whole(B) : B \in SUBSET Id}]

(* The message is sent in some order of its values.  The receiver is at    *)
(* place x of it, what is under way takes it to place y, where the sender  *)
(* is.                                                                     *)
Course(M, r, ord, x, y) ==
    /\ ord \in Seq(Id) /\ IsInjective(ord) /\ r.body = Range(ord) /\ Carries(ord, r.pkt, x, y)
    /\ r.sm # NoMsg => Sends(M[r.src], r.sm, ord, y)
    /\ r.rm # NoMsg /\ M[r.dst].msg[r.rm].missing = FALSE => Recvs(M[r.dst], r.rm, ord, x)
    /\ r.net = "start" => x = <<0, 0>> /\ r.rm = NoMsg
    /\ r.net = "last" => Ends(ord, y)
    /\ r.net \notin {"start", "next", "last"} => r.pkt = <<>>

Fits(r) ==
    /\ SizeOf(r.pkt) <= MAX_PARAMS_SIZE
    /\ r.net = "next" \/ (r.net = "start" /\ r.body # {}) => r.pkt # <<>>
    /\ r.given => r.got = Whole(r.body)

Peers == {<<"gateway", "agent">>, <<"agent", "gateway">>}
Fine(M, r) ==
    r = Idle \/ (<<r.src, r.dst>> \in Peers /\ Fits(r) /\ \E ord, x, y : Course(M, r, ord, x, y))

(* Stream r sends message m of node n, or receives into it. *)
Holds(r, n, m) == (r.src = n /\ r.sm = m) \/ (r.dst = n /\ r.rm = m)

SmsgOK(M, T) ==
    /\ M \in [Node -> Manager] /\ \A n \in Node : Own(M[n], {})
    /\ T \in [Stream -> Exchange] /\ \A s \in Stream : Fine(M, T[s])
    /\ \A n \in Node, m \in Msg : M[n].msgs[m] = 0 <=> \E s \in Stream : Holds(T[s], n, m)
    /\ \A n \in Node, m \in Msg, s, t \in Stream : Holds(T[s], n, m) /\ Holds(T[t], n, m) => s = t

(* NoMsg is no message. *)
LEMMA NoMsgIs == NoMsg \notin Msg
BY ConstantsAssumption DEF NoMsg

(* A stream that is not in use is fine, and holds nothing. *)
LEMMA IdleIs ==
    /\ Idle \in Exchange /\ \A M : Fine(M, Idle)
    /\ \A n, m : m \in Msg => ~ Holds(Idle, n, m)
<1> DEFINE o == <<>>  Y == {}  B == FALSE
<1>1. o \in Seq(Parts) /\ Y \in SUBSET Id /\ None \in Nets /\ B \in BOOLEAN
  BY DEF Nets
<1>2. Idle = [src |-> None, dst |-> None, body |-> Y, sm |-> NoMsg, rm |-> NoMsg,
              net |-> None, pkt |-> o, given |-> B, got |-> o]
  BY DEF Idle
<1> DEFINE G == {o} \cup {Whole(D) : D \in SUBSET Id}
<1>3. o \in G /\ Exchange = [src : Node \cup {None}, dst : Node \cup {None}, body : SUBSET Id,
             sm : Msg \cup {NoMsg}, rm : Msg \cup {NoMsg}, net : Nets, pkt : Seq(Parts),
             given : BOOLEAN, got : G]
  BY DEF Exchange
<1> HIDE DEF o, Y, B, G
<1>4. Idle \in Exchange /\ Idle.sm = NoMsg /\ Idle.rm = NoMsg
  BY <1>1, <1>2, <1>3
<1> QED  BY <1>4, NoMsgIs DEF Fine, Holds

(* Nor does it matter to a stream that does not hold the message. *)
LEMMA FineKept ==
    ASSUME NEW M \in [Node -> Manager], NEW r \in Exchange, Fine(M, r), NEW N, NEW n \in Node,
           \A o \in Node \ {n} : N[o] = M[o], NEW m, Kept(M[n], N[n], m),
           m \in Msg => ~ Holds(r, n, m)
    PROVE  Fine(N, r)
<1> SUFFICES ASSUME r # Idle PROVE Fine(N, r)
  BY DEF Fine
<1>1. PICK ord, x, y : Course(M, r, ord, x, y)
  BY DEF Fine
<1>2. <<r.src, r.dst>> \in Peers /\ Fits(r)
  BY DEF Fine
<1>3. r.src \in Node /\ r.dst \in Node
  BY <1>2 DEF Peers, Node
<1>4. r.sm \in Msg \cup {NoMsg} /\ r.rm \in Msg \cup {NoMsg}
  BY DEF Exchange
<1>5. M[n] \in Manager
  OBVIOUS
<1>6. ASSUME r.sm # NoMsg PROVE Sends(N[r.src], r.sm, ord, y)
  <2>1. Sends(M[r.src], r.sm, ord, y) /\ r.sm \in Msg
    BY <1>1, <1>4, <1>6 DEF Course
  <2>2. CASE r.src # n
    BY <1>3, <2>1, <2>2
  <2>3. CASE r.src = n
    <3>1. r.sm \in Msg \ {m}
      BY <2>1, <2>3 DEF Holds
    <3>2. Sends(M[n], r.sm, ord, y)
      BY <2>1, <2>3
    <3>3. Sends(N[n], r.sm, ord, y)
      BY <1>5, <3>1, <3>2, SendsKept
    <3> QED  BY <2>3, <3>3
  <2> QED  BY <2>2, <2>3
<1>7. ASSUME r.rm # NoMsg, N[r.dst].msg[r.rm].missing = FALSE PROVE Recvs(N[r.dst], r.rm, ord, x)
  <2>1. r.rm \in Msg
    BY <1>4, <1>7
  <2>2. CASE r.dst # n
    <3>1. N[r.dst] = M[r.dst]
      BY <1>3, <2>2
    <3> QED  BY <1>1, <1>7, <3>1 DEF Course
  <2>3. CASE r.dst = n
    <3>1. r.rm \in Msg \ {m}
      BY <2>1, <2>3 DEF Holds
    <3>2. N[n].msg[r.rm] = M[n].msg[r.rm]
      BY <3>1 DEF Kept
    <3>3. Recvs(M[n], r.rm, ord, x)
      BY <1>1, <1>7, <2>3, <3>2 DEF Course
    <3>4. Recvs(N[n], r.rm, ord, x)
      BY <1>5, <3>1, <3>3, RecvsKept
    <3> QED  BY <2>3, <3>4
  <2> QED  BY <2>2, <2>3
<1>8. Course(N, r, ord, x, y)
  BY <1>1, <1>6, <1>7 DEF Course
<1> QED  BY <1>2, <1>8 DEF Fine

(* One node works on one of its messages, for the streams C. *)
Turn(M, T, N, U, n, m, C) ==
    /\ N \in [Node -> Manager] /\ \A o \in Node \ {n} : N[o] = M[o]
    /\ Own(N[n], {}) /\ Kept(M[n], N[n], m)
    /\ U \in [Stream -> Exchange] /\ \A s \in Stream \ C : U[s] = T[s]
    /\ \A s \in C : Fine(N, U[s])
    /\ \A s \in C, o \in Node, k \in Msg : <<o, k>> # <<n, m>> => (Holds(U[s], o, k) <=> Holds(T[s], o, k))
    /\ m \in Msg => /\ \A s \in Stream \ C : ~ Holds(T[s], n, m)
                    /\ N[n].msgs[m] = 0 <=> \E s \in C : Holds(U[s], n, m)
                    /\ \A s, t \in C : Holds(U[s], n, m) /\ Holds(U[t], n, m) => s = t

(* The invariant holds after it, if it holds for the message and the       *)
(* streams C.                                                              *)
LEMMA TurnIs ==
    ASSUME NEW M, NEW T, SmsgOK(M, T), NEW N, NEW U, NEW n \in Node, NEW m, NEW C \in SUBSET Stream,
           Turn(M, T, N, U, n, m, C)
    PROVE  SmsgOK(N, U)
<1>1. /\ N \in [Node -> Manager] /\ U \in [Stream -> Exchange]
      /\ \A o \in Node \ {n} : N[o] = M[o]
      /\ Kept(M[n], N[n], m)
      /\ \A s \in Stream \ C : U[s] = T[s]
  BY DEF Turn
<1>2. \A o \in Node : Own(N[o], {})
  <2>1. \A o \in Node : Own(M[o], {})
    BY DEF SmsgOK
  <2>2. Own(N[n], {})
    BY DEF Turn
  <2> QED  BY <1>1, <2>1, <2>2
<1>3. ASSUME NEW s \in Stream PROVE Fine(N, U[s])
  <2>1. CASE s \in C
    BY <2>1 DEF Turn
  <2>2. CASE s \notin C
    <3>1. /\ M \in [Node -> Manager] /\ T[s] \in Exchange /\ Fine(M, T[s]) /\ U[s] = T[s]
          /\ m \in Msg => ~ Holds(T[s], n, m)
      BY <1>1, <2>2 DEF SmsgOK, Turn
    <3>2. Fine(N, T[s])
      BY <1>1, <3>1, FineKept
    <3> QED  BY <3>1, <3>2
  <2> QED  BY <2>1, <2>2
<1>4. ASSUME NEW o \in Node, NEW k \in Msg, <<o, k>> # <<n, m>>
      PROVE  \A s \in Stream : Holds(U[s], o, k) <=> Holds(T[s], o, k)
  BY <1>1, <1>4 DEF Turn
<1>5. ASSUME NEW o \in Node, NEW k \in Msg
      PROVE  /\ N[o].msgs[k] = 0 <=> \E s \in Stream : Holds(U[s], o, k)
             /\ \A s, t \in Stream : Holds(U[s], o, k) /\ Holds(U[t], o, k) => s = t
  <2>1. CASE <<o, k>> = <<n, m>>
    <3>1. o = n /\ k = m /\ m \in Msg
      BY <2>1
    <3>2. \A s \in Stream \ C : ~ Holds(U[s], n, m)
      BY <1>1, <3>1 DEF Turn
    <3>3. /\ N[n].msgs[m] = 0 <=> \E s \in C : Holds(U[s], n, m)
          /\ \A s, t \in C : Holds(U[s], n, m) /\ Holds(U[t], n, m) => s = t
      BY <3>1 DEF Turn
    <3> QED  BY <3>1, <3>2, <3>3
  <2>2. CASE <<o, k>> # <<n, m>>
    <3>1. \A s \in Stream : Holds(U[s], o, k) <=> Holds(T[s], o, k)
      BY <1>4, <2>2
    <3>2. /\ M[o].msgs[k] = 0 <=> \E s \in Stream : Holds(T[s], o, k)
          /\ \A s, t \in Stream : Holds(T[s], o, k) /\ Holds(T[t], o, k) => s = t
      BY DEF SmsgOK
    <3>3. N[o].msgs[k] = M[o].msgs[k]
      <4>1. CASE o # n
        BY <1>1, <4>1
      <4>2. CASE o = n
        <5>1. k \in Msg \ {m}
          BY <2>2, <4>2
        <5> QED  BY <1>1, <4>2, <5>1 DEF Kept
      <4> QED  BY <4>1, <4>2
    <3> QED  BY <3>1, <3>2, <3>3
  <2> QED  BY <2>1, <2>2
<1> QED  BY <1>1, <1>2, <1>3, <1>5 DEF SmsgOK

(* The same for one stream, which becomes r. *)
Alone(M, T, h, r, n, m, s) ==
    /\ h \in Manager /\ Own(h, {}) /\ Kept(M[n], h, m)
    /\ r \in Exchange /\ Fine([M EXCEPT ![n] = h], r)
    /\ \A o \in Node, k \in Msg : <<o, k>> # <<n, m>> => (Holds(r, o, k) <=> Holds(T[s], o, k))
    /\ m \in Msg => /\ Holds(T[s], n, m) \/ M[n].msgs[m] # 0
                    /\ h.msgs[m] = 0 <=> Holds(r, n, m)

(* The invariant, for a step of one stream. *)
LEMMA AloneIs ==
    ASSUME NEW M, NEW T, SmsgOK(M, T), NEW n \in Node, NEW m, NEW s \in Stream, NEW h, NEW r,
           Alone(M, T, h, r, n, m, s)
    PROVE  SmsgOK([M EXCEPT ![n] = h], [T EXCEPT ![s] = r])
<1> SUFFICES ASSUME NEW N, NEW U, N = [M EXCEPT ![n] = h], U = [T EXCEPT ![s] = r]
             PROVE  SmsgOK(N, U)
  OBVIOUS
<1>1. M \in [Node -> Manager] /\ T \in [Stream -> Exchange]
  BY DEF SmsgOK
<1>2. h \in Manager /\ r \in Exchange /\ Own(h, {}) /\ Kept(M[n], h, m) /\ Fine(N, r)
  BY DEF Alone
<1>3. /\ N \in [Node -> Manager] /\ N[n] = h /\ \A o \in Node \ {n} : N[o] = M[o]
      /\ U \in [Stream -> Exchange] /\ U[s] = r /\ \A t \in Stream \ {s} : U[t] = T[t]
  BY <1>1, <1>2
<1>4. \A o \in Node, k \in Msg : <<o, k>> # <<n, m>> => (Holds(r, o, k) <=> Holds(T[s], o, k))
  BY DEF Alone
<1>5. ASSUME m \in Msg
      PROVE  /\ \A t \in Stream \ {s} : ~ Holds(T[t], n, m)
             /\ h.msgs[m] = 0 <=> Holds(r, n, m)
  BY <1>5 DEF Alone, SmsgOK
<1> DEFINE C == {s}
<1>6. C \in SUBSET Stream /\ s \in C /\ \A t \in C : t = s
  OBVIOUS
<1> HIDE DEF C
<1>7. Stream \ C = Stream \ {s}
  BY <1>6
<1>8. Turn(M, T, N, U, n, m, C)
  BY <1>2, <1>3, <1>4, <1>5, <1>6, <1>7 DEF Turn
<1> QED  BY <1>6, <1>8, TurnIs

(* A stream that is not idle, and what it holds. *)
LEMMA PartyIs ==
    ASSUME NEW M, NEW T, SmsgOK(M, T), NEW s \in Stream, NEW r, r = T[s], r # Idle
    PROVE  /\ r \in Exchange /\ <<r.src, r.dst>> \in Peers /\ r.src # r.dst
           /\ r.src \in Node /\ r.dst \in Node
           /\ Fits(r) /\ \E ord, x, y : Course(M, r, ord, x, y)
           /\ Own(M[r.src], {}) /\ Own(M[r.dst], {})
           /\ r.sm # NoMsg => r.sm \in Msg /\ M[r.src].msgs[r.sm] = 0 /\ Holds(r, r.src, r.sm)
           /\ r.rm # NoMsg => r.rm \in Msg /\ M[r.dst].msgs[r.rm] = 0 /\ Holds(r, r.dst, r.rm)
<1>1. r \in Exchange /\ Fine(M, r)
  BY DEF SmsgOK
<1>2. <<r.src, r.dst>> \in Peers /\ Fits(r) /\ \E ord, x, y : Course(M, r, ord, x, y)
  BY <1>1 DEF Fine
<1>3. r.src \in Node /\ r.dst \in Node /\ r.src # r.dst
  BY <1>2 DEF Peers, Node
<1>4. Own(M[r.src], {}) /\ Own(M[r.dst], {})
  BY <1>3 DEF SmsgOK
<1>5. r.sm \in Msg \cup {NoMsg} /\ r.rm \in Msg \cup {NoMsg}
  BY <1>1 DEF Exchange
<1>6. ASSUME r.sm # NoMsg PROVE r.sm \in Msg /\ M[r.src].msgs[r.sm] = 0 /\ Holds(r, r.src, r.sm)
  <2>1. r.sm \in Msg /\ Holds(r, r.src, r.sm)
    BY <1>5, <1>6 DEF Holds
  <2> QED  BY <1>3, <2>1 DEF SmsgOK
<1>7. ASSUME r.rm # NoMsg PROVE r.rm \in Msg /\ M[r.dst].msgs[r.rm] = 0 /\ Holds(r, r.dst, r.rm)
  <2>1. r.rm \in Msg /\ Holds(r, r.dst, r.rm)
    BY <1>5, <1>7 DEF Holds
  <2> QED  BY <1>3, <2>1 DEF SmsgOK
<1> QED  BY <1>1, <1>2, <1>3, <1>4, <1>6, <1>7

(* The updates of a stream. *)
Ties(r, q) == q.src = r.src /\ q.dst = r.dst /\ q.body = r.body

(* Packet(): only what is under way changes. *)
LEMMA PacketIs ==
    ASSUME NEW r \in Exchange, NEW k \in Nets, NEW p \in Seq(Parts), NEW q, q = Packet(r, k, p)
    PROVE  /\ q \in Exchange /\ Ties(r, q) /\ q.sm = r.sm /\ q.rm = r.rm
           /\ q.net = k /\ q.pkt = p /\ q.given = r.given /\ q.got = r.got
<1> DEFINE G == {<<>>} \cup {Whole(B) : B \in SUBSET Id}
<1>1. Exchange = [src : Node \cup {None}, dst : Node \cup {None}, body : SUBSET Id,
             sm : Msg \cup {NoMsg}, rm : Msg \cup {NoMsg}, net : Nets, pkt : Seq(Parts),
             given : BOOLEAN, got : G]
  BY DEF Exchange
<1> HIDE DEF G
<1> QED  BY <1>1 DEF Packet, Ties

(* Answer(): the same, without parameters. *)
LEMMA AnswerIs ==
    ASSUME NEW r \in Exchange, NEW k \in Nets, NEW q, q = Answer(r, k)
    PROVE  /\ q \in Exchange /\ Ties(r, q) /\ q.sm = r.sm /\ q.rm = r.rm
           /\ q.net = k /\ q.pkt = <<>> /\ q.given = r.given /\ q.got = r.got
<1> DEFINE o == <<>>
<1>1. o \in Seq(Parts) /\ q = Packet(r, k, o)
  BY DEF Answer
<1> HIDE DEF o
<1>2. /\ q \in Exchange /\ Ties(r, q) /\ q.sm = r.sm /\ q.rm = r.rm
      /\ q.net = k /\ q.pkt = o /\ q.given = r.given /\ q.got = r.got
  BY <1>1, PacketIs
<1> QED  BY <1>2 DEF o

Receives(r, m) == [r EXCEPT !.rm = m]
Sent(r) == [r EXCEPT !.sm = NoMsg]

(* The receiver takes a message, or gives it back. *)
LEMMA ReceivesIs ==
    ASSUME NEW r \in Exchange, NEW m \in Msg \cup {NoMsg}, NEW q, q = Receives(r, m)
    PROVE  /\ q \in Exchange /\ Ties(r, q) /\ q.sm = r.sm /\ q.rm = m
           /\ q.net = r.net /\ q.pkt = r.pkt /\ q.given = r.given /\ q.got = r.got
<1> DEFINE G == {<<>>} \cup {Whole(B) : B \in SUBSET Id}
<1>1. Exchange = [src : Node \cup {None}, dst : Node \cup {None}, body : SUBSET Id,
             sm : Msg \cup {NoMsg}, rm : Msg \cup {NoMsg}, net : Nets, pkt : Seq(Parts),
             given : BOOLEAN, got : G]
  BY DEF Exchange
<1> HIDE DEF G
<1> QED  BY <1>1 DEF Receives, Ties

(* The sender gives its message back. *)
LEMMA SentIs ==
    ASSUME NEW r \in Exchange, NEW q, q = Sent(r)
    PROVE  /\ q \in Exchange /\ Ties(r, q) /\ q.sm = NoMsg /\ q.rm = r.rm
           /\ q.net = r.net /\ q.pkt = r.pkt /\ q.given = r.given /\ q.got = r.got
<1> DEFINE G == {<<>>} \cup {Whole(B) : B \in SUBSET Id}
<1>1. Exchange = [src : Node \cup {None}, dst : Node \cup {None}, body : SUBSET Id,
             sm : Msg \cup {NoMsg}, rm : Msg \cup {NoMsg}, net : Nets, pkt : Seq(Parts),
             given : BOOLEAN, got : G]
  BY DEF Exchange
<1> HIDE DEF G
<1> QED  BY <1>1 DEF Sent, Ties

(* Over(): the receiver has no message, and says so. *)
LEMMA OverIs ==
    ASSUME NEW r \in Exchange, NEW k \in Nets, NEW q, q = Over(r, k)
    PROVE  /\ q \in Exchange /\ Ties(r, q) /\ q.sm = r.sm /\ q.rm = NoMsg
           /\ q.net = k /\ q.pkt = <<>> /\ q.given = r.given /\ q.got = r.got
<1> DEFINE u == Receives(r, NoMsg)
<1>1. /\ u \in Exchange /\ Ties(r, u) /\ u.sm = r.sm /\ u.rm = NoMsg
      /\ u.net = r.net /\ u.pkt = r.pkt /\ u.given = r.given /\ u.got = r.got
  BY ReceivesIs
<1>2. q = Answer(u, k)
  BY DEF Over, Receives
<1> HIDE DEF u
<1>3. /\ q \in Exchange /\ Ties(u, q) /\ q.sm = u.sm /\ q.rm = u.rm
      /\ q.net = k /\ q.pkt = <<>> /\ q.given = u.given /\ q.got = u.got
  BY <1>1, <1>2, AnswerIs
<1> QED  BY <1>1, <1>3 DEF Ties

Gives(r, q) == q \in Exchange /\ Ties(r, q) /\ q.sm = r.sm /\ q.got = Whole(r.body)

(* Given(): what the user gets is the whole message. *)
LEMMA GivenIs ==
    ASSUME NEW r \in Exchange, NEW g, NEW m, Contents(g, m) = Whole(r.body), NEW q, q = Given(r, g, m)
    PROVE  Gives(r, q)
<1> DEFINE G == {<<>>} \cup {Whole(B) : B \in SUBSET Id}  v == Contents(g, m)
<1>1. Exchange = [src : Node \cup {None}, dst : Node \cup {None}, body : SUBSET Id,
             sm : Msg \cup {NoMsg}, rm : Msg \cup {NoMsg}, net : Nets, pkt : Seq(Parts),
             given : BOOLEAN, got : G]
  BY DEF Exchange
<1>2. r.body \in SUBSET Id
  BY DEF Exchange
<1>3. v \in G /\ v = Whole(r.body)
  BY <1>2
<1>4. q = [r EXCEPT !.given = TRUE, !.got = v]
  BY DEF Given
<1> HIDE DEF G, v
<1>5. q \in Exchange /\ Ties(r, q) /\ q.sm = r.sm /\ q.got = v
  BY <1>1, <1>3, <1>4 DEF Ties
<1> QED  BY <1>3, <1>5 DEF Gives

Starts(q, n, d, m, B, p) ==
    /\ q \in Exchange /\ q.src = n /\ q.dst = d /\ q.body = B /\ q.sm = m /\ q.rm = NoMsg
    /\ q.net = "start" /\ q.pkt = p /\ q.given = FALSE

(* Started(): a stream with its first packet under way. *)
LEMMA StartedIs ==
    ASSUME NEW n \in Node, NEW d \in Node, NEW m \in Msg, NEW B \in SUBSET Id, NEW p \in Seq(Parts),
           NEW q, q = Started(n, d, m, B, p)
    PROVE  Starts(q, n, d, m, B, p)
<1> DEFINE o == <<>>  F == FALSE  G == {o} \cup {Whole(D) : D \in SUBSET Id}
           u == [src |-> n, dst |-> d, body |-> B, sm |-> m, rm |-> NoMsg,
                 net |-> None, pkt |-> o, given |-> F, got |-> o]
<1>1. Exchange = [src : Node \cup {None}, dst : Node \cup {None}, body : SUBSET Id,
             sm : Msg \cup {NoMsg}, rm : Msg \cup {NoMsg}, net : Nets, pkt : Seq(Parts),
             given : BOOLEAN, got : G]
  BY DEF Exchange
<1>2. o \in Seq(Parts) /\ o \in G /\ F \in BOOLEAN /\ None \in Nets /\ "start" \in Nets
  BY DEF Nets
<1>3. q = Packet(u, "start", p)
  <2>1. Idle = [src |-> None, dst |-> None, body |-> {}, sm |-> NoMsg, rm |-> NoMsg,
                net |-> None, pkt |-> o, given |-> F, got |-> o]
    BY DEF Idle
  <2> DEFINE Y == {}
  <2> HIDE DEF o, F, Y
  <2>2. [[src |-> None, dst |-> None, body |-> Y, sm |-> NoMsg, rm |-> NoMsg,
          net |-> None, pkt |-> o, given |-> F, got |-> o]
           EXCEPT !.src = n, !.dst = d, !.sm = m, !.body = B] = u
    <3>1. [[src |-> None, dst |-> None, body |-> Y, sm |-> NoMsg, rm |-> NoMsg,
            net |-> None, pkt |-> o, given |-> F, got |-> o] EXCEPT !.src = n]
          = [src |-> n, dst |-> None, body |-> Y, sm |-> NoMsg, rm |-> NoMsg,
             net |-> None, pkt |-> o, given |-> F, got |-> o]
      OBVIOUS
    <3>2. [[src |-> n, dst |-> None, body |-> Y, sm |-> NoMsg, rm |-> NoMsg,
            net |-> None, pkt |-> o, given |-> F, got |-> o] EXCEPT !.dst = d]
          = [src |-> n, dst |-> d, body |-> Y, sm |-> NoMsg, rm |-> NoMsg,
             net |-> None, pkt |-> o, given |-> F, got |-> o]
      OBVIOUS
    <3>3. [[src |-> n, dst |-> d, body |-> Y, sm |-> NoMsg, rm |-> NoMsg,
            net |-> None, pkt |-> o, given |-> F, got |-> o] EXCEPT !.sm = m]
          = [src |-> n, dst |-> d, body |-> Y, sm |-> m, rm |-> NoMsg,
             net |-> None, pkt |-> o, given |-> F, got |-> o]
      OBVIOUS
    <3>4. [[src |-> n, dst |-> d, body |-> Y, sm |-> m, rm |-> NoMsg,
            net |-> None, pkt |-> o, given |-> F, got |-> o] EXCEPT !.body = B]
          = [src |-> n, dst |-> d, body |-> B, sm |-> m, rm |-> NoMsg,
             net |-> None, pkt |-> o, given |-> F, got |-> o]
      OBVIOUS
    <3> QED  BY <3>1, <3>2, <3>3, <3>4
  <2>3. [Idle EXCEPT !.src = n, !.dst = d, !.sm = m, !.body = B] = u
    BY <2>1, <2>2 DEF Y
  <2> HIDE DEF u
  <2> QED  BY <2>3 DEF Started
<1> HIDE DEF o, F, G
<1>4. u \in Exchange
  BY <1>1, <1>2
<1>5. u.src = n /\ u.dst = d /\ u.body = B /\ u.sm = m /\ u.rm = NoMsg /\ u.given = F
  OBVIOUS
<1> HIDE DEF u
<1>6. /\ q \in Exchange /\ Ties(u, q) /\ q.sm = u.sm /\ q.rm = u.rm
      /\ q.net = "start" /\ q.pkt = p /\ q.given = u.given
  BY <1>2, <1>3, <1>4, PacketIs
<1> QED  BY <1>5, <1>6 DEF Ties, F, Starts

(* A step that leaves the managers alone. *)
LEMMA StillIs ==
    ASSUME NEW M, NEW T, SmsgOK(M, T), NEW s \in Stream, NEW q \in Exchange, Fine(M, q),
           \A o \in Node, k \in Msg : Holds(q, o, k) <=> Holds(T[s], o, k)
    PROVE  SmsgOK(M, [T EXCEPT ![s] = q])
<1> DEFINE n == "agent"
<1>1. n \in Node /\ M \in [Node -> Manager] /\ Own(M[n], {})
  BY DEF Node, SmsgOK
<1> HIDE DEF n
<1> DEFINE h == M[n]
<1>2. h \in Manager /\ M = [M EXCEPT ![n] = h] /\ Own(h, {})
  BY <1>1
<1>3. Kept(M[n], h, NoMsg)
  BY DEF Kept
<1>4. Alone(M, T, h, q, n, NoMsg, s)
  <2> HIDE DEF h
  <2> QED  BY <1>2, <1>3, NoMsgIs DEF Alone
<1> HIDE DEF h
<1>5. SmsgOK([M EXCEPT ![n] = h], [T EXCEPT ![s] = q])
  BY <1>1, <1>4, AloneIs
<1> QED  BY <1>2, <1>5

(* A stream both sides have left is forgotten. *)
LEMMA CloseIs ==
    ASSUME NEW M, NEW T, SmsgOK(M, T), NEW s \in Stream, NEW r, r = T[s], r.sm = NoMsg, r.rm = NoMsg
    PROVE  SmsgOK(M, [T EXCEPT ![s] = Idle])
<1>1. \A o \in Node, k \in Msg : Holds(Idle, o, k) <=> Holds(T[s], o, k)
  BY IdleIs, NoMsgIs DEF Holds
<1>2. Idle \in Exchange /\ Fine(M, Idle)
  BY IdleIs
<1> HIDE DEF Idle
<1> QED  BY <1>1, <1>2, StillIs

(* A stream that is answered without a message at the receiver. *)
LEMMA AnsweredIs ==
    ASSUME NEW M, NEW T, SmsgOK(M, T), NEW s \in Stream, NEW r, r = T[s], r # Idle,
           r.rm = NoMsg \/ r.pkt = <<>>, NEW k \in {"end", "error"}
    PROVE  SmsgOK(M, [T EXCEPT ![s] = Answer(r, k)])
<1> DEFINE q == Answer(r, k)
<1>1. /\ r \in Exchange /\ <<r.src, r.dst>> \in Peers /\ Fits(r)
      /\ \E ord, x, y : Course(M, r, ord, x, y)
  BY PartyIs
<1>2. PICK ord, x, y : Course(M, r, ord, x, y)
  BY <1>1
<1>3. k \in Nets
  BY DEF Nets
<1>4. /\ q \in Exchange /\ Ties(r, q) /\ q.sm = r.sm /\ q.rm = r.rm
      /\ q.net = k /\ q.pkt = <<>> /\ q.given = r.given /\ q.got = r.got
  BY <1>1, <1>3, AnswerIs
<1> HIDE DEF q
<1>5. y \in Places(ord)
  BY <1>2 DEF Course, Carries
<1>6. Carries(ord, <<>>, y, y) /\ (r.pkt = <<>> => x = y)
  <2>1. Carries(ord, r.pkt, x, y) /\ x \in Places(ord)
    BY <1>2 DEF Course, Carries
  <2> QED  BY <1>5, <2>1, CarriesNone
<1>7. Course(M, q, ord, y, y)
  BY <1>2, <1>4, <1>6 DEF Course, Ties
<1>8. Fits(q)
  <2>1. SizeOf(<<>>) <= MAX_PARAMS_SIZE
    <3>1. <<>> \in Seq(Parts)
      OBVIOUS
    <3>2. SizeOf(<<>>) = 0
      BY <3>1, SizeMore
    <3> QED  BY <3>2 DEF MAX_PARAMS_SIZE
  <2> QED  BY <1>1, <1>4, <2>1 DEF Fits, Ties
<1>9. Fine(M, q)
  BY <1>1, <1>4, <1>7, <1>8 DEF Fine, Ties
<1>10. \A o \in Node, m \in Msg : Holds(q, o, m) <=> Holds(T[s], o, m)
  BY <1>4 DEF Holds, Ties
<1>11. SmsgOK(M, [T EXCEPT ![s] = q])
  BY <1>4, <1>9, <1>10, StillIs
<1> QED  BY <1>11 DEF q

(* ServiceMessageDone::run() *)
LEMMA MessageDoneIs ==
    ASSUME NEW M, NEW T, SmsgOK(M, T), NEW s \in Stream, NEW r, r = T[s], r.sm # NoMsg
    PROVE  SmsgOK([M EXCEPT ![r.src] = FreeSmsg(M[r.src], r.sm)], [T EXCEPT ![s] = Sent(r)])
<1> DEFINE n == r.src  m == r.sm  g == M[n]  h == FreeSmsg(g, m)  q == Sent(r)
           N == [M EXCEPT ![n] = h]
<1>1. r # Idle
  BY DEF Idle
<1>2. /\ r \in Exchange /\ <<r.src, r.dst>> \in Peers /\ r.src # r.dst /\ n \in Node /\ r.dst \in Node
      /\ Fits(r) /\ Own(g, {}) /\ m \in Msg /\ g.msgs[m] = 0 /\ Holds(r, n, m)
  BY <1>1, PartyIs
<1>3. PICK ord, x, y : Course(M, r, ord, x, y)
  BY <1>1, PartyIs
<1>4. /\ q \in Exchange /\ Ties(r, q) /\ q.sm = NoMsg /\ q.rm = r.rm
      /\ q.net = r.net /\ q.pkt = r.pkt /\ q.given = r.given /\ q.got = r.got
  BY <1>2, SentIs
<1>5. Own(h, {}) /\ Kept(g, h, m) /\ h.msgs = [g.msgs EXCEPT ![m] = 1]
  <2> DEFINE Y == {}
  <2>1. Own(g, Y) /\ m \in Msg /\ g.msgs[m] = 0
    BY <1>2
  <2> HIDE DEF Y, g, m
  <2>2. Own(h, Y) /\ Kept(g, h, m) /\ h.msgs = [g.msgs EXCEPT ![m] = 1]
    BY <2>1, FreeSmsgIs
  <2> QED  BY <2>2 DEF Y
<1> HIDE DEF h, q
<1>6. h \in Manager /\ h.msgs[m] = 1
  BY <1>2, <1>5, ManagerIs DEF Own
<1>7. N[r.dst] = M[r.dst]
  <2>1. M \in [Node -> Manager]
    BY DEF SmsgOK
  <2> QED  BY <1>2, <2>1
<1> HIDE DEF N
<1>8. Course(N, q, ord, x, y) /\ Fits(q)
  BY <1>2, <1>3, <1>4, <1>7 DEF Course, Ties, Fits
<1>9. Fine(N, q)
  BY <1>2, <1>4, <1>8 DEF Fine, Ties
<1>10. /\ \A o \in Node, k \in Msg : <<o, k>> # <<n, m>> => (Holds(q, o, k) <=> Holds(T[s], o, k))
       /\ ~ Holds(q, n, m)
  BY <1>2, <1>4, NoMsgIs DEF Holds, Ties
<1>11. Alone(M, T, h, q, n, m, s)
  <2> DEFINE Y == {}
  <2>1. /\ h \in Manager /\ Own(h, Y) /\ Kept(M[n], h, m)
        /\ q \in Exchange /\ Fine([M EXCEPT ![n] = h], q)
    BY <1>4, <1>5, <1>6, <1>9 DEF N
  <2>2. Holds(T[s], n, m) /\ h.msgs[m] # 0
    BY <1>2, <1>6
  <2> HIDE DEF Y, n, m, g
  <2>3. Alone(M, T, h, q, n, m, s)
    BY <1>10, <2>1, <2>2 DEF Alone, Y
  <2> QED  BY <2>3
<1>12. SmsgOK([M EXCEPT ![n] = h], [T EXCEPT ![s] = q])
  <2>1. n \in Node
    BY <1>2
  <2> HIDE DEF n, m, g
  <2> QED  BY <1>11, <2>1, AloneIs
<1> QED  BY <1>12 DEF h, q

(* ServiceStreamHandlerDone::run(), for a time-out or an error *)
LEMMA HandlerCutIs ==
    ASSUME NEW M, NEW T, SmsgOK(M, T), NEW s \in Stream, NEW r, r = T[s], r.rm # NoMsg
    PROVE  SmsgOK([M EXCEPT ![r.dst] = FreeSmsg(M[r.dst], r.rm)], [T EXCEPT ![s] = Receives(r, NoMsg)])
<1> DEFINE n == r.dst  m == r.rm  g == M[n]  h == FreeSmsg(g, m)  q == Receives(r, NoMsg)
           N == [M EXCEPT ![n] = h]
<1>1. r # Idle
  BY DEF Idle
<1>2. /\ r \in Exchange /\ <<r.src, r.dst>> \in Peers /\ r.src # r.dst /\ n \in Node /\ r.src \in Node
      /\ Fits(r) /\ Own(g, {}) /\ m \in Msg /\ g.msgs[m] = 0 /\ Holds(r, n, m)
  BY <1>1, PartyIs
<1>3. PICK ord, x, y : Course(M, r, ord, x, y)
  BY <1>1, PartyIs
<1>4. /\ q \in Exchange /\ Ties(r, q) /\ q.sm = r.sm /\ q.rm = NoMsg
      /\ q.net = r.net /\ q.pkt = r.pkt /\ q.given = r.given /\ q.got = r.got
  BY <1>2, ReceivesIs
<1>5. Own(h, {}) /\ Kept(g, h, m) /\ h.msgs = [g.msgs EXCEPT ![m] = 1]
  <2> DEFINE Y == {}
  <2>1. Own(g, Y) /\ m \in Msg /\ g.msgs[m] = 0
    BY <1>2
  <2> HIDE DEF Y, g, m
  <2>2. Own(h, Y) /\ Kept(g, h, m) /\ h.msgs = [g.msgs EXCEPT ![m] = 1]
    BY <2>1, FreeSmsgIs
  <2> QED  BY <2>2 DEF Y
<1> HIDE DEF h, q
<1>6. h \in Manager /\ h.msgs[m] = 1
  BY <1>2, <1>5, ManagerIs DEF Own
<1>7. N[r.src] = M[r.src]
  <2>1. M \in [Node -> Manager]
    BY DEF SmsgOK
  <2> QED  BY <1>2, <2>1
<1> HIDE DEF N
<1>8. Course(N, q, ord, x, y) /\ Fits(q)
  BY <1>2, <1>3, <1>4, <1>7 DEF Course, Ties, Fits
<1>9. Fine(N, q)
  BY <1>2, <1>4, <1>8 DEF Fine, Ties
<1>10. /\ \A o \in Node, k \in Msg : <<o, k>> # <<n, m>> => (Holds(q, o, k) <=> Holds(T[s], o, k))
       /\ ~ Holds(q, n, m)
  BY <1>2, <1>4, NoMsgIs DEF Holds, Ties
<1>11. Alone(M, T, h, q, n, m, s)
  <2> DEFINE Y == {}
  <2>1. /\ h \in Manager /\ Own(h, Y) /\ Kept(M[n], h, m)
        /\ q \in Exchange /\ Fine([M EXCEPT ![n] = h], q)
    BY <1>4, <1>5, <1>6, <1>9 DEF N
  <2>2. Holds(T[s], n, m) /\ h.msgs[m] # 0
    BY <1>2, <1>6
  <2> HIDE DEF Y, n, m, g
  <2>3. Alone(M, T, h, q, n, m, s)
    BY <1>10, <2>1, <2>2 DEF Alone, Y
  <2> QED  BY <2>3
<1>12. SmsgOK([M EXCEPT ![n] = h], [T EXCEPT ![s] = q])
  <2>1. n \in Node
    BY <1>2
  <2> HIDE DEF n, m, g
  <2> QED  BY <1>11, <2>1, AloneIs
<1> QED  BY <1>12 DEF h, q

-----------------------------------------------------------------------------
(* The handlers. *)

(* The packet has been taken. *)
Took(M, r, N, q, ord, y) ==
    /\ Ties(r, q) /\ q.sm = r.sm /\ q.pkt = <<>> /\ q.net \in {"ack", "end"}
    /\ q.given => q.got = Whole(q.body)
    /\ r.sm # NoMsg => N[r.src] = M[r.src]
    /\ q.rm # NoMsg /\ N[r.dst].msg[q.rm].missing = FALSE => Recvs(N[r.dst], q.rm, ord, y)

(* The stream is where the packet has taken it: the same place at both     *)
(* ends.                                                                   *)
LEMMA TookIs ==
    ASSUME NEW M, NEW r, NEW ord, NEW x, NEW y, Course(M, r, ord, x, y), Fits(r),
           NEW N, NEW q, Took(M, r, N, q, ord, y)
    PROVE  Course(N, q, ord, y, y) /\ Fits(q)
<1>1. Carries(ord, <<>>, y, y)
  BY CarriesNone DEF Course, Carries
<1>2. SizeOf(<<>>) <= MAX_PARAMS_SIZE
  <2>1. <<>> \in Seq(Parts)
    OBVIOUS
  <2>2. SizeOf(<<>>) = 0
    BY <2>1, SizeMore
  <2> QED  BY <2>2 DEF MAX_PARAMS_SIZE
<1> QED  BY <1>1, <1>2 DEF Course, Fits, Ties, Took

(* ServiceStreamHandlerNew::run() *)
LEMMA HandlerNewIs ==
    ASSUME NEW M, NEW T, SmsgOK(M, T), NEW s \in Stream, NEW r, r = T[s], r.net = "start",
           Messages(M[r.dst]) # {}, NEW m, m = NextMessage(M[r.dst])
    PROVE  SmsgOK([M EXCEPT ![r.dst] = RecvParams(Refreshed(M[r.dst], m), m, r.pkt)],
                  [T EXCEPT ![s] = Answer(Receives(r, m), "ack")])
<1> DEFINE n == r.dst  g == M[n]  e == Refreshed(g, m)  h == RecvParams(e, m, r.pkt)
           u == Receives(r, m)  q == Answer(u, "ack")
           N == [M EXCEPT ![n] = h]
<1>1. r # Idle
  BY DEF Idle, None
<1>2. /\ r \in Exchange /\ <<r.src, r.dst>> \in Peers /\ r.src # r.dst /\ n \in Node /\ r.src \in Node
      /\ Fits(r) /\ Own(g, {})
  BY <1>1, PartyIs
<1>3. PICK ord, x, y : Course(M, r, ord, x, y)
  BY <1>1, PartyIs
<1>4. x = <<0, 0>> /\ r.rm = NoMsg /\ ord \in Seq(Id) /\ IsInjective(ord) /\ Carries(ord, r.pkt, x, y)
  BY <1>3 DEF Course
<1>5. m \in Msg /\ g.msgs[m] > 0
  BY NextMessageIs
<1>6. /\ Own(e, {}) /\ Kept(g, e, m) /\ e.msgs[m] = 0 /\ Recvs(e, m, ord, x)
  <2> DEFINE Y == {}
  <2>1. Own(g, Y)
    BY <1>2
  <2> HIDE DEF Y, g, e
  <2>2. /\ Own(e, Y) /\ Kept(g, e, m) /\ e.msgs[m] = 0 /\ Recvs(e, m, ord, <<0, 0>>)
    BY ZenonT(40), <1>4, <1>5, <2>1, RefreshedIs DEF Y, e
  <2> QED  BY <1>4, <2>2 DEF Y
<1> HIDE DEF e
<1>7. /\ Own(h, {}) /\ Kept(e, h, m) /\ h.msgs = e.msgs
      /\ h.msg[m].missing = FALSE => Recvs(h, m, ord, y)
  <2> DEFINE Y == {}  p == r.pkt
  <2>1. Own(e, Y) /\ m \in Msg /\ e.msgs[m] = 0 /\ Recvs(e, m, ord, x) /\ Carries(ord, p, x, y)
    BY <1>4, <1>5, <1>6
  <2> HIDE DEF Y, g, p
  <2>2. /\ Own(h, Y) /\ Kept(e, h, m) /\ h.msgs = e.msgs
        /\ h.msg[m].missing = FALSE => Recvs(h, m, ord, y)
    BY <2>1, RecvParamsIs DEF Y, p
  <2> QED  BY <2>2 DEF Y
<1> HIDE DEF h
<1>8. Kept(g, h, m) /\ h \in Manager /\ h.msgs[m] = 0 /\ g.msgs[m] # 0
  <2>1. g \in Manager /\ h \in Manager
    BY <1>2, <1>7 DEF Own
  <2>2. g.msgs[m] # 0
    BY <1>5
  <2> HIDE DEF g
  <2> QED  BY <1>6, <1>7, <2>1, <2>2, KeptTrans
<1>9. /\ u \in Exchange /\ Ties(r, u) /\ u.sm = r.sm /\ u.rm = m
      /\ u.given = r.given /\ u.got = r.got
  BY <1>2, <1>5, ReceivesIs
<1> HIDE DEF u
<1>10. /\ q \in Exchange /\ Ties(r, q) /\ q.sm = r.sm /\ q.rm = m
       /\ q.net = "ack" /\ q.pkt = <<>> /\ q.given = r.given /\ q.got = r.got
  <2>1. "ack" \in Nets
    BY DEF Nets
  <2>2. /\ q \in Exchange /\ Ties(u, q) /\ q.sm = u.sm /\ q.rm = u.rm
        /\ q.net = "ack" /\ q.pkt = <<>> /\ q.given = u.given /\ q.got = u.got
    BY <1>9, <2>1, AnswerIs
  <2> QED  BY <1>9, <2>2 DEF Ties
<1> HIDE DEF q
<1>11. N[r.src] = M[r.src] /\ N[n] = h
  <2>1. M \in [Node -> Manager]
    BY DEF SmsgOK
  <2> QED  BY <1>2, <2>1
<1> HIDE DEF N
<1>12. Course(N, q, ord, y, y) /\ Fits(q)
  <2>1. q.given => q.got = Whole(q.body)
    BY <1>2, <1>10 DEF Fits, Ties
  <2>2. q.rm # NoMsg /\ N[r.dst].msg[q.rm].missing = FALSE => Recvs(N[r.dst], q.rm, ord, y)
    BY <1>7, <1>10, <1>11
  <2> HIDE DEF n
  <2>3. Took(M, r, N, q, ord, y)
    BY <1>10, <1>11, <2>1, <2>2 DEF Took
  <2> QED  BY <1>2, <1>3, <2>3, TookIs
<1>13. Fine(N, q)
  BY <1>2, <1>10, <1>12 DEF Fine, Ties
<1>14. /\ \A o \in Node, k \in Msg : <<o, k>> # <<n, m>> => (Holds(q, o, k) <=> Holds(r, o, k))
       /\ Holds(q, n, m)
  BY <1>2, <1>4, <1>10, NoMsgIs DEF Holds, Ties
<1>15. Alone(M, T, h, q, n, m, s)
  <2> DEFINE Y == {}
  <2>1. /\ h \in Manager /\ Own(h, Y) /\ Kept(M[n], h, m)
        /\ q \in Exchange /\ Fine([M EXCEPT ![n] = h], q)
    BY <1>7, <1>8, <1>10, <1>13 DEF N
  <2>2. M[n].msgs[m] # 0 /\ h.msgs[m] = 0
    BY <1>8
  <2> HIDE DEF Y, n, g
  <2>3. Alone(M, T, h, q, n, m, s)
    BY <1>14, <2>1, <2>2 DEF Alone, Y
  <2> QED  BY <2>3
<1>16. SmsgOK([M EXCEPT ![n] = h], [T EXCEPT ![s] = q])
  <2>1. n \in Node
    BY <1>2
  <2> HIDE DEF n, g
  <2> QED  BY <1>15, <2>1, AloneIs
<1> QED  BY <1>16 DEF h, e, q, u

(* ServiceStreamHandlerNext::run() *)
LEMMA HandlerNextIs ==
    ASSUME NEW M, NEW T, SmsgOK(M, T), NEW s \in Stream, NEW r, r = T[s], r.net = "next", r.rm # NoMsg
    PROVE  SmsgOK([M EXCEPT ![r.dst] = RecvParams(M[r.dst], r.rm, r.pkt)],
                  [T EXCEPT ![s] = Answer(r, "ack")])
<1> DEFINE n == r.dst  m == r.rm  g == M[n]  h == RecvParams(g, m, r.pkt)  q == Answer(r, "ack")
           N == [M EXCEPT ![n] = h]
<1>1. r # Idle
  BY DEF Idle, None
<1>2. /\ r \in Exchange /\ <<r.src, r.dst>> \in Peers /\ r.src # r.dst /\ n \in Node /\ r.src \in Node
      /\ Fits(r) /\ Own(g, {}) /\ m \in Msg /\ g.msgs[m] = 0 /\ Holds(r, n, m)
  BY <1>1, PartyIs
<1>3. PICK ord, x, y : Course(M, r, ord, x, y)
  BY <1>1, PartyIs
<1>4. /\ Carries(ord, r.pkt, x, y)
      /\ g.msg[m].missing = FALSE => Recvs(g, m, ord, x)
  BY <1>3 DEF Course
<1>5. /\ Own(h, {}) /\ Kept(g, h, m) /\ h.msgs = g.msgs
      /\ h.msg[m].missing = FALSE => Recvs(h, m, ord, y)
  <2> DEFINE Y == {}  p == r.pkt
  <2>1. /\ Own(g, Y) /\ m \in Msg /\ g.msgs[m] = 0 /\ Carries(ord, p, x, y)
        /\ g.msg[m].missing = FALSE => Recvs(g, m, ord, x)
    BY <1>2, <1>4
  <2> HIDE DEF Y, g, p, m
  <2>2. /\ Own(h, Y) /\ Kept(g, h, m) /\ h.msgs = g.msgs
        /\ h.msg[m].missing = FALSE => Recvs(h, m, ord, y)
    BY <2>1, RecvParamsIs DEF Y, p
  <2> QED  BY <2>2 DEF Y
<1> HIDE DEF h
<1>6. h \in Manager /\ h.msgs[m] = 0
  BY <1>2, <1>5 DEF Own
<1>7. /\ q \in Exchange /\ Ties(r, q) /\ q.sm = r.sm /\ q.rm = m
      /\ q.net = "ack" /\ q.pkt = <<>> /\ q.given = r.given /\ q.got = r.got
  <2>1. "ack" \in Nets
    BY DEF Nets
  <2> QED  BY <1>2, <2>1, AnswerIs
<1> HIDE DEF q
<1>8. N[r.src] = M[r.src] /\ N[n] = h
  <2>1. M \in [Node -> Manager]
    BY DEF SmsgOK
  <2> QED  BY <1>2, <2>1
<1> HIDE DEF N
<1>9. Course(N, q, ord, y, y) /\ Fits(q)
  <2>1. q.given => q.got = Whole(q.body)
    BY <1>2, <1>7 DEF Fits, Ties
  <2>2. q.rm # NoMsg /\ N[r.dst].msg[q.rm].missing = FALSE => Recvs(N[r.dst], q.rm, ord, y)
    BY <1>5, <1>7, <1>8
  <2> HIDE DEF n
  <2>3. Took(M, r, N, q, ord, y)
    BY <1>7, <1>8, <2>1, <2>2 DEF Took
  <2> QED  BY <1>2, <1>3, <2>3, TookIs
<1>10. Fine(N, q)
  BY <1>2, <1>7, <1>9 DEF Fine, Ties
<1>11. \A o \in Node, k \in Msg : Holds(q, o, k) <=> Holds(r, o, k)
  BY <1>7 DEF Holds, Ties
<1>12. Alone(M, T, h, q, n, m, s)
  <2> DEFINE Y == {}
  <2>1. /\ h \in Manager /\ Own(h, Y) /\ Kept(M[n], h, m)
        /\ q \in Exchange /\ Fine([M EXCEPT ![n] = h], q)
    BY <1>5, <1>6, <1>7, <1>10 DEF N
  <2>2. Holds(r, n, m) /\ h.msgs[m] = 0 /\ n \in Node /\ m \in Msg
    BY <1>2, <1>6
  <2> HIDE DEF Y, n, m, g
  <2>3. Alone(M, T, h, q, n, m, s)
    BY <1>11, <2>1, <2>2 DEF Alone, Y
  <2> QED  BY <2>3
<1>13. SmsgOK([M EXCEPT ![n] = h], [T EXCEPT ![s] = q])
  <2>1. n \in Node
    BY <1>2
  <2> HIDE DEF n, m, g
  <2> QED  BY <1>12, <2>1, AloneIs
<1> QED  BY <1>13 DEF h, q

(* ServiceMessageNext::run(), with parameters left *)
LEMMA MessageNextIs ==
    ASSUME NEW M, NEW T, SmsgOK(M, T), NEW s \in Stream, NEW r, r = T[s], r.net = "ack", r.sm # NoMsg,
           M[r.src].msg[r.sm].pindex < M[r.src].msg[r.sm].pc,
           NEW f, f = Fill(M[r.src], r.sm),
           NEW k \in {"last", "next"}, k = "last" => f.g.msg[r.sm].pindex = f.g.msg[r.sm].pc
    PROVE  SmsgOK([M EXCEPT ![r.src] = f.g], [T EXCEPT ![s] = Packet(r, k, f.pkt)])
<1> DEFINE n == r.src  m == r.sm  g == M[n]  h == f.g  p == f.pkt  q == Packet(r, k, p)
           N == [M EXCEPT ![n] = h]
<1>1. r # Idle
  BY DEF Idle, None
<1>2. /\ r \in Exchange /\ <<r.src, r.dst>> \in Peers /\ r.src # r.dst /\ n \in Node /\ r.dst \in Node
      /\ Fits(r) /\ Own(g, {}) /\ m \in Msg /\ g.msgs[m] = 0 /\ Holds(r, n, m)
  BY <1>1, PartyIs
<1>3. PICK ord, x, y : Course(M, r, ord, x, y)
  BY <1>1, PartyIs
<1>4. /\ Sends(g, m, ord, y) /\ x = y /\ y \in Places(ord)
  <2>1. r.pkt = <<>> /\ Carries(ord, r.pkt, x, y) /\ x \in Places(ord) /\ y \in Places(ord)
    BY <1>3 DEF Course, Carries
  <2>2. x = y
    BY <2>1, CarriesNone
  <2>3. Sends(g, m, ord, y)
    BY <1>3 DEF Course
  <2> QED  BY <2>1, <2>2, <2>3
<1>5. ~ Ends(ord, y)
  <2> HIDE DEF g, m
  <2>1. g.msg[m].pindex < g.msg[m].pc
    BY DEF g, m
  <2> QED  BY <1>4, <2>1, SendsEnds
<1>6. /\ Own(h, {}) /\ Kept(g, h, m) /\ h.msgs = g.msgs
      /\ SizeOf(p) <= MAX_PARAMS_SIZE /\ p # <<>>
      /\ \E z : Sends(h, m, ord, z) /\ Carries(ord, p, y, z)
  <2> DEFINE Y == {}
  <2>1. Own(g, Y) /\ f = Fill(g, m)
    BY <1>2
  <2> HIDE DEF Y, g, m, h, p
  <2>2. /\ Own(f.g, Y) /\ Kept(g, f.g, m) /\ f.g.msgs = g.msgs
        /\ SizeOf(f.pkt) <= MAX_PARAMS_SIZE /\ (~ Ends(ord, y) => f.pkt # <<>>)
        /\ \E z : Sends(f.g, m, ord, z) /\ Carries(ord, f.pkt, y, z)
    BY <1>2, <1>4, <2>1, FillIs DEF Y
  <2> QED  BY <1>5, <2>2 DEF Y, h, p
<1>7. PICK z : Sends(h, m, ord, z) /\ Carries(ord, p, y, z)
  BY <1>6
<1>8. k \in Nets /\ k # "start" /\ k \in {"last", "next"} /\ (k = "last" => Ends(ord, z))
  <2>1. k = "last" \/ k = "next"
    OBVIOUS
  <2>2. k = "last" => h.msg[m].pindex = h.msg[m].pc
    OBVIOUS
  <2> HIDE DEF h, m
  <2>3. k = "last" => Ends(ord, z)
    BY <1>7, <2>2, SendsEnds
  <2> QED  BY <2>1, <2>3 DEF Nets
<1> HIDE DEF h, p
<1>9. h \in Manager /\ h.msgs[m] = 0 /\ p \in Seq(Parts)
  BY <1>2, <1>6, <1>7 DEF Own, Carries
<1>10. /\ q \in Exchange /\ Ties(r, q) /\ q.sm = r.sm /\ q.rm = r.rm
       /\ q.net = k /\ q.pkt = p /\ q.given = r.given /\ q.got = r.got
  <2>1. r \in Exchange /\ k \in Nets /\ p \in Seq(Parts) /\ q = Packet(r, k, p)
    BY <1>2, <1>8, <1>9
  <2> HIDE DEF q
  <2> QED  BY <2>1, PacketIs
<1> HIDE DEF q
<1>11. N[r.dst] = M[r.dst] /\ N[n] = h
  <2>1. M \in [Node -> Manager]
    BY DEF SmsgOK
  <2> QED  BY <1>2, <2>1
<1> HIDE DEF N
<1>12. Course(N, q, ord, y, z)
  <2>1. q.sm # NoMsg => Sends(N[q.src], q.sm, ord, z)
    BY <1>7, <1>10, <1>11 DEF Ties
  <2>2. q.rm # NoMsg /\ N[q.dst].msg[q.rm].missing = FALSE => Recvs(N[q.dst], q.rm, ord, y)
    BY <1>3, <1>4, <1>10, <1>11 DEF Course, Ties
  <2>3. ord \in Seq(Id) /\ IsInjective(ord) /\ q.body = Range(ord)
    BY <1>3, <1>10 DEF Course, Ties
  <2> QED  BY <1>7, <1>8, <1>10, <2>1, <2>2, <2>3 DEF Course
<1>13. Fits(q)
  BY <1>2, <1>6, <1>8, <1>10 DEF Fits, Ties
<1>14. Fine(N, q)
  BY <1>2, <1>10, <1>12, <1>13 DEF Fine, Ties
<1>15. \A o \in Node, i \in Msg : Holds(q, o, i) <=> Holds(r, o, i)
  BY <1>10 DEF Holds, Ties
<1>16. Alone(M, T, h, q, n, m, s)
  <2> DEFINE Y == {}
  <2>1. /\ h \in Manager /\ Own(h, Y) /\ Kept(M[n], h, m)
        /\ q \in Exchange /\ Fine([M EXCEPT ![n] = h], q)
    BY <1>6, <1>9, <1>10, <1>14 DEF N
  <2>2. Holds(r, n, m) /\ h.msgs[m] = 0 /\ n \in Node /\ m \in Msg
    BY <1>2, <1>9
  <2> HIDE DEF Y, n, m, g
  <2>3. Alone(M, T, h, q, n, m, s)
    BY <1>15, <2>1, <2>2 DEF Alone, Y
  <2> QED  BY <2>3
<1>17. SmsgOK([M EXCEPT ![n] = h], [T EXCEPT ![s] = q])
  <2>1. n \in Node
    BY <1>2
  <2> HIDE DEF n, m, g
  <2> QED  BY <1>16, <2>1, AloneIs
<1> QED  BY <1>17 DEF h, q, p

(* and without *)
LEMMA MessageLastIs ==
    ASSUME NEW M, NEW T, SmsgOK(M, T), NEW s \in Stream, NEW r, r = T[s], r.net = "ack", r.sm # NoMsg,
           ~ (M[r.src].msg[r.sm].pindex < M[r.src].msg[r.sm].pc)
    PROVE  SmsgOK(M, [T EXCEPT ![s] = Packet(r, "last", <<>>)])
<1> DEFINE n == r.src  m == r.sm  g == M[n]  p == <<>>  q == Packet(r, "last", p)
<1>1. r # Idle
  BY DEF Idle, None
<1>2. r \in Exchange /\ <<r.src, r.dst>> \in Peers /\ Fits(r)
  BY <1>1, PartyIs
<1>3. PICK ord, x, y : Course(M, r, ord, x, y)
  BY <1>1, PartyIs
<1>4. Ends(ord, y)
  <2>1. Sends(g, m, ord, y)
    BY <1>3 DEF Course
  <2>2. ~ (g.msg[m].pindex < g.msg[m].pc)
    OBVIOUS
  <2> HIDE DEF g, m
  <2> QED  BY <2>1, <2>2, SendsEnds
<1>5. r.pkt = p
  BY <1>3 DEF Course
<1>6. p \in Seq(Parts) /\ "last" \in Nets
  BY DEF Nets
<1> HIDE DEF p
<1>7. /\ q \in Exchange /\ Ties(r, q) /\ q.sm = r.sm /\ q.rm = r.rm
      /\ q.net = "last" /\ q.pkt = p /\ q.given = r.given /\ q.got = r.got
  BY <1>2, <1>6, PacketIs
<1> HIDE DEF q
<1>8. Course(M, q, ord, x, y)
  BY <1>3, <1>4, <1>5, <1>7 DEF Course, Ties
<1>9. Fits(q)
  BY <1>2, <1>5, <1>7 DEF Fits, Ties
<1>10. Fine(M, q)
  BY <1>2, <1>7, <1>8, <1>9 DEF Fine, Ties
<1>11. \A o \in Node, i \in Msg : Holds(q, o, i) <=> Holds(r, o, i)
  BY <1>7 DEF Holds, Ties
<1>12. SmsgOK(M, [T EXCEPT ![s] = q])
  BY <1>7, <1>10, <1>11, StillIs
<1> QED  BY <1>12 DEF q, p

(* The last packet has been received: k. *)
Complete(M, r, k) ==
    /\ Own(k, {}) /\ Kept(M[r.dst], k, r.rm) /\ k.msgs[r.rm] = 0
    /\ k.msg[r.rm].missing \in BOOLEAN
    /\ ~ k.msg[r.rm].missing => Contents(k, r.rm) = Whole(r.body) /\ k.msg[r.rm].frag = NoParam

(* If nothing is missing, the message has the contents that were sent. *)
LEMMA CompleteIs ==
    ASSUME NEW M, NEW T, SmsgOK(M, T), NEW s \in Stream, NEW r, r = T[s], r.net = "last", r.rm # NoMsg,
           NEW k, k = RecvParams(M[r.dst], r.rm, r.pkt)
    PROVE  Complete(M, r, k)
<1> DEFINE n == r.dst  m == r.rm  g == M[n]  p == r.pkt
<1>1. r # Idle
  BY DEF Idle, None
<1>2. Own(g, {}) /\ m \in Msg /\ g.msgs[m] = 0
  BY <1>1, PartyIs
<1>3. PICK ord, x, y : Course(M, r, ord, x, y)
  BY <1>1, PartyIs
<1>4. /\ Carries(ord, p, x, y) /\ Ends(ord, y) /\ r.body = Range(ord) /\ y \in Places(ord)
      /\ g.msg[m].missing = FALSE => Recvs(g, m, ord, x)
  BY <1>3 DEF Course, Carries
<1>5. /\ Own(k, {}) /\ Kept(g, k, m) /\ k.msgs = g.msgs
      /\ k.msg[m].missing = FALSE => Recvs(k, m, ord, y)
  <2> DEFINE Y == {}
  <2>1. Own(g, Y) /\ m \in Msg /\ g.msgs[m] = 0 /\ k = RecvParams(g, m, p)
    BY <1>2
  <2> HIDE DEF Y, g, p, m
  <2>2. /\ Own(k, Y) /\ Kept(g, k, m) /\ k.msgs = g.msgs
        /\ k.msg[m].missing = FALSE => Recvs(k, m, ord, y)
    BY <1>4, <2>1, RecvParamsIs DEF Y
  <2> QED  BY <2>2 DEF Y
<1>6. k \in Manager /\ k.msgs[m] = 0 /\ k.msg[m].missing \in BOOLEAN
  <2>1. k \in Manager
    BY <1>5 DEF Own
  <2>2. k.msg[m] \in Envelope
    BY <1>2, <2>1, ManagerIs
  <2> QED  BY <1>2, <1>5, <2>1, <2>2 DEF Envelope
<1>7. ASSUME ~ k.msg[m].missing PROVE Contents(k, m) = Whole(r.body) /\ k.msg[m].frag = NoParam
  <2>1. k.msg[m].missing = FALSE
    BY <1>6, <1>7
  <2>2. Recvs(k, m, ord, y)
    BY <1>5, <2>1
  <2>3. y[2] = 0
    BY <1>4 DEF Places, Ends
  <2>4. k.msg[m].frag = NoParam
    BY <2>2, <2>3 DEF Recvs, Cut
  <2> HIDE DEF m
  <2>5. Contents(k, m) = [i \in Range(ord) \X {0} |-> Pieces(i[1])]
    BY <1>2, <1>4, <1>6, <2>2, ContentsIs
  <2>6. Contents(k, m) = Whole(Range(ord))
    BY <2>5 DEF Whole
  <2> QED  BY <1>4, <2>4, <2>6
<1> QED  BY <1>5, <1>6, <1>7 DEF Complete

(* The stream of a receiver that is through, given the message or not. *)
Seen(r, k, u) == u = r \/ (~ k.msg[r.rm].missing /\ u = Given(r, k, r.rm))

(* Given or not, the stream has the same parties. *)
LEMMA SeenBy ==
    ASSUME NEW r \in Exchange, Fits(r), NEW M, NEW k, Complete(M, r, k), NEW u, Seen(r, k, u)
    PROVE  u \in Exchange /\ Ties(r, u) /\ u.sm = r.sm /\ (u.given => u.got = Whole(r.body))
<1>1. CASE u = r
  BY <1>1 DEF Ties, Fits
<1>2. CASE u # r
  <2> DEFINE m == r.rm
  <2>1. Contents(k, m) = Whole(r.body) /\ u = Given(r, k, m)
    BY <1>2 DEF Seen, Complete
  <2> HIDE DEF m
  <2>2. Gives(r, u)
    BY <2>1, GivenIs
  <2> QED  BY <2>2 DEF Gives
<1> QED  BY <1>1, <1>2

Leaves(N, r, q) == q \in Exchange /\ Ties(r, q) /\ q.sm = r.sm /\ q.rm = NoMsg /\ Fine(N, q)

(* The receiver leaves it in order. *)
LEMMA SeenIs ==
    ASSUME NEW M, NEW T, SmsgOK(M, T), NEW s \in Stream, NEW r, r = T[s], r.net = "last", r.rm # NoMsg,
           NEW k, Complete(M, r, k), NEW u, Seen(r, k, u), NEW q, q = Over(u, "end"),
           NEW N, N[r.src] = M[r.src]
    PROVE  Leaves(N, r, q)
<1>1. r # Idle
  BY DEF Idle, None
<1>2. r \in Exchange /\ <<r.src, r.dst>> \in Peers /\ Fits(r)
  BY <1>1, PartyIs
<1>3. PICK ord, x, y : Course(M, r, ord, x, y)
  BY <1>1, PartyIs
<1>4. u \in Exchange /\ Ties(r, u) /\ u.sm = r.sm /\ (u.given => u.got = Whole(r.body))
  BY <1>2, SeenBy
<1>5. /\ q \in Exchange /\ Ties(u, q) /\ q.sm = u.sm /\ q.rm = NoMsg
      /\ q.net = "end" /\ q.pkt = <<>> /\ q.given = u.given /\ q.got = u.got
  <2>1. "end" \in Nets
    BY DEF Nets
  <2> QED  BY <1>4, <2>1, OverIs
<1>6. Took(M, r, N, q, ord, y) /\ Ties(r, q)
  BY <1>4, <1>5 DEF Took, Ties
<1>7. Course(N, q, ord, y, y) /\ Fits(q)
  BY <1>2, <1>3, <1>6, TookIs
<1>8. Fine(N, q)
  BY <1>2, <1>6, <1>7 DEF Fine, Ties
<1> QED  BY <1>4, <1>5, <1>6, <1>8 DEF Leaves

(* The receiver's message goes back to its pool. *)
LEMMA GoneIs ==
    ASSUME NEW M, NEW T, SmsgOK(M, T), NEW s \in Stream, NEW r, r = T[s], r.net = "last", r.rm # NoMsg,
           NEW k, Complete(M, r, k), NEW u, Seen(r, k, u),
           NEW h, Own(h, {}), Kept(M[r.dst], h, r.rm), h.msgs[r.rm] = 1
    PROVE  SmsgOK([M EXCEPT ![r.dst] = h], [T EXCEPT ![s] = Over(u, "end")])
<1> DEFINE n == r.dst  m == r.rm  q == Over(u, "end")  N == [M EXCEPT ![n] = h]
<1>1. r # Idle
  BY DEF Idle, None
<1>2. r.src # r.dst /\ n \in Node /\ r.src \in Node /\ m \in Msg /\ Holds(r, n, m)
  BY <1>1, PartyIs
<1>3. N[r.src] = M[r.src]
  <2>1. M \in [Node -> Manager]
    BY DEF SmsgOK
  <2> QED  BY <1>2, <2>1
<1> HIDE DEF N
<1>4. q \in Exchange /\ Ties(r, q) /\ q.sm = r.sm /\ q.rm = NoMsg /\ Fine(N, q)
  <2>1. q = Over(u, "end")
    OBVIOUS
  <2> HIDE DEF q, n, m
  <2>2. Leaves(N, r, q)
    BY <1>3, <2>1, SeenIs
  <2> QED  BY <2>2 DEF Leaves
<1> HIDE DEF q
<1>5. /\ \A o \in Node, i \in Msg : <<o, i>> # <<n, m>> => (Holds(q, o, i) <=> Holds(r, o, i))
      /\ ~ Holds(q, n, m)
  BY <1>2, <1>4, NoMsgIs DEF Holds, Ties
<1>6. Alone(M, T, h, q, n, m, s)
  <2> DEFINE Y == {}
  <2>1. /\ h \in Manager /\ Own(h, Y) /\ Kept(M[n], h, m)
        /\ q \in Exchange /\ Fine([M EXCEPT ![n] = h], q)
    BY <1>4 DEF N, Own
  <2>2. Holds(r, n, m) /\ h.msgs[m] # 0
    BY <1>2
  <2> HIDE DEF Y, n, m
  <2>3. Alone(M, T, h, q, n, m, s)
    BY <1>5, <2>1, <2>2 DEF Alone, Y
  <2> QED  BY <2>3
<1>7. SmsgOK([M EXCEPT ![n] = h], [T EXCEPT ![s] = q])
  <2>1. n \in Node
    BY <1>2
  <2> HIDE DEF n, m
  <2> QED  BY <1>6, <2>1, AloneIs
<1> QED  BY <1>7 DEF q

(* ServiceStreamHandlerDone::run(): the message is complete. *)
LEMMA HandlerDoneIs ==
    ASSUME NEW M, NEW T, SmsgOK(M, T), NEW s \in Stream, NEW r, r = T[s], r.net = "last", r.rm # NoMsg,
           NEW k, k = RecvParams(M[r.dst], r.rm, r.pkt), NEW u, Seen(r, k, u)
    PROVE  SmsgOK([M EXCEPT ![r.dst] = FreeSmsg(k, r.rm)], [T EXCEPT ![s] = Over(u, "end")])
<1> DEFINE n == r.dst  m == r.rm  h == FreeSmsg(k, m)
<1>1. Complete(M, r, k)
  BY CompleteIs
<1>2. r # Idle
  BY DEF Idle, None
<1>3. m \in Msg /\ Own(M[n], {})
  BY Zenon, <1>2, PartyIs
<1>4. Own(k, {}) /\ Kept(M[n], k, m) /\ k.msgs[m] = 0 /\ M[n] \in Manager
  BY Zenon, <1>1, <1>3 DEF Complete, Own
<1>5. Own(h, {}) /\ Kept(k, h, m) /\ h.msgs[m] = 1
  <2> DEFINE Y == {}
  <2>1. Own(k, Y) /\ k.msgs \in [Msg -> {0, 1}] /\ h = FreeSmsg(k, m)
    BY <1>4, ManagerIs DEF Own
  <2> HIDE DEF Y, m, h
  <2>2. Own(h, Y) /\ Kept(k, h, m) /\ h.msgs = [k.msgs EXCEPT ![m] = 1]
    BY <1>3, <1>4, <2>1, FreeSmsgIs
  <2> QED  BY <1>3, <2>1, <2>2 DEF Y
<1> HIDE DEF h
<1>6. Kept(M[n], h, m)
  <2> HIDE DEF n, m
  <2> QED  BY <1>4, <1>5, KeptTrans
<1>7. SmsgOK([M EXCEPT ![r.dst] = h], [T EXCEPT ![s] = Over(u, "end")])
  BY <1>1, <1>5, <1>6, GoneIs
<1> QED  BY <1>7 DEF h

-----------------------------------------------------------------------------
(* send(), for a request and for a reply. *)

(* A message is built from g and its first packet leaves. *)
Departs(g, m, b, f) ==
    /\ Own(f.g, {}) /\ Kept(g, f.g, m) /\ f.g.msgs = g.msgs
    /\ f.pkt \in Seq(Parts)
    /\ \E ord, y : /\ ord \in Seq(Id) /\ IsInjective(ord) /\ Values(b.g, m) = Range(ord)
                   /\ Carries(ord, f.pkt, <<0, 0>>, y) /\ Sends(f.g, m, ord, y)
                   /\ SizeOf(f.pkt) <= MAX_PARAMS_SIZE /\ (Range(ord) # {} => f.pkt # <<>>)

(* or it is freed: h. *)
Frees(g, m, h) == Own(h, {}) /\ Kept(g, h, m) /\ h.msgs[m] = 1

(* Both outcomes of send(), from the allocations on. *)
LEMMA DepartsIs ==
    ASSUME NEW g, Own(g, {}), NEW m \in Msg, g.msgs[m] = 0, g.msg[m].frag = NoParam,
           NEW is \in SUBSET Id, NEW b, b = Build(g, m, is), NEW f, f = Fill(Open(b.g, m), m)
    PROVE  Departs(g, m, b, f) /\ Frees(g, m, FreeSmsg(b.g, m))
<1> SUFFICES ASSUME NEW h, h = b.g PROVE Departs(g, m, b, f) /\ Frees(g, m, FreeSmsg(b.g, m))
  OBVIOUS
<1> DEFINE u == Open(h, m)  Y == {}  v == FreeSmsg(h, m)
<1>0. Own(g, Y) /\ g \in Manager /\ h = Build(g, m, is).g
  BY DEF Own
<1> HIDE DEF Y
<1>1. /\ Own(h, Y) /\ Kept(g, h, m) /\ h.msgs = g.msgs
      /\ \E ord : Loaded(h, m, ord) /\ Values(h, m) = Range(ord)
      /\ \A k \in DOMAIN h.msg[m].tlvs : h.prm[h.msg[m].tlvs[k]].linked = <<>>
  <2>1. Builds(g, m, h)
    BY <1>0, BuildIs DEF Y
  <2> QED  BY <2>1 DEF Builds, Y
<1>2. PICK ord : Loaded(h, m, ord) /\ Values(h, m) = Range(ord)
  BY <1>1
<1>3. h \in Manager /\ h.msgs[m] = 0 /\ h.msgs \in [Msg -> {0, 1}]
  BY <1>1, ManagerIs DEF Own
<1>4. Own(u, Y) /\ Kept(h, u, m) /\ u.msgs = h.msgs /\ Sends(u, m, ord, <<0, 0>>)
  BY <1>1, <1>2, OpenIs DEF Y
<1> HIDE DEF u
<1> DEFINE x == <<0, 0>>
<1>5. x[1] = 0 /\ Sends(u, m, ord, x) /\ f = Fill(u, m)
  BY <1>4 DEF u
<1> HIDE DEF x
<1>6. /\ Own(f.g, Y) /\ Kept(u, f.g, m) /\ f.g.msgs = u.msgs
      /\ SizeOf(f.pkt) <= MAX_PARAMS_SIZE /\ (~ Ends(ord, x) => f.pkt # <<>>)
      /\ \E y : Sends(f.g, m, ord, y) /\ Carries(ord, f.pkt, x, y)
  BY <1>4, <1>5, FillIs DEF Y
<1>7. PICK y : Sends(f.g, m, ord, y) /\ Carries(ord, f.pkt, x, y)
  BY <1>6
<1>8. Kept(g, f.g, m)
  <2>1. Kept(g, u, m)
    BY <1>0, <1>1, <1>4, KeptTrans
  <2> QED  BY <1>0, <1>6, <2>1, KeptTrans
<1>9. ord \in Seq(Id) /\ IsInjective(ord) /\ f.pkt \in Seq(Parts)
  BY <1>2, <1>7 DEF Loaded, Carries
<1>10. Range(ord) # {} => f.pkt # <<>>
  <2>1. Len(ord) = 0 => Range(ord) = {}
    BY <1>9 DEF Range
  <2> QED  BY <1>5, <1>6, <1>9, <2>1 DEF Ends
<1>11. Departs(g, m, b, f)
  <2>1. Own(f.g, {}) /\ f.g.msgs = g.msgs
    BY <1>1, <1>4, <1>6 DEF Y
  <2>2. /\ Values(b.g, m) = Range(ord) /\ Carries(ord, f.pkt, <<0, 0>>, y)
    BY <1>2, <1>7 DEF x
  <2> QED  BY <1>6, <1>7, <1>8, <1>9, <1>10, <2>1, <2>2 DEF Departs
<1>12. Own(v, Y) /\ Kept(h, v, m) /\ v.msgs = [h.msgs EXCEPT ![m] = 1]
  BY <1>1, <1>3, FreeSmsgIs
<1> HIDE DEF v
<1>13. Kept(g, v, m) /\ v.msgs[m] = 1
  BY <1>0, <1>1, <1>3, <1>12, KeptTrans
<1> QED  BY <1>11, <1>12, <1>13 DEF Frees, v, Y

(* The stream it leaves on. *)
Leads(n, d, m, N, q) == q \in Exchange /\ q.src = n /\ q.dst = d /\ q.sm = m /\ q.rm = NoMsg /\ Fine(N, q)

(* It is fine: the sender is where the first packet takes the receiver. *)
LEMMA LeadsIs ==
    ASSUME NEW g, NEW m \in Msg, NEW b, NEW f, Departs(g, m, b, f), NEW n, NEW d, <<n, d>> \in Peers,
           NEW N, N[n] = f.g, NEW q, q = Started(n, d, m, Values(b.g, m), f.pkt)
    PROVE  Leads(n, d, m, N, q)
<1> DEFINE B == Values(b.g, m)  p == f.pkt  x == <<0, 0>>
<1>1. PICK ord, y : /\ ord \in Seq(Id) /\ IsInjective(ord) /\ B = Range(ord)
                    /\ Carries(ord, p, x, y) /\ Sends(f.g, m, ord, y)
                    /\ SizeOf(p) <= MAX_PARAMS_SIZE /\ (Range(ord) # {} => p # <<>>)
  BY DEF Departs
<1>2. B \in SUBSET Id /\ p \in Seq(Parts) /\ n \in Node /\ d \in Node
  BY <1>1 DEF Departs, Range, Peers, Node
<1>3. q = Started(n, d, m, B, p)
  OBVIOUS
<1> HIDE DEF B, p
<1>4. /\ q \in Exchange /\ q.src = n /\ q.dst = d /\ q.body = B /\ q.sm = m /\ q.rm = NoMsg
      /\ q.net = "start" /\ q.pkt = p /\ q.given = FALSE
  <2>1. Starts(q, n, d, m, B, p)
    BY <1>2, <1>3, StartedIs
  <2> QED  BY <2>1 DEF Starts
<1>5. Course(N, q, ord, x, y)
  BY <1>1, <1>4 DEF Course
<1>6. Fits(q)
  BY <1>1, <1>4 DEF Fits
<1>7. Fine(N, q)
  BY <1>4, <1>5, <1>6 DEF Fine
<1> QED  BY <1>4, <1>7 DEF Leads

(* Message m of g, taken from the pool, is sent or freed. *)
Posts(g, m, b, f) ==
    /\ Own(f.g, {}) /\ Kept(g, f.g, m) /\ f.g.msgs[m] = 0
    /\ \E e : Departs(e, m, b, f)
    /\ Frees(g, m, FreeSmsg(b.g, m))

(* Both outcomes, seen from before the message was taken. *)
LEMMA PostsIs ==
    ASSUME NEW g, g \in Manager, NEW m \in Msg, NEW e, Draws(g, m, e), NEW is \in SUBSET Id,
           NEW b, b = Build(e, m, is), NEW f, f = Fill(Open(b.g, m), m)
    PROVE  Posts(g, m, b, f)
<1>1. Own(e, {}) /\ Kept(g, e, m) /\ e.msgs[m] = 0 /\ e.msg[m].frag = NoParam
  BY DEF Draws
<1>2. Departs(e, m, b, f) /\ Frees(e, m, FreeSmsg(b.g, m))
  BY <1>1, DepartsIs
<1> DEFINE v == FreeSmsg(b.g, m)
<1>3. Departs(e, m, b, f) /\ Frees(e, m, v)
  BY <1>2
<1> HIDE DEF v
<1>4. Kept(e, f.g, m) /\ Kept(e, v, m)
  BY <1>3 DEF Departs, Frees
<1>5. Kept(g, f.g, m) /\ Kept(g, v, m)
  BY <1>1, <1>4, KeptTrans
<1>6. Own(f.g, {}) /\ f.g.msgs[m] = 0
  BY <1>1, <1>3 DEF Departs
<1>7. Frees(g, m, v)
  BY <1>3, <1>5 DEF Frees
<1> QED  BY <1>3, <1>5, <1>6, <1>7 DEF Posts, v

(* The message leaves on an idle stream. *)
LEMMA PostedIs ==
    ASSUME NEW M, NEW T, SmsgOK(M, T), NEW s \in Stream, T[s] = Idle, NEW n, NEW d,
           <<n, d>> \in Peers, NEW m \in Msg, M[n].msgs[m] # 0, NEW b, NEW f, Posts(M[n], m, b, f),
           NEW h, h = f.g, NEW q, q = Started(n, d, m, Values(b.g, m), f.pkt)
    PROVE  SmsgOK([M EXCEPT ![n] = h], [T EXCEPT ![s] = q])
<1>1. n \in Node /\ M \in [Node -> Manager] /\ T \in [Stream -> Exchange]
  BY DEF Node, Peers, SmsgOK
<1>2. Own(h, {}) /\ h.msgs[m] = 0 /\ Kept(M[n], h, m) /\ \E c : Departs(c, m, b, f)
  BY DEF Posts
<1>3. h \in Manager
  BY <1>2 DEF Own
<1> DEFINE N == [M EXCEPT ![n] = h]
<1>4. N[n] = f.g
  BY <1>1
<1> HIDE DEF N
<1>5. Leads(n, d, m, N, q)
  BY <1>2, <1>4, LeadsIs
<1>6. \A o \in Node, k \in Msg : ~ Holds(T[s], o, k)
  BY IdleIs
<1>7. \A o \in Node, k \in Msg : Holds(q, o, k) <=> (o = n /\ k = m)
  BY <1>5, NoMsgIs DEF Holds, Leads
<1>8. Alone(M, T, h, q, n, m, s)
  <2> DEFINE Y == {}
  <2>1. /\ h \in Manager /\ Own(h, Y) /\ Kept(M[n], h, m)
        /\ q \in Exchange /\ Fine([M EXCEPT ![n] = h], q)
    BY <1>2, <1>3, <1>5 DEF N, Leads
  <2>2. /\ \A o \in Node, k \in Msg : <<o, k>> # <<n, m>> => (Holds(q, o, k) <=> Holds(T[s], o, k))
        /\ Holds(q, n, m)
    BY <1>1, <1>6, <1>7
  <2> HIDE DEF Y
  <2> QED  BY <1>2, <2>1, <2>2 DEF Alone, Y
<1> QED  BY <1>1, <1>8, AloneIs

(* It is given back. *)
LEMMA GivenBackIs ==
    ASSUME NEW M, NEW T, SmsgOK(M, T), NEW s \in Stream, T[s] = Idle, NEW n \in Node,
           NEW m \in Msg, M[n].msgs[m] # 0, NEW h, Frees(M[n], m, h)
    PROVE  SmsgOK([M EXCEPT ![n] = h], T)
<1>1. M \in [Node -> Manager] /\ T \in [Stream -> Exchange]
  BY DEF SmsgOK
<1>2. Own(h, {}) /\ h.msgs[m] = 1 /\ Kept(M[n], h, m)
  BY DEF Frees
<1> DEFINE q == T[s]
<1>3. q \in Exchange /\ (\A N : Fine(N, q)) /\ ~ Holds(q, n, m)
  BY IdleIs
<1>4. Alone(M, T, h, q, n, m, s)
  <2> DEFINE Y == {}
  <2>1. /\ h \in Manager /\ Own(h, Y) /\ Kept(M[n], h, m)
        /\ q \in Exchange /\ Fine([M EXCEPT ![n] = h], q)
    BY <1>2, <1>3 DEF Own
  <2>2. \A o \in Node, k \in Msg : Holds(q, o, k) <=> Holds(T[s], o, k)
    OBVIOUS
  <2> HIDE DEF Y
  <2> QED  BY <1>2, <1>3, <2>1, <2>2 DEF Alone, Y
<1> HIDE DEF q
<1> DEFINE U == [T EXCEPT ![s] = q]  N == [M EXCEPT ![n] = h]
<1>5. SmsgOK(N, U)
  BY <1>4, AloneIs
<1>6. U = T
  BY <1>1 DEF q
<1> HIDE DEF U, N
<1>7. SmsgOK(N, T)
  BY <1>5, <1>6
<1> QED  BY <1>7 DEF N

(* gdt_push() *)
LEMMA RequestIs ==
    ASSUME NEW M, NEW T, SmsgOK(M, T), NEW s \in Stream, T[s] = Idle, NEW n, n = "gateway",
           Messages(M[n]) # {}, NEW m, m = NextMessage(M[n]), M[n].msg[m].frag = NoParam,
           NEW is \in SUBSET Id, NEW b, b = Build(Fetched(M[n], m), m, is),
           NEW f, f = Fill(Open(b.g, m), m)
    PROVE  /\ SmsgOK([M EXCEPT ![n] = f.g],
                     [T EXCEPT ![s] = Started(n, "agent", m, Values(b.g, m), f.pkt)])
           /\ SmsgOK([M EXCEPT ![n] = FreeSmsg(b.g, m)], T)
<1>1. n \in Node /\ <<n, "agent">> \in Peers /\ M \in [Node -> Manager]
  BY DEF Node, Peers, SmsgOK
<1>2. Own(M[n], {}) /\ M[n] \in Manager
  BY <1>1 DEF SmsgOK
<1>3. m \in Msg /\ M[n].msgs[m] > 0
  BY NextMessageIs
<1>4. Posts(M[n], m, b, f)
  <2> SUFFICES ASSUME NEW g, g = M[n], NEW e, e = Fetched(g, m) PROVE Posts(g, m, b, f)
    OBVIOUS
  <2>1. Draws(g, m, e)
    BY <1>2, <1>3, FetchedIs
  <2>2. g \in Manager /\ b = Build(e, m, is)
    BY <1>2
  <2> QED  BY <1>3, <2>1, <2>2, PostsIs
<1>5. M[n].msgs[m] # 0
  BY <1>3
<1>6. SmsgOK([M EXCEPT ![n] = f.g],
             [T EXCEPT ![s] = Started(n, "agent", m, Values(b.g, m), f.pkt)])
  BY ZenonT(40), <1>1, <1>3, <1>4, <1>5, PostedIs
<1>7. SmsgOK([M EXCEPT ![n] = FreeSmsg(b.g, m)], T)
  <2>1. Frees(M[n], m, FreeSmsg(b.g, m))
    BY <1>4 DEF Posts
  <2> DEFINE h == FreeSmsg(b.g, m)
  <2>2. Frees(M[n], m, h)
    BY <2>1
  <2> HIDE DEF h
  <2>3. n \in Node /\ m \in Msg /\ M[n].msgs[m] # 0
    BY <1>1, <1>3, <1>5
  <2>4. SmsgOK([M EXCEPT ![n] = h], T)
    BY <2>2, <2>3, GivenBackIs
  <2> QED  BY <2>4 DEF h
<1> QED  BY <1>6, <1>7

(* The message passes from stream s, which has received it, to stream t. *)
Swapped(T, s, t, p, q) == [T EXCEPT ![s] = p, ![t] = q]

(* Two streams change. *)
LEMMA SwappedIs ==
    ASSUME NEW T \in [Stream -> Exchange], NEW s \in Stream, NEW t \in Stream \ {s},
           NEW p \in Exchange, NEW q \in Exchange, NEW U, U = Swapped(T, s, t, p, q)
    PROVE  /\ U \in [Stream -> Exchange] /\ U[s] = p /\ U[t] = q
           /\ \A o \in Stream \ {s, t} : U[o] = T[o]
BY DEF Swapped

Has(r) == /\ r.dst \in Node /\ r.src \in Node /\ r.rm \in Msg /\ r.src # r.dst
          /\ Holds(r, r.dst, r.rm)

(* A stream that receives has a receiver. *)
LEMMA HasIs ==
    ASSUME NEW M, NEW T, SmsgOK(M, T), NEW s \in Stream, NEW r, r = T[s], r # Idle, r.rm # NoMsg
    PROVE  Has(r)
BY PartyIs DEF Has

(* The message has one holder before and one after: stream t, as sender    *)
(* (SMSG_PT_PASS).                                                         *)
LEMMA PassedIs ==
    ASSUME NEW M, NEW T, SmsgOK(M, T), NEW s \in Stream, NEW t \in Stream \ {s}, T[t] = Idle,
           NEW r, r = T[s], r # Idle, r.rm # NoMsg,
           NEW h, Own(h, {}), Kept(M[r.dst], h, r.rm), h.msgs[r.rm] = 0,
           NEW N, N = [M EXCEPT ![r.dst] = h],
           NEW p, Leaves(N, r, p), NEW q, Leads(r.dst, r.src, r.rm, N, q)
    PROVE  SmsgOK(N, Swapped(T, s, t, p, q))
<1> DEFINE n == r.dst  m == r.rm  C == {s, t}
<1>1. /\ n \in Node /\ r.src \in Node /\ m \in Msg /\ r.src # n /\ Holds(r, n, m)
  <2>1. Has(r)
    BY HasIs
  <2> QED  BY <2>1 DEF Has
<1>2. M \in [Node -> Manager] /\ T \in [Stream -> Exchange] /\ h \in Manager
  BY DEF SmsgOK, Own
<1>3. /\ N \in [Node -> Manager] /\ N[n] = h /\ \A o \in Node \ {n} : N[o] = M[o]
  BY <1>1, <1>2
<1>4. p \in Exchange /\ Ties(r, p) /\ p.sm = r.sm /\ p.rm = NoMsg /\ Fine(N, p)
  BY DEF Leaves
<1>5. q \in Exchange /\ q.src = n /\ q.dst = r.src /\ q.sm = m /\ q.rm = NoMsg /\ Fine(N, q)
  BY DEF Leads
<1> SUFFICES ASSUME NEW U, U = Swapped(T, s, t, p, q) PROVE SmsgOK(N, U)
  OBVIOUS
<1>6. /\ U \in [Stream -> Exchange] /\ U[s] = p /\ U[t] = q
      /\ \A o \in Stream \ C : U[o] = T[o]
  BY <1>2, <1>4, <1>5, SwappedIs
<1>7. /\ \A o \in Node, k \in Msg : <<o, k>> # <<n, m>> => (Holds(p, o, k) <=> Holds(r, o, k))
      /\ ~ Holds(p, n, m)
  BY <1>1, <1>4, NoMsgIs DEF Holds, Ties
<1>8. \A o \in Node, k \in Msg : Holds(q, o, k) <=> (o = n /\ k = m)
  BY <1>5, NoMsgIs DEF Holds
<1>9. \A o \in Node, k \in Msg : ~ Holds(T[t], o, k)
  BY IdleIs
<1>10. \A o \in Stream \ C : ~ Holds(T[o], n, m)
  BY <1>1 DEF SmsgOK
<1>11. Turn(M, T, N, U, n, m, C)
  <2>1. \A o \in C : Fine(N, U[o])
    BY <1>4, <1>5, <1>6
  <2>2. \A a \in C, o \in Node, k \in Msg : <<o, k>> # <<n, m>> => (Holds(U[a], o, k) <=> Holds(T[a], o, k))
    BY <1>6, <1>7, <1>8, <1>9
  <2>3. /\ \E a \in C : Holds(U[a], n, m)
        /\ \A a, b \in C : Holds(U[a], n, m) /\ Holds(U[b], n, m) => a = b
    BY <1>1, <1>6, <1>7, <1>8
  <2> DEFINE Y == {}
  <2>4. Own(N[n], Y) /\ Kept(M[n], N[n], m) /\ N[n].msgs[m] = 0
    BY <1>3
  <2> HIDE DEF Y, C, n, m
  <2> QED  BY <1>3, <1>6, <1>10, <2>1, <2>2, <2>3, <2>4 DEF Turn, Y
<1>12. C \in SUBSET Stream
  OBVIOUS
<1> HIDE DEF C, n, m
<1> QED  BY <1>1, <1>11, <1>12, TurnIs

(* What becomes of the message the agent has received, k. *)
Replies(r, k, b, f) == \E is \in SUBSET Id : b = Build(k, r.rm, is) /\ f = Fill(Open(b.g, r.rm), r.rm)

(* The reply is built from the message received, and sent or freed. *)
LEMMA RepliesIs ==
    ASSUME NEW M, NEW r, NEW k, Complete(M, r, k), M[r.dst] \in Manager, r.rm \in Msg,
           ~ k.msg[r.rm].missing, NEW b, NEW f, Replies(r, k, b, f)
    PROVE  Posts(M[r.dst], r.rm, b, f)
<1> SUFFICES ASSUME NEW m \in Msg, m = r.rm, NEW g \in Manager, g = M[r.dst] PROVE Posts(g, m, b, f)
  OBVIOUS
<1>1. Draws(g, m, k)
  BY DEF Complete, Draws
<1>2. PICK is \in SUBSET Id : b = Build(k, m, is) /\ f = Fill(Open(b.g, m), m)
  BY DEF Replies
<1> QED  BY <1>1, <1>2, PostsIs

(* EVSrcvMsgRecv: the reply cannot be sent, and the message is freed. *)
LEMMA ReplyFreedIs ==
    ASSUME NEW M, NEW T, SmsgOK(M, T), NEW s \in Stream, NEW r, r = T[s], r.net = "last", r.rm # NoMsg,
           NEW k, k = RecvParams(M[r.dst], r.rm, r.pkt), ~ k.msg[r.rm].missing,
           NEW b, NEW f, Replies(r, k, b, f)
    PROVE  SmsgOK([M EXCEPT ![r.dst] = FreeSmsg(b.g, r.rm)],
                  [T EXCEPT ![s] = Over(Given(r, k, r.rm), "end")])
<1>1. Complete(M, r, k)
  BY CompleteIs
<1>2. r # Idle
  BY DEF Idle, None
<1>3. r.rm \in Msg /\ M[r.dst] \in Manager
  BY <1>2, PartyIs DEF Own
<1>4. Posts(M[r.dst], r.rm, b, f)
  BY <1>1, <1>3, RepliesIs
<1> DEFINE h == FreeSmsg(b.g, r.rm)  u == Given(r, k, r.rm)
<1>5. Own(h, {}) /\ Kept(M[r.dst], h, r.rm) /\ h.msgs[r.rm] = 1
  BY <1>4 DEF Posts, Frees
<1>6. Seen(r, k, u)
  BY DEF Seen
<1> HIDE DEF h, u
<1>7. SmsgOK([M EXCEPT ![r.dst] = h], [T EXCEPT ![s] = Over(u, "end")])
  BY <1>1, <1>5, <1>6, GoneIs
<1> QED  BY <1>7 DEF h, u

(* The reply is sent on stream t. *)
LEMMA ReplySentIs ==
    ASSUME NEW M, NEW T, SmsgOK(M, T), NEW s \in Stream, NEW r, r = T[s], r.net = "last", r.rm # NoMsg,
           NEW k, k = RecvParams(M[r.dst], r.rm, r.pkt), ~ k.msg[r.rm].missing,
           NEW b, NEW f, Replies(r, k, b, f), NEW t \in Stream \ {s}, T[t] = Idle,
           NEW p, p = Over(Given(r, k, r.rm), "end"),
           NEW q, q = Started(r.dst, r.src, r.rm, Values(b.g, r.rm), f.pkt)
    PROVE  SmsgOK([M EXCEPT ![r.dst] = f.g], Swapped(T, s, t, p, q))
<1>1. Complete(M, r, k)
  BY CompleteIs
<1>2. r # Idle
  BY DEF Idle, None
<1>3. /\ r.rm \in Msg /\ M[r.dst] \in Manager /\ r.dst \in Node /\ r.src \in Node /\ r.src # r.dst
      /\ <<r.src, r.dst>> \in Peers
  BY <1>2, PartyIs DEF Own
<1>4. Posts(M[r.dst], r.rm, b, f)
  BY <1>1, <1>3, RepliesIs
<1> DEFINE h == f.g  N == [M EXCEPT ![r.dst] = h]
<1>5. Own(h, {}) /\ Kept(M[r.dst], h, r.rm) /\ h.msgs[r.rm] = 0 /\ \E c : Departs(c, r.rm, b, f)
  BY <1>4 DEF Posts
<1>6. N[r.src] = M[r.src] /\ N[r.dst] = f.g /\ N = [M EXCEPT ![r.dst] = h]
  BY <1>3 DEF SmsgOK
<1> HIDE DEF h, N
<1>7. Leaves(N, r, p)
  <2> DEFINE u == Given(r, k, r.rm)
  <2>1. Seen(r, k, u) /\ p = Over(u, "end")
    BY DEF Seen
  <2> HIDE DEF u
  <2> QED  BY <1>1, <1>6, <2>1, SeenIs
<1>8. Leads(r.dst, r.src, r.rm, N, q)
  <2>1. <<r.dst, r.src>> \in Peers
    BY <1>3 DEF Peers
  <2> DEFINE n == r.dst  d == r.src  m == r.rm
  <2>2. /\ <<n, d>> \in Peers /\ m \in Msg /\ (\E c : Departs(c, m, b, f)) /\ N[n] = f.g
        /\ q = Started(n, d, m, Values(b.g, m), f.pkt)
    BY <1>3, <1>5, <1>6, <2>1
  <2> HIDE DEF n, d, m
  <2>3. Leads(n, d, m, N, q)
    BY <2>2, LeadsIs
  <2> QED  BY <2>3 DEF n, d, m
<1>9. SmsgOK(N, Swapped(T, s, t, p, q))
  BY <1>2, <1>5, <1>6, <1>7, <1>8, PassedIs
<1> QED  BY <1>6, <1>9 DEF h

-----------------------------------------------------------------------------
(* The invariant. *)

(* SmsgInit: every pool is full. *)
Rest == [msgs |-> [m \in Msg |-> 1], free |-> [p \in Param |-> 1],
         prm |-> [p \in Param |-> Blank], msg |-> [m \in Msg |-> Message]]

(* Nothing is lent. *)
LEMMA RestIs == Own(Rest, {}) /\ \A m \in Msg : Rest.msgs[m] = 1
<1> SUFFICES ASSUME NEW g, g = Rest PROVE Own(g, {}) /\ \A m \in Msg : g.msgs[m] = 1
  OBVIOUS
<1>1. Blank \in Object /\ Blank.linked = <<>>
  <2> DEFINE o == <<>>
  <2>1. o \in Seq(Param) /\ None \in Id \cup {None} /\ Blank = [id |-> None, from |-> 0, len |-> 0, findex |-> 0, linked |-> o]
    BY DEF Blank
  <2> HIDE DEF o
  <2>2. Blank \in Object /\ Blank.linked = o
    BY <2>1 DEF Object
  <2> QED  BY <2>2 DEF o
<1>2. Message \in Envelope /\ Message.tlvs = <<>> /\ Message.frag = NoParam
  <2> DEFINE f == NoParam  q == <<>>
  <2>1. f \in Param \cup {NoParam} /\ q \in Seq(Param)
    OBVIOUS
  <2>2. Message = [tlvs |-> q, frag |-> f, vp |-> <<>>, data |-> <<>>,
                   missing |-> FALSE, pos |-> 0, pindex |-> 0, pc |-> 0]
    BY DEF Message
  <2>3. [tlvs |-> q, frag |-> f, vp |-> <<>>, data |-> <<>>,
         missing |-> FALSE, pos |-> 0, pindex |-> 0, pc |-> 0] \in Envelope
    BY <2>1, FreshEnvelope
  <2> QED  BY <2>2, <2>3
<1> DEFINE b == Blank  e == Message
<1>3. g = [msgs |-> [m \in Msg |-> 1], free |-> [p \in Param |-> 1],
           prm |-> [p \in Param |-> b], msg |-> [m \in Msg |-> e]]
  BY DEF Rest
<1>4. b \in Object /\ b.linked = <<>> /\ e \in Envelope /\ e.tlvs = <<>>
  BY <1>1, <1>2
<1> HIDE DEF b, e
<1>5. g \in Manager
  BY <1>3, <1>4 DEF Manager
<1>6. /\ \A m \in Msg : g.msgs[m] = 1 /\ g.msg[m].tlvs = <<>>
      /\ \A p \in Param : g.free[p] = 1 /\ g.prm[p].linked = <<>>
  BY <1>3, <1>4
<1>7. \A m \in Msg : Pile(g, m) = {}
  BY <1>6 DEF Pile
<1> QED  BY <1>5, <1>6, <1>7 DEF Own

(* The invariant holds at the beginning. *)
LEMMA SmsgInitIs == SmsgInit => SmsgOK(mgr, str) /\ reused \in BOOLEAN
<1> SUFFICES ASSUME SmsgInit PROVE SmsgOK(mgr, str) /\ reused \in BOOLEAN
  OBVIOUS
<1> DEFINE M == mgr  T == str  g == Rest  i == Idle
<1>1. M = [n \in Node |-> g] /\ T = [s \in Stream |-> i] /\ reused = FALSE
  BY DEF SmsgInit, Rest
<1>2. Own(g, {}) /\ \A m \in Msg : g.msgs[m] = 1
  BY RestIs
<1>3. i \in Exchange /\ (\A N : Fine(N, i)) /\ \A n, m : m \in Msg => ~ Holds(i, n, m)
  BY IdleIs
<1>4. g \in Manager
  BY <1>2 DEF Own
<1> HIDE DEF M, T, g, i
<1>5. M \in [Node -> Manager] /\ T \in [Stream -> Exchange]
  BY <1>1, <1>3, <1>4
<1>6. (\A n \in Node : M[n] = g) /\ \A s \in Stream : T[s] = i
  BY <1>1
<1>7. \A n \in Node : Own(M[n], {})
  BY <1>2, <1>6
<1>8. SmsgOK(M, T)
  BY <1>2, <1>3, <1>5, <1>6, <1>7 DEF SmsgOK
<1> QED  BY <1>1, <1>8 DEF M, T

(* A stream that is not idle has parties; what is known of each arrival. *)
LEMMA ArrivedIs ==
    ASSUME NEW M, NEW T, SmsgOK(M, T), NEW s \in Stream, NEW r, r = T[s], r.net # None
    PROVE  /\ r # Idle /\ r \in Exchange /\ <<r.src, r.dst>> \in Peers
           /\ r.net = "ack" => r.pkt = <<>>
           /\ r.net = "start" => r.rm = NoMsg
<1>1. r # Idle
  BY DEF Idle, None
<1>2. r \in Exchange /\ <<r.src, r.dst>> \in Peers
  BY <1>1, PartyIs
<1>3. PICK ord, x, y : Course(M, r, ord, x, y)
  BY <1>1, PartyIs
<1> QED  BY <1>1, <1>2, <1>3 DEF Course

(* gdt_push() preserves the invariant, whether it sends or not. *)
LEMMA RequestStep ==
    ASSUME SmsgOK(mgr, str), NEW s \in Stream, NEW is \in SUBSET Id, Request(s, is)
    PROVE  SmsgOK(mgr', str')
<1> DEFINE n == "gateway"  g == mgr[n]  m == NextMessage(g)  b == Build(Fetched(g, m), m, is)
           f == Fill(Open(b.g, m), m)
           q == Started(n, "agent", m, Values(b.g, m), f.pkt)
<1>1. str[s] = Idle /\ Messages(g) # {} /\ g.msg[m].frag = NoParam
  BY DEF Request
<1>2. \/ mgr' = [mgr EXCEPT ![n] = f.g] /\ str' = [str EXCEPT ![s] = q]
      \/ mgr' = [mgr EXCEPT ![n] = FreeSmsg(b.g, m)] /\ str' = str
  BY DEF Request, Fetched
<1>3. /\ SmsgOK([mgr EXCEPT ![n] = f.g], [str EXCEPT ![s] = q])
      /\ SmsgOK([mgr EXCEPT ![n] = FreeSmsg(b.g, m)], str)
  <2> SUFFICES ASSUME NEW w, w = n, NEW i, i = NextMessage(mgr[w]),
                      NEW c, c = Build(Fetched(mgr[w], i), i, is), NEW e, e = Fill(Open(c.g, i), i)
               PROVE  /\ SmsgOK([mgr EXCEPT ![w] = e.g],
                                [str EXCEPT ![s] = Started(w, "agent", i, Values(c.g, i), e.pkt)])
                      /\ SmsgOK([mgr EXCEPT ![w] = FreeSmsg(c.g, i)], str)
    OBVIOUS
  <2>1. w = "gateway" /\ Messages(mgr[w]) # {} /\ mgr[w].msg[i].frag = NoParam
    BY <1>1
  <2> HIDE DEF n, g, m, b, f, q
  <2> DEFINE M == mgr  T == str
  <2>2. /\ SmsgOK(M, T) /\ T[s] = Idle /\ Messages(M[w]) # {} /\ M[w].msg[i].frag = NoParam
        /\ i = NextMessage(M[w]) /\ c = Build(Fetched(M[w], i), i, is)
    BY <1>1, <2>1
  <2> HIDE DEF M, T
  <2>3. /\ SmsgOK([M EXCEPT ![w] = e.g],
                  [T EXCEPT ![s] = Started(w, "agent", i, Values(c.g, i), e.pkt)])
        /\ SmsgOK([M EXCEPT ![w] = FreeSmsg(c.g, i)], T)
    BY <2>1, <2>2, RequestIs
  <2> QED  BY <2>3 DEF M, T
<1> HIDE DEF n, g, m, b, f, q
<1> QED  BY <1>2, <1>3

(* ServiceStreamHandlerNew::run() does, with a message of the pool or      *)
(* without,                                                                *)
LEMMA HandlerNewStep ==
    ASSUME SmsgOK(mgr, str), NEW s \in Stream, HandlerNew(s)
    PROVE  SmsgOK(mgr', str')
<1> DEFINE r == str[s]  n == r.dst  g == mgr[n]  m == NextMessage(g)
<1>1. r.net = "start"
  BY DEF HandlerNew, Arrives
<1>2. CASE Messages(g) = {}
  <2>1. mgr' = mgr /\ str' = [str EXCEPT ![s] = Answer(r, "end")]
    BY <1>2 DEF HandlerNew
  <2>2. r # Idle /\ r.rm = NoMsg
    <3>1. r.net # None
      BY <1>1 DEF None
    <3> HIDE DEF r
    <3> QED  BY <1>1, <3>1, ArrivedIs DEF r
  <2>3. "end" \in {"end", "error"}
    OBVIOUS
  <2>4. SmsgOK(mgr, [str EXCEPT ![s] = Answer(r, "end")])
    <3> DEFINE M == mgr  T == str
    <3>1. SmsgOK(M, T) /\ r = T[s]
      OBVIOUS
    <3> HIDE DEF r, M, T
    <3>2. SmsgOK(M, [T EXCEPT ![s] = Answer(r, "end")])
      BY <2>2, <2>3, <3>1, AnsweredIs
    <3> QED  BY <3>2 DEF M, T
  <2> HIDE DEF r
  <2> QED  BY <2>1, <2>4
<1>3. CASE Messages(g) # {}
  <2> DEFINE a == RecvParams(Refreshed(g, m), m, r.pkt)  q == Answer(Receives(r, m), "ack")
  <2>1. mgr' = [mgr EXCEPT ![n] = a] /\ str' = [str EXCEPT ![s] = q]
    BY <1>3 DEF HandlerNew, Refreshed, Receives
  <2>2. SmsgOK([mgr EXCEPT ![n] = a], [str EXCEPT ![s] = q])
    <3> SUFFICES ASSUME NEW i, i = m
                 PROVE  SmsgOK([mgr EXCEPT ![n] = RecvParams(Refreshed(g, i), i, r.pkt)],
                               [str EXCEPT ![s] = Answer(Receives(r, i), "ack")])
      OBVIOUS
    <3> DEFINE M == mgr  T == str
    <3>1. SmsgOK(M, T) /\ r = T[s] /\ Messages(M[r.dst]) # {} /\ i = NextMessage(M[r.dst])
      BY <1>3
    <3> HIDE DEF r, M, T
    <3>2. SmsgOK([M EXCEPT ![r.dst] = RecvParams(Refreshed(M[r.dst], i), i, r.pkt)],
                 [T EXCEPT ![s] = Answer(Receives(r, i), "ack")])
      BY <1>1, <3>1, HandlerNewIs
    <3> QED  BY <3>2 DEF M, T
  <2> HIDE DEF n, a, q
  <2> QED  BY <2>1, <2>2
<1> QED  BY <1>2, <1>3

(* so does ServiceMessageNext::run(), with parameters left or without, *)
LEMMA MessageNextStep ==
    ASSUME SmsgOK(mgr, str), NEW s \in Stream, MessageNext(s)
    PROVE  SmsgOK(mgr', str')
<1> SUFFICES ASSUME NEW M, NEW T, M = mgr, T = str, NEW r, r = T[s], NEW f, f = Fill(M[r.src], r.sm)
             PROVE  SmsgOK(mgr', str')
  OBVIOUS
<1>1. r.net = "ack" /\ r.sm # NoMsg /\ SmsgOK(M, T)
  BY DEF MessageNext, Arrives, Sending
<1>2. CASE M[r.src].msg[r.sm].pindex < M[r.src].msg[r.sm].pc
  <2> DEFINE k == IF f.g.msg[r.sm].pindex = f.g.msg[r.sm].pc THEN "last" ELSE "next"
  <2>1. mgr' = [M EXCEPT ![r.src] = f.g] /\ str' = [T EXCEPT ![s] = Packet(r, k, f.pkt)]
    BY <1>2 DEF MessageNext
  <2>2. k \in {"last", "next"} /\ (k = "last" => f.g.msg[r.sm].pindex = f.g.msg[r.sm].pc)
    OBVIOUS
  <2> HIDE DEF k
  <2>3. SmsgOK([M EXCEPT ![r.src] = f.g], [T EXCEPT ![s] = Packet(r, k, f.pkt)])
    BY <1>1, <1>2, <2>2, MessageNextIs
  <2> QED  BY <2>1, <2>3
<1>3. CASE ~ (M[r.src].msg[r.sm].pindex < M[r.src].msg[r.sm].pc)
  <2>1. mgr' = M /\ str' = [T EXCEPT ![s] = Packet(r, "last", <<>>)]
    BY <1>3 DEF MessageNext
  <2>2. SmsgOK(M, [T EXCEPT ![s] = Packet(r, "last", <<>>)])
    BY <1>1, <1>3, MessageLastIs
  <2> QED  BY <2>1, <2>2
<1> QED  BY <1>2, <1>3

(* ServiceStreamHandlerNext::run(), *)
LEMMA HandlerNextStep ==
    ASSUME SmsgOK(mgr, str), NEW s \in Stream, HandlerNext(s)
    PROVE  SmsgOK(mgr', str')
<1> SUFFICES ASSUME NEW M, NEW T, M = mgr, T = str, NEW r, r = T[s] PROVE SmsgOK(mgr', str')
  OBVIOUS
<1>1. r.net = "next" /\ r.rm # NoMsg /\ SmsgOK(M, T)
  BY DEF HandlerNext, Arrives, Receiving
<1>2. /\ mgr' = [M EXCEPT ![r.dst] = RecvParams(M[r.dst], r.rm, r.pkt)]
      /\ str' = [T EXCEPT ![s] = Answer(r, "ack")]
  BY DEF HandlerNext
<1>3. SmsgOK([M EXCEPT ![r.dst] = RecvParams(M[r.dst], r.rm, r.pkt)],
             [T EXCEPT ![s] = Answer(r, "ack")])
  BY <1>1, HandlerNextIs
<1> QED  BY <1>2, <1>3

(* ServiceStreamHandlerDone::run() when the message is complete or misses  *)
(* something,                                                              *)
LEMMA HandlerDoneStep ==
    ASSUME SmsgOK(mgr, str), NEW s \in Stream, HandlerDone(s)
    PROVE  SmsgOK(mgr', str')
<1> SUFFICES ASSUME NEW M, NEW T, M = mgr, T = str, NEW r, r = T[s],
                    NEW k, k = RecvParams(M[r.dst], r.rm, r.pkt)
             PROVE SmsgOK(mgr', str')
  OBVIOUS
<1> DEFINE u == IF k.msg[r.rm].missing THEN r ELSE Given(r, k, r.rm)
<1>1. r.net = "last" /\ r.rm # NoMsg /\ SmsgOK(M, T) /\ Seen(r, k, u)
  BY DEF HandlerDone, Arrives, Receiving, Seen
<1>2. /\ mgr' = [M EXCEPT ![r.dst] = FreeSmsg(k, r.rm)]
      /\ str' = [T EXCEPT ![s] = Over(u, "end")]
  BY DEF HandlerDone
<1> HIDE DEF u
<1>3. SmsgOK([M EXCEPT ![r.dst] = FreeSmsg(k, r.rm)], [T EXCEPT ![s] = Over(u, "end")])
  BY <1>1, HandlerDoneIs
<1> QED  BY <1>2, <1>3

(* What EVSrcvMsgRecv comes to, for the message k that has been received. *)
Outcomes(M, T, s, t, r, k, b, f) ==
    /\ SmsgOK([M EXCEPT ![r.dst] = FreeSmsg(b.g, r.rm)],
              [T EXCEPT ![s] = Over(Given(r, k, r.rm), "end")])
    /\ SmsgOK([M EXCEPT ![r.dst] = f.g],
              Swapped(T, s, t, Over(Given(r, k, r.rm), "end"),
                      Started(r.dst, r.src, r.rm, Values(b.g, r.rm), f.pkt)))

(* Whether the reply is freed or sent, the invariant holds. *)
LEMMA OutcomesAre ==
    ASSUME NEW M, NEW T, SmsgOK(M, T), NEW s \in Stream, NEW r, r = T[s], r.net = "last", r.rm # NoMsg,
           NEW k, k = RecvParams(M[r.dst], r.rm, r.pkt), ~ k.msg[r.rm].missing,
           NEW b, NEW f, Replies(r, k, b, f), NEW t \in Stream \ {s}, T[t] = Idle
    PROVE  Outcomes(M, T, s, t, r, k, b, f)
<1> DEFINE p == Over(Given(r, k, r.rm), "end")
           q == Started(r.dst, r.src, r.rm, Values(b.g, r.rm), f.pkt)
<1>1. SmsgOK([M EXCEPT ![r.dst] = FreeSmsg(b.g, r.rm)], [T EXCEPT ![s] = p])
  BY ReplyFreedIs
<1>2. SmsgOK([M EXCEPT ![r.dst] = f.g], Swapped(T, s, t, p, q))
  <2>1. p = Over(Given(r, k, r.rm), "end") /\ q = Started(r.dst, r.src, r.rm, Values(b.g, r.rm), f.pkt)
    OBVIOUS
  <2> HIDE DEF p, q
  <2> QED  BY <2>1, ReplySentIs
<1> QED  BY <1>1, <1>2 DEF Outcomes

Variants(k, m) == {i \in Id \ Octets : <<i, 0>> \in DOMAIN k.msg[m].vp}

(* EVSrcvMsgRecv of the agent preserves the invariant, *)
LEMMA ReplyStep ==
    ASSUME SmsgOK(mgr, str), NEW s \in Stream, NEW t \in Stream \ {s}, NEW is \in SUBSET Id, Reply(s, t, is)
    PROVE  SmsgOK(mgr', str')
<1> DEFINE d == "agent"  e == "gateway"  r == str[s]  m == r.rm  k == RecvParams(mgr[d], m, r.pkt)
           b == Build(k, m, Variants(k, m) \cup is)  f == Fill(Open(b.g, m), m)
           p == Over(Given(r, k, m), "end")  q == Started(d, e, m, Values(b.g, m), f.pkt)
<1>1. /\ r.net = "last" /\ r.rm # NoMsg /\ r.dst = d /\ str[t] = Idle
      /\ ~ k.msg[m].missing
  BY Zenon DEF Reply, Arrives, Receiving
<1>2. \/ mgr' = [mgr EXCEPT ![d] = FreeSmsg(b.g, m)] /\ str' = [str EXCEPT ![s] = p]
      \/ mgr' = [mgr EXCEPT ![d] = f.g] /\ str' = Swapped(str, s, t, p, q)
  BY Zenon DEF Reply, Swapped, Variants
<1>3. r.src = e
  <2> DEFINE M == mgr  T == str
  <2>1. r.net # None /\ SmsgOK(M, T) /\ r = T[s]
    BY <1>1 DEF None
  <2> HIDE DEF M, T, r
  <2>2. <<r.src, r.dst>> \in Peers
    BY <2>1, ArrivedIs
  <2> QED  BY <1>1, <2>2 DEF Peers
<1>4. Replies(r, k, b, f)
  <2> DEFINE v == Variants(k, m) \cup is
  <2>1. v \in SUBSET Id
    BY DEF Variants
  <2>2. b = Build(k, m, v)
    OBVIOUS
  <2> HIDE DEF v, b, k
  <2> QED  BY <2>1, <2>2 DEF Replies
<1>5. Outcomes(mgr, str, s, t, r, k, b, f)
  <2> DEFINE M == mgr  T == str
  <2>1. /\ SmsgOK(M, T) /\ r = T[s] /\ r.net = "last" /\ r.rm # NoMsg /\ T[t] = Idle
        /\ k = RecvParams(M[r.dst], r.rm, r.pkt) /\ ~ k.msg[r.rm].missing
    BY <1>1
  <2> HIDE DEF M, T, r, k, b, f
  <2>2. Outcomes(M, T, s, t, r, k, b, f)
    BY <1>4, <2>1, OutcomesAre
  <2> QED  BY <2>2 DEF M, T
<1> HIDE DEF k, b, f, r
<1>6. /\ SmsgOK([mgr EXCEPT ![r.dst] = FreeSmsg(b.g, m)], [str EXCEPT ![s] = p])
      /\ SmsgOK([mgr EXCEPT ![r.dst] = f.g],
                Swapped(str, s, t, p, Started(r.dst, r.src, m, Values(b.g, m), f.pkt)))
  BY <1>5 DEF Outcomes
<1>7. /\ SmsgOK([mgr EXCEPT ![d] = FreeSmsg(b.g, m)], [str EXCEPT ![s] = p])
      /\ SmsgOK([mgr EXCEPT ![d] = f.g], Swapped(str, s, t, p, q))
  <2> HIDE DEF d, e, p, m
  <2> QED  BY <1>1, <1>3, <1>6
<1> HIDE DEF p, q, m, d
<1> QED  BY ZenonT(40), <1>2, <1>7

(* so does the answer for a stream that is not known, *)
LEMMA UnknownStep ==
    ASSUME SmsgOK(mgr, str), NEW s \in Stream, Unknown(s)
    PROVE  SmsgOK(mgr', str')
<1> SUFFICES ASSUME NEW M, NEW T, M = mgr, T = str, NEW r, r = T[s] PROVE SmsgOK(mgr', str')
  OBVIOUS
<1>1. SmsgOK(M, T) /\ r.net \in {"ack", "next", "last"} /\ (r.net # "ack" => r.rm = NoMsg)
  BY DEF Unknown, Arrives, Receiving
<1>2. mgr' = M /\ str' = [T EXCEPT ![s] = Answer(r, "error")]
  BY DEF Unknown
<1>3. r # Idle /\ (r.rm = NoMsg \/ r.pkt = <<>>)
  <2>1. r.net # None
    BY <1>1 DEF None
  <2> QED  BY <1>1, <2>1, ArrivedIs
<1>4. "error" \in {"end", "error"}
  OBVIOUS
<1>5. SmsgOK(M, [T EXCEPT ![s] = Answer(r, "error")])
  BY <1>1, <1>3, <1>4, AnsweredIs
<1> QED  BY <1>2, <1>5

(* ServiceMessageDone::run(), *)
LEMMA MessageDoneStep ==
    ASSUME SmsgOK(mgr, str), NEW s \in Stream, MessageDone(s)
    PROVE  SmsgOK(mgr', str')
<1> SUFFICES ASSUME NEW M, NEW T, M = mgr, T = str, NEW r, r = T[s] PROVE SmsgOK(mgr', str')
  OBVIOUS
<1>1. SmsgOK(M, T) /\ r.sm # NoMsg
  BY DEF MessageDone, Sending
<1>2. mgr' = [M EXCEPT ![r.src] = FreeSmsg(M[r.src], r.sm)] /\ str' = [T EXCEPT ![s] = Sent(r)]
  BY DEF MessageDone, Sent
<1>3. SmsgOK([M EXCEPT ![r.src] = FreeSmsg(M[r.src], r.sm)], [T EXCEPT ![s] = Sent(r)])
  BY <1>1, MessageDoneIs
<1> QED  BY <1>2, <1>3

(* ServiceStreamHandlerDone::run() for a time-out or an error, *)
LEMMA HandlerCutStep ==
    ASSUME SmsgOK(mgr, str), NEW s \in Stream, HandlerCut(s)
    PROVE  SmsgOK(mgr', str')
<1> SUFFICES ASSUME NEW M, NEW T, M = mgr, T = str, NEW r, r = T[s] PROVE SmsgOK(mgr', str')
  OBVIOUS
<1>1. SmsgOK(M, T) /\ r.rm # NoMsg
  BY DEF HandlerCut, Receiving
<1>2. mgr' = [M EXCEPT ![r.dst] = FreeSmsg(M[r.dst], r.rm)] /\ str' = [T EXCEPT ![s] = Receives(r, NoMsg)]
  BY DEF HandlerCut, Receives
<1>3. SmsgOK([M EXCEPT ![r.dst] = FreeSmsg(M[r.dst], r.rm)], [T EXCEPT ![s] = Receives(r, NoMsg)])
  BY <1>1, HandlerCutIs
<1> QED  BY <1>2, <1>3

(* and a stream that is forgotten. *)
LEMMA CloseStep ==
    ASSUME SmsgOK(mgr, str), NEW s \in Stream, Close(s)
    PROVE  SmsgOK(mgr', str')
<1> SUFFICES ASSUME NEW M, NEW T, M = mgr, T = str, NEW r, r = T[s] PROVE SmsgOK(mgr', str')
  OBVIOUS
<1>1. SmsgOK(M, T) /\ r.sm = NoMsg /\ r.rm = NoMsg
  BY DEF Close, Closed
<1>2. mgr' = M /\ str' = [T EXCEPT ![s] = Idle]
  BY DEF Close
<1>3. SmsgOK(M, [T EXCEPT ![s] = Idle])
  BY <1>1, CloseIs
<1> QED  BY <1>2, <1>3

SmsgInv == SmsgOK(mgr, str) /\ reused \in BOOLEAN

(* SmsgInv is inductive: every action preserves it. *)
LEMMA SmsgStep == SmsgInv /\ [SmsgNext]_smsg_vars => SmsgInv'
<1> SUFFICES ASSUME SmsgInv, [SmsgNext]_smsg_vars PROVE SmsgInv'
  OBVIOUS
<1>1. SmsgOK(mgr, str) /\ reused \in BOOLEAN
  BY DEF SmsgInv
<1>2. CASE RequestReused
  BY <1>1, <1>2 DEF RequestReused, SmsgInv
<1>3. CASE UNCHANGED smsg_vars
  BY <1>1, <1>3 DEF smsg_vars, SmsgInv
<1>4. ASSUME NEW s \in Stream, NEW is \in Requests, Request(s, is) PROVE SmsgInv'
  <2>1. is \in SUBSET Id
    BY ConstantsAssumption
  <2>2. SmsgOK(mgr', str')
    BY <1>1, <1>4, <2>1, RequestStep
  <2>3. reused' = reused
    BY <1>4 DEF Request
  <2> QED  BY <1>1, <2>2, <2>3 DEF SmsgInv
<1>5. ASSUME NEW s \in Stream, HandlerNew(s) PROVE SmsgInv'
  <2>1. SmsgOK(mgr', str')
    BY <1>1, <1>5, HandlerNewStep
  <2>2. reused' = reused
    BY <1>5 DEF HandlerNew
  <2> QED  BY <1>1, <2>1, <2>2 DEF SmsgInv
<1>6. ASSUME NEW s \in Stream, MessageNext(s) PROVE SmsgInv'
  <2>1. SmsgOK(mgr', str')
    BY <1>1, <1>6, MessageNextStep
  <2>2. reused' = reused
    BY <1>6 DEF MessageNext
  <2> QED  BY <1>1, <2>1, <2>2 DEF SmsgInv
<1>7. ASSUME NEW s \in Stream, HandlerNext(s) PROVE SmsgInv'
  <2>1. SmsgOK(mgr', str')
    BY <1>1, <1>7, HandlerNextStep
  <2>2. reused' = reused
    BY <1>7 DEF HandlerNext
  <2> QED  BY <1>1, <2>1, <2>2 DEF SmsgInv
<1>8. ASSUME NEW s \in Stream, HandlerDone(s) PROVE SmsgInv'
  <2>1. SmsgOK(mgr', str')
    BY <1>1, <1>8, HandlerDoneStep
  <2>2. reused' = reused
    BY <1>8 DEF HandlerDone
  <2> QED  BY <1>1, <2>1, <2>2 DEF SmsgInv
<1>9. ASSUME NEW s \in Stream, NEW t \in Stream \ {s}, NEW is \in Results, Reply(s, t, is) PROVE SmsgInv'
  <2>1. is \in SUBSET Id
    BY ConstantsAssumption
  <2>2. SmsgOK(mgr', str')
    BY Zenon, <1>1, <1>9, <2>1, ReplyStep
  <2>3. reused' = reused
    BY Zenon, <1>9 DEF Reply
  <2> QED  BY <1>1, <2>2, <2>3 DEF SmsgInv
<1>10. ASSUME NEW s \in Stream, Unknown(s) PROVE SmsgInv'
  <2>1. SmsgOK(mgr', str')
    BY <1>1, <1>10, UnknownStep
  <2>2. reused' = reused
    BY <1>10 DEF Unknown
  <2> QED  BY <1>1, <2>1, <2>2 DEF SmsgInv
<1>11. ASSUME NEW s \in Stream, MessageDone(s) PROVE SmsgInv'
  <2>1. SmsgOK(mgr', str')
    BY <1>1, <1>11, MessageDoneStep
  <2>2. reused' = reused
    BY <1>11 DEF MessageDone
  <2> QED  BY <1>1, <2>1, <2>2 DEF SmsgInv
<1>12. ASSUME NEW s \in Stream, HandlerCut(s) PROVE SmsgInv'
  <2>1. SmsgOK(mgr', str')
    BY <1>1, <1>12, HandlerCutStep
  <2>2. reused' = reused
    BY <1>12 DEF HandlerCut
  <2> QED  BY <1>1, <2>1, <2>2 DEF SmsgInv
<1>13. ASSUME NEW s \in Stream, Close(s) PROVE SmsgInv'
  <2>1. SmsgOK(mgr', str')
    BY <1>1, <1>13, CloseStep
  <2>2. reused' = reused
    BY <1>13 DEF Close
  <2> QED  BY <1>1, <2>1, <2>2 DEF SmsgInv
<1> QED
  BY <1>2, <1>3, <1>4, <1>5, <1>6, <1>7, <1>8, <1>9, <1>10, <1>11, <1>12, <1>13 DEF SmsgNext

(* SmsgInv is an invariant: at every node each parameter is in its pool or *)
(* with exactly one message, each message in its pool or with exactly one  *)
(* stream, and sender, packet and receiver of every stream are at matching *)
(* places of one order of the values.                                      *)
THEOREM MessagesAndParameters == SmsgSpec => []SmsgInv
<1>1. SmsgInit => SmsgInv
  BY SmsgInitIs DEF SmsgInv
<1> QED  BY <1>1, SmsgStep, PTL DEF SmsgSpec

(* A stream that has been given to its user has the whole message. *)
LEMMA SmsgIsReassembled == SmsgInv => Reassembled
<1> SUFFICES ASSUME SmsgInv, NEW s \in Stream, str[s].given
             PROVE  str[s].got = [k \in str[s].body \X {0} |-> Pieces(k[1])]
  BY DEF Reassembled
<1>1. str[s].given # Idle.given
  BY DEF Idle
<1>2. Fits(str[s])
  BY <1>1 DEF SmsgInv, SmsgOK, Fine
<1> QED  BY <1>2 DEF Fits, Whole

(* Reassembled is an invariant: a message that is given to the user as     *)
(* complete has exactly the values that were sent, each with all its       *)
(* pieces in order (the three stream handlers, vpmap.defragment()).        *)
THEOREM ReassembledAlways == SmsgSpec => []Reassembled
BY MessagesAndParameters, SmsgIsReassembled, PTL

(* The packets of the invariant are within the limit. *)
LEMMA PacketsFit == SmsgInv => PacketFits
<1> SUFFICES ASSUME SmsgInv, NEW s \in Stream, NEW r, r = str[s]
             PROVE  /\ SizeOf(r.pkt) <= MAX_PARAMS_SIZE
                    /\ r.net = "next" \/ (r.net = "start" /\ r.body # {}) => r.pkt # <<>>
  BY DEF PacketFits, SizeOf
<1>1. CASE r = Idle
  <2>1. r.pkt = <<>> /\ r.net = None
    BY <1>1 DEF Idle
  <2>2. SizeOf(<<>>) = 0
    <3> DEFINE q == <<>>
    <3>1. DOMAIN q = 1 .. 0 /\ 0 \in Nat
      OBVIOUS
    <3> HIDE DEF q
    <3>2. PICK z : IsRun(z, "size", 0, 0, q, 0) /\ SizeOf(q) = z[0]
      BY <3>1, SizeRun
    <3>3. SizeOf(q) = 0
      BY <3>2 DEF IsRun
    <3> QED  BY <3>3 DEF q
  <2> QED  BY <2>1, <2>2 DEF MAX_PARAMS_SIZE, None
<1>2. CASE r # Idle
  <2>1. Fits(r)
    BY <1>2 DEF SmsgInv, SmsgOK, Fine
  <2> QED  BY <2>1 DEF Fits
<1> QED  BY <1>1, <1>2

-----------------------------------------------------------------------------
(* What follows from it. *)

(* How often a value occurs among different ones. *)
LEMMA TimesIs ==
    ASSUME NEW A, NEW q \in Seq(A), IsInjective(q), NEW x
    PROVE  Times(x, q) = IF x \in Range(q) THEN 1 ELSE 0
<1> DEFINE K == {k \in DOMAIN q : q[k] = x}
<1>1. CASE x \in Range(q)
  <2>1. PICK k \in DOMAIN q : q[k] = x
    BY <1>1 DEF Range
  <2>2. K = {k}
    BY <2>1 DEF IsInjective
  <2>3. Cardinality({k}) = 1
    BY FS_Singleton
  <2> QED  BY <1>1, <2>2, <2>3 DEF Times
<1>2. CASE x \notin Range(q)
  <2>1. K = {}
    BY <1>2 DEF Range
  <2>2. Cardinality({}) = 0
    BY FS_EmptySet
  <2> QED  BY <1>2, <2>1, <2>2 DEF Times
<1> QED  BY <1>1, <1>2

(* A message is counted once: no stream holds what another one holds, and  *)
(* a stream has two different parties.                                     *)
LEMMA MessagesHeld == SmsgInv => MessageHeldOnce
<1> SUFFICES ASSUME SmsgInv, NEW n \in Node, NEW m \in Msg, NEW A, NEW B,
                    A = {s \in Stream : str[s].src = n /\ str[s].sm = m},
                    B = {s \in Stream : str[s].dst = n /\ str[s].rm = m}
             PROVE  mgr[n].msgs[m] + Cardinality(A) + Cardinality(B) = 1
  BY DEF MessageHeldOnce
<1>1. mgr[n].msgs[m] \in {0, 1}
  BY DEF SmsgInv, SmsgOK, Manager
<1>2. /\ mgr[n].msgs[m] = 0 <=> \E s \in Stream : Holds(str[s], n, m)
      /\ \A s, t \in Stream : Holds(str[s], n, m) /\ Holds(str[t], n, m) => s = t
  BY DEF SmsgInv, SmsgOK
<1>3. \A s \in Stream : Holds(str[s], n, m) <=> s \in A \cup B
  BY DEF Holds
<1>4. A \cap B = {}
  <2> SUFFICES ASSUME NEW s \in Stream, s \in A, s \in B PROVE FALSE
    OBVIOUS
  <2>1. Holds(str[s], n, m) /\ str[s].src = str[s].dst
    BY <1>3
  <2>2. str[s] # Idle
    BY <2>1, IdleIs
  <2>3. <<str[s].src, str[s].dst>> \in Peers
    BY <2>2 DEF SmsgInv, SmsgOK, Fine
  <2> QED  BY <2>1, <2>3 DEF Peers
<1>5. Cardinality({}) = 0 /\ \A s \in Stream : Cardinality({s}) = 1
  BY FS_EmptySet, FS_Singleton
<1>6. CASE mgr[n].msgs[m] = 0
  <2>1. PICK s \in Stream : s \in A \cup B
    BY <1>2, <1>3, <1>6
  <2>2. A \cup B = {s}
    BY <1>2, <1>3, <2>1
  <2>3. (A = {s} /\ B = {}) \/ (A = {} /\ B = {s})
    BY <1>4, <2>2
  <2> DEFINE c == Cardinality(A)  d == Cardinality(B)
  <2>4. (c = 1 /\ d = 0) \/ (c = 0 /\ d = 1)
    BY <1>5, <2>3
  <2> HIDE DEF c, d
  <2>5. 0 + c + d = 1
    BY <2>4
  <2> QED  BY <1>6, <2>5 DEF c, d
<1>7. CASE mgr[n].msgs[m] # 0
  <2>1. A = {} /\ B = {}
    BY <1>2, <1>3, <1>7
  <2> DEFINE c == Cardinality(A)  d == Cardinality(B)
  <2>2. c = 0 /\ d = 0 /\ mgr[n].msgs[m] = 1
    BY <1>1, <1>5, <1>7, <2>1
  <2> HIDE DEF c, d
  <2>3. mgr[n].msgs[m] + c + d = 1
    BY <2>2
  <2> QED  BY <2>3 DEF c, d
<1> QED  BY <1>6, <1>7

(* A parameter is counted once: Held() lists each one once, and the piles  *)
(* of two messages have none in common.                                    *)
LEMMA ParamsHeld == SmsgInv => ParamHeldOnce
<1> SUFFICES ASSUME SmsgInv, NEW n \in Node, NEW p \in Param, NEW g, g = mgr[n], NEW S, S = Msg \ Messages(g),
                    NEW fun, fun = [m \in S |-> Times(p, Held(g, m))]
             PROVE  g.free[p] + SumFunction(fun) = 1
  BY DEF ParamHeldOnce
<1>1. Own(g, {}) /\ g \in Manager
  BY DEF SmsgInv, SmsgOK, Own
<1>2. g.free[p] \in {0, 1} /\ \A m \in Msg : g.msgs[m] \in {0, 1}
  BY <1>1 DEF Manager
<1>3. S = {m \in Msg : g.msgs[m] = 0}
  BY <1>2 DEF Messages
<1>4. IsFiniteSet(S)
  BY <1>3, ConstantsAssumption, FS_Subset
<1>5. ASSUME NEW m \in S PROVE fun[m] = IF p \in Pile(g, m) THEN 1 ELSE 0
  <2>1. Proper(g, m) /\ m \in Msg /\ Pile(g, m) = HeldBy(g, m)
    BY <1>1, <1>3 DEF Own, Pile
  <2>2. Held(g, m) \in Seq(Param) /\ IsInjective(Held(g, m)) /\ Range(Held(g, m)) = Pile(g, m)
    BY <1>1, <2>1, HeldIs
  <2> QED  BY <2>2, TimesIs
<1> DEFINE D == {m \in S : fun[m] = 1}
<1>6. SumFunction(fun) = Cardinality(D)
  <2>1. SumFunction(fun) = SumFunctionOnSet(fun, S)
    <3>1. DOMAIN fun = S
      OBVIOUS
    <3> QED  BY <3>1 DEF SumFunction
  <2>2. \A m \in S : fun[m] \in {0, 1}
    BY <1>5
  <2> QED  BY <1>4, <2>1, <2>2, SumOfOnes
<1>7. \A m, o \in D : m = o
  BY <1>1, <1>3, <1>5 DEF Own
<1>8. g.free[p] = 0 <=> D # {}
  <2>1. g.free[p] = 0 <=> \E m \in Msg : p \in Pile(g, m)
    BY <1>1 DEF Own
  <2>2. \A m \in Msg : p \in Pile(g, m) => m \in S
    BY <1>3 DEF Pile
  <2> QED  BY <1>3, <1>5, <2>1, <2>2
<1>9. Cardinality({}) = 0 /\ \A m \in S : Cardinality({m}) = 1
  BY FS_EmptySet, FS_Singleton
<1>10. CASE D = {}
  <2>1. SumFunction(fun) = 0 /\ g.free[p] = 1
    BY <1>2, <1>6, <1>8, <1>9, <1>10
  <2> QED  BY <2>1
<1>11. CASE D # {}
  <2>1. PICK m \in S : D = {m}
    BY <1>7, <1>11
  <2> QED  BY <1>6, <1>8, <1>9, <1>11, <2>1
<1> QED  BY <1>10, <1>11

(* The pieces of a packet are of the values of the message. *)
LEMMA PacketParts ==
    ASSUME NEW ord, NEW pkt, NEW x, NEW y, ord \in Seq(Id), Carries(ord, pkt, x, y), NEW k \in DOMAIN pkt
    PROVE  pkt[k].id \in Range(ord) /\ pkt[k].len \in 1 .. DATA_SZ
<1>1. pkt \in Seq(Parts)
  BY DEF Carries
<1>2. pkt[k] \in Parts /\ k \in 1 .. Len(pkt)
  BY <1>1
<1>3. PICK w : \A j \in 1 .. Len(pkt) : /\ w[j - 1] \in Places(ord) /\ ~ Ends(ord, w[j - 1])
                                        /\ IsPart(ord, w[j - 1], pkt[j])
  BY DEF Carries
<1> DEFINE v == w[k - 1]
<1>4. v \in Places(ord) /\ ~ Ends(ord, v) /\ IsPart(ord, v, pkt[k])
  BY <1>2, <1>3
<1> HIDE DEF v
<1>5. v[1] + 1 \in DOMAIN ord
  BY <1>4 DEF Places, Ends
<1>6. pkt[k].id = ord[v[1] + 1]
  BY <1>4 DEF IsPart
<1> QED  BY <1>2, <1>5, <1>6 DEF Range, Parts

(* The types follow. *)
LEMMA SmsgTypes == SmsgInv => SmsgTypeOK
<1> SUFFICES ASSUME SmsgInv PROVE SmsgTypeOK
  OBVIOUS
<1>1. ASSUME NEW n \in Node
      PROVE  /\ mgr[n].msgs \in [Msg -> Nat] /\ mgr[n].free \in [Param -> Nat]
             /\ \A m \in Msg : /\ Range(mgr[n].msg[m].tlvs) \subseteq Param
                               /\ mgr[n].msg[m].frag \in Param \cup {NoParam}
  <2> SUFFICES ASSUME NEW g, g = mgr[n]
               PROVE  /\ g.msgs \in [Msg -> Nat] /\ g.free \in [Param -> Nat]
                      /\ \A m \in Msg : /\ Range(g.msg[m].tlvs) \subseteq Param
                                        /\ g.msg[m].frag \in Param \cup {NoParam}
    OBVIOUS
  <2>1. g \in Manager
    BY DEF SmsgInv, SmsgOK
  <2>2. /\ g.msgs \in [Msg -> {0, 1}] /\ g.free \in [Param -> {0, 1}]
        /\ \A m \in Msg : /\ Range(g.msg[m].tlvs) \in SUBSET Param
                          /\ g.msg[m].frag \in Param \cup {NoParam}
    BY <2>1, ManagerIs
  <2> QED  BY <2>2
<1>2. ASSUME NEW s \in Stream
      PROVE  /\ str[s].sm \in Msg \cup {NoMsg} /\ str[s].rm \in Msg \cup {NoMsg}
             /\ str[s].net \in {None, "start", "ack", "next", "last", "end", "error"}
             /\ \A k \in DOMAIN str[s].pkt :
                  str[s].pkt[k].id \in str[s].body /\ str[s].pkt[k].len \in 1..DATA_SZ
  <2> SUFFICES ASSUME NEW r, r = str[s]
               PROVE  /\ r.sm \in Msg \cup {NoMsg} /\ r.rm \in Msg \cup {NoMsg} /\ r.net \in Nets
                      /\ \A k \in DOMAIN r.pkt : r.pkt[k].id \in r.body /\ r.pkt[k].len \in 1..DATA_SZ
    BY DEF Nets
  <2>1. r \in Exchange /\ Fine(mgr, r)
    BY DEF SmsgInv, SmsgOK
  <2>2. r.sm \in Msg \cup {NoMsg} /\ r.rm \in Msg \cup {NoMsg} /\ r.net \in Nets
    BY <2>1 DEF Exchange
  <2>3. CASE r = Idle
    <3>1. r.pkt = <<>> /\ DOMAIN <<>> = {}
      BY <2>3 DEF Idle
    <3> QED  BY <2>2, <3>1
  <2>4. CASE r # Idle
    <3>1. PICK ord, x, y : Course(mgr, r, ord, x, y)
      BY <2>1, <2>4 DEF Fine
    <3>2. ord \in Seq(Id) /\ r.body = Range(ord) /\ Carries(ord, r.pkt, x, y)
      BY <3>1 DEF Course
    <3>3. \A k \in DOMAIN r.pkt : r.pkt[k].id \in Range(ord) /\ r.pkt[k].len \in 1 .. DATA_SZ
      BY <3>2, PacketParts
    <3> QED  BY <2>2, <3>2, <3>3
  <2> QED  BY <2>3, <2>4
<1> QED  BY <1>1, <1>2 DEF SmsgTypeOK, SmsgInv

(* HeldOnce is an invariant: packets are well formed, a message is in its  *)
(* pool once or with one stream, and a parameter in its pool once or with  *)
(* one message, once (free_smsg(), free_param(), the pools of              *)
(* ServiceMsgManager).                                                     *)
THEOREM HeldOnceAlways == SmsgSpec => []HeldOnce
<1>1. SmsgInv => HeldOnce
  BY MessagesHeld, ParamsHeld, PacketsFit, SmsgTypes DEF HeldOnce
<1> QED  BY <1>1, MessagesAndParameters, PTL
=============================================================================
