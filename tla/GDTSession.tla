----------------------------- MODULE GDTSession -----------------------------
(***************************************************************************)
(* A GDT session: the list of clients, how clients come into it (connect() *)
(* and the server loop), register, lose their association and are removed, *)
(* how the IN threads of other clients forward through them by counted     *)
(* references, and how the session is destroyed.                           *)
(* The threads inside a client are GDTClient's subject: here IN handles    *)
(* one packet after the other, and EXIT waits for the threads that the     *)
(* registration has started.  Which of several usable clients is chosen as *)
(* a route is WRR's subject.  The list is used under mtx_clients.          *)
(***************************************************************************)
EXTENDS Integers, FiniteSets

CONSTANTS Outbound,  \* clients that connect() makes
          Inbound,   \* clients that the server loop makes
          RefMod,    \* ref_counter is unsigned: it counts modulo 2^32
          Faults     \* what the code does not handle, and may happen; see below

Client == Outbound \cup Inbound

(* "broadcast": a packet for the id "*" arrives.                           *)
(* "unsent": the association is lost, or the client stopped, before OUT    *)
(*           has sent the last message of a registration.                  *)
(* "midreg": the session is destroyed while a peer registers.              *)
(* "late":   the server loop accepts a client after destroy_session() has  *)
(*           told all clients to disconnect.                               *)
ASSUME SessionAssumption ==
    /\ Outbound \cap Inbound = {} /\ IsFiniteSet(Client)
    /\ RefMod \in Nat /\ RefMod > Cardinality(Client) + 1
    /\ Faults \subseteq {"broadcast", "unsent", "midreg", "late"}

VARIABLES
    clients,       \* the list
    life,          \* of each client: see Life
    active, registered,
    refc,          \* ref_counter
    fwd,           \* routes that the client's IN thread is forwarding to
    reg,           \* the client's registration: see Registration
    result,        \* what connect() has returned
    server,        \* the server thread
    session,       \* destroy_session()
    thread_count   \* of the session

vars == <<clients, life, active, registered, refc, fwd, reg, result, server,
          session, thread_count>>

(* "lost": IN tries to connect again; "exit": EXIT waits for the threads;  *)
(* "removing": remove_client() waits for the references; "stray": it did   *)
(* not find the client.                                                    *)
Life == {"none", "up", "lost", "exit", "removing", "gone", "stray"}

(* The registration stream, and who waits for it: connect()'s caller, or a *)
(* thread of the client (after a reconnect, and reg_timeout_loop).         *)
Registration == [stream : {"none", "open", "closing"}, got : BOOLEAN,
                 waiter : {"none", "caller", "thread"}, posted : BOOLEAN]

Init == /\ clients = {}
        /\ life = [c \in Client |-> "none"]
        /\ active = [c \in Client |-> FALSE]
        /\ registered = [c \in Client |-> FALSE]
        /\ refc = [c \in Client |-> 1]
        /\ fwd = [c \in Client |-> {}]
        /\ reg = [c \in Client |-> [stream |-> "none", got |-> FALSE,
                                    waiter |-> "none", posted |-> FALSE]]
        /\ result = [c \in Outbound |-> "none"]
        /\ server \in {"on", "off"}
        /\ session = "up"
        /\ thread_count = IF server = "on" THEN 1 ELSE 0

Dec(n) == IF n = 0 THEN RefMod - 1 ELSE n - 1

-----------------------------------------------------------------------------
(* Clients come. *)

(* connect(): the client's threads run before it registers, and it is not  *)
(* in the list before it has registered.                                   *)
Connect(c) ==
    /\ session = "up" /\ life[c] = "none"
    /\ life' = [life EXCEPT ![c] = "up"]
    /\ active' = [active EXCEPT ![c] = TRUE]
    /\ thread_count' = thread_count + 1
    /\ reg' = [reg EXCEPT ![c].stream = "open", ![c].waiter = "caller"]
    /\ UNCHANGED <<clients, registered, refc, fwd, result, server, session>>

(* server_loop looks at server_mode before it polls, not after. *)
Accept(c) ==
    /\ server # "off" /\ (session = "up" \/ "late" \in Faults)
    /\ life[c] = "none"
    /\ life' = [life EXCEPT ![c] = "up"]
    /\ active' = [active EXCEPT ![c] = TRUE]
    /\ clients' = clients \cup {c}
    /\ thread_count' = thread_count + 1
    /\ reg' = [reg EXCEPT ![c].waiter = "thread"]
    /\ UNCHANGED <<registered, refc, fwd, result, server, session>>

-----------------------------------------------------------------------------
(* Registration. *)

(* RegClientStreamNew::run: the peer's request, complete or not. *)
RegNew(c) ==
    /\ life[c] = "up" /\ active[c] /\ fwd[c] = {}
    /\ reg[c].waiter = "thread" /\ reg[c].stream = "none" /\ ~reg[c].posted
    /\ \E got \in BOOLEAN :
         reg' = [reg EXCEPT ![c].stream = "open", ![c].got = got]
    /\ UNCHANGED <<clients, life, active, registered, refc, fwd, result,
                   server, session, thread_count>>

(* RegClientStreamDone::run: the stream has ended or timed out. *)
RegDone(c) ==
    /\ life[c] = "up" /\ fwd[c] = {} /\ reg[c].stream = "open"
    /\ reg' = [reg EXCEPT ![c].stream = "none", ![c].posted = TRUE]
    /\ \E timeout \in BOOLEAN :
         IF reg[c].got /\ ~timeout
           THEN /\ registered' = [registered EXCEPT ![c] = TRUE]
                /\ UNCHANGED active
           ELSE /\ active' = [active EXCEPT ![c] = FALSE]
                /\ UNCHANGED registered
    /\ UNCHANGED <<clients, life, refc, fwd, result, server, session,
                   thread_count>>

(* reg_timeout_loop ends, and frees both of the handlers above. *)
RegThread(c) ==
    /\ reg[c].waiter = "thread" /\ (reg[c].posted \/ ~active[c])
    /\ reg' = [reg EXCEPT ![c].waiter = "none"]
    /\ UNCHANGED <<clients, life, active, registered, refc, fwd, result,
                   server, session, thread_count>>

(* register_client(): the peer's answer, with all parameters or not. *)
RegEnd(c) ==
    /\ life[c] = "up" /\ fwd[c] = {} /\ reg[c].stream = "open"
    /\ \E got \in BOOLEAN :
         reg' = [reg EXCEPT ![c].stream = "closing", ![c].got = got]
    /\ UNCHANGED <<clients, life, active, registered, refc, fwd, result,
                   server, session, thread_count>>

(* OUT has sent STREAM_COMPLETE. *)
RegSent(c) ==
    /\ reg[c].stream = "closing"
    /\ registered' = [registered EXCEPT ![c] = @ \/ reg[c].got]
    /\ reg' = [reg EXCEPT ![c].stream = "none", ![c].posted = TRUE]
    /\ UNCHANGED <<clients, life, active, refc, fwd, result, server, session,
                   thread_count>>

(* Mutant: the time-out does not signal. *)
RegTimeoutSilent(c) ==
    /\ life[c] = "up" /\ fwd[c] = {} /\ reg[c].stream = "open"
    /\ reg' = [reg EXCEPT ![c].stream = "none"]
    /\ UNCHANGED <<clients, life, active, registered, refc, fwd, result,
                   server, session, thread_count>>

RegTimeout(c) ==
    /\ life[c] = "up" /\ fwd[c] = {} /\ reg[c].stream = "open"
    /\ reg' = [reg EXCEPT ![c].stream = "none", ![c].posted = TRUE]
    /\ UNCHANGED <<clients, life, active, registered, refc, fwd, result,
                   server, session, thread_count>>

(* register_client() returns, to connect() or to the thread of             *)
(* init_reconnect(), which ends.  connect() lists the client, or has       *)
(* remove_client() look for it in vain.                                    *)
RegReturn(c) ==
    /\ reg[c].waiter # "none" /\ reg[c].posted
    /\ reg' = [reg EXCEPT ![c].waiter = "none", ![c].posted = FALSE]
    /\ \/ /\ reg[c].waiter = "thread"
          /\ UNCHANGED <<clients, result>>
       \/ /\ reg[c].waiter = "caller" /\ registered[c]
          /\ clients' = clients \cup {c}
          /\ result' = [result EXCEPT ![c] = "client"]
       \/ /\ reg[c].waiter = "caller" /\ ~registered[c]
          /\ result' = [result EXCEPT ![c] = "null"]
          /\ UNCHANGED clients
    /\ UNCHANGED <<life, active, registered, refc, fwd, server, session,
                   thread_count>>

-----------------------------------------------------------------------------
(* Clients go. *)

(* Mutant: streams are not timed out. *)
ForcedNot(c) == reg

(* process_timeout(true) on the registration stream; one whose last        *)
(* message is queued is skipped.                                           *)
Forced(c) == [reg EXCEPT ![c].stream = IF @ = "open" THEN "none" ELSE @,
                         ![c].posted = @ \/ reg[c].stream = "open"]

(* The association is lost: IN times all streams out and init_reconnect(). *)
Lost(c) ==
    /\ life[c] = "up" /\ active[c] /\ fwd[c] = {}
    /\ \/ /\ reg[c].stream # "closing"
          /\ reg' = Forced(c)
       \/ /\ reg[c].stream = "closing" /\ "unsent" \in Faults
          /\ reg' = [reg EXCEPT ![c].stream = "none"]
    /\ registered' = [registered EXCEPT ![c] = FALSE]
    /\ IF c \in Outbound
         THEN life' = [life EXCEPT ![c] = "lost"] /\ UNCHANGED active
         ELSE active' = [active EXCEPT ![c] = FALSE] /\ UNCHANGED life
    /\ UNCHANGED <<clients, refc, fwd, result, server, session, thread_count>>

(* reconnect_socket() has succeeded; a new thread registers the client. *)
Reconnected(c) ==
    /\ life[c] = "lost" /\ active[c] /\ reg[c].waiter = "none"
    /\ life' = [life EXCEPT ![c] = "up"]
    /\ reg' = [reg EXCEPT ![c].stream = "open", ![c].waiter = "thread"]
    /\ UNCHANGED <<clients, active, registered, refc, fwd, result, server,
                   session, thread_count>>

(* in_loop ends: streams are timed out, and EXIT starts. *)
InEnds(c) ==
    /\ life[c] \in {"up", "lost"} /\ ~active[c] /\ fwd[c] = {}
    /\ life' = [life EXCEPT ![c] = "exit"]
    /\ \/ reg' = Forced(c)
       \/ /\ reg[c].stream = "closing" /\ "unsent" \in Faults
          /\ reg' = [reg EXCEPT ![c].stream = "none"]
    /\ UNCHANGED <<clients, active, registered, refc, fwd, result, server,
                   session, thread_count>>

(* exit_loop, and remove_client() up to the unlock. *)
ExitRemove(c) ==
    /\ life[c] = "exit" /\ reg[c].waiter # "thread"
    /\ \/ /\ c \in clients
          /\ clients' = clients \ {c}
          /\ refc' = [refc EXCEPT ![c] = Dec(@)]
          /\ life' = [life EXCEPT ![c] = "removing"]
       \/ /\ c \notin clients
          /\ life' = [life EXCEPT ![c] = "stray"]
          /\ UNCHANGED <<clients, refc>>
    /\ UNCHANGED <<active, registered, fwd, reg, result, server, session,
                   thread_count>>

(* Mutant: the client is deleted at once. *)
FreeNow(c) ==
    /\ life[c] = "removing"
    /\ life' = [life EXCEPT ![c] = "gone"]
    /\ thread_count' = thread_count - 1
    /\ UNCHANGED <<clients, active, registered, refc, fwd, reg, result,
                   server, session>>

(* Mutant: the client is taken off the session's count twice. *)
FreeTwice(c) ==
    /\ life[c] = "removing" /\ refc[c] = 0
    /\ life' = [life EXCEPT ![c] = "gone"]
    /\ thread_count' = thread_count - 2
    /\ UNCHANGED <<clients, active, registered, refc, fwd, reg, result,
                   server, session>>

(* Mutant: the client is not taken off the session's count. *)
FreeCounted(c) ==
    /\ life[c] = "removing" /\ refc[c] = 0
    /\ life' = [life EXCEPT ![c] = "gone"]
    /\ UNCHANGED <<clients, active, registered, refc, fwd, reg, result,
                   server, session, thread_count>>

(* "wait for ref counter to become zero", "free mem, no refs present". *)
Free(c) ==
    /\ life[c] = "removing" /\ refc[c] = 0
    /\ life' = [life EXCEPT ![c] = "gone"]
    /\ thread_count' = thread_count - 1
    /\ UNCHANGED <<clients, active, registered, refc, fwd, reg, result,
                   server, session>>

-----------------------------------------------------------------------------
(* Forwarding. *)

Routable == {r \in clients : registered[r] /\ active[r]}

(* Mutant: the route is handed out without a reference. *)
FindRouteUncounted(f) ==
    /\ life[f] = "up" /\ active[f] /\ fwd[f] = {}
    /\ \E r \in Routable : fwd' = [fwd EXCEPT ![f] = {r}]
    /\ UNCHANGED <<clients, life, active, registered, refc, reg, result,
                   server, session, thread_count>>

(* What find_route() may hand out: for a type, or a type and an id, one    *)
(* client with a reference; for "*", every client and no reference.        *)
Lookup(f) ==
    {[routes |-> {r}, counted |-> TRUE] : r \in Routable}
      \cup IF "broadcast" \in Faults
             THEN {[routes |-> Routable \ {f}, counted |-> FALSE]} ELSE {}

FindRoute(f) ==
    /\ life[f] = "up" /\ active[f] /\ fwd[f] = {}
    /\ \E found \in Lookup(f) :
         /\ fwd' = [fwd EXCEPT ![f] = found.routes]
         /\ refc' = [r \in Client |-> IF found.counted /\ r \in found.routes
                                        THEN (refc[r] + 1) % RefMod
                                        ELSE refc[r]]
    /\ UNCHANGED <<clients, life, active, registered, reg, result, server,
                   session, thread_count>>

(* The payload is queued with the route, unless its pool is empty. *)
Forward(f) ==
    /\ \E r \in fwd[f] : /\ fwd' = [fwd EXCEPT ![f] = @ \ {r}]
                         /\ refc' = [refc EXCEPT ![r] = Dec(@)]
    /\ UNCHANGED <<clients, life, active, registered, reg, result, server,
                   session, thread_count>>

-----------------------------------------------------------------------------
(* The session ends: terminate() of every daemon stops the server first,   *)
(* in the thread that has called connect().                                *)

StopServer == /\ server = "on" /\ server' = "stopping"
              /\ UNCHANGED <<clients, life, active, registered, refc, fwd,
                             reg, result, session, thread_count>>

ServerEnds == /\ server = "stopping" /\ server' = "off"
              /\ thread_count' = thread_count - 1
              /\ UNCHANGED <<clients, life, active, registered, refc, fwd,
                             reg, result, session>>

Destroy == /\ session = "up" /\ server # "on"
           /\ \A c \in Outbound : reg[c].waiter # "caller"
           /\ \/ "midreg" \in Faults
              \/ \A c \in Inbound : reg[c].stream = "none"
           /\ session' = "destroying"
           /\ active' = [c \in Client |-> active[c] /\ c \notin clients]
           /\ UNCHANGED <<clients, life, registered, refc, fwd, reg, result,
                          server, thread_count>>

Destroyed == /\ session = "destroying" /\ thread_count = 0
             /\ session' = "destroyed"
             /\ UNCHANGED <<clients, life, active, registered, refc, fwd,
                            reg, result, server, thread_count>>

Step(c) == \/ Lost(c) \/ InEnds(c) \/ ExitRemove(c) \/ Free(c)
           \/ FindRoute(c) \/ Forward(c)
OutboundStep(c) == \/ Connect(c) \/ RegEnd(c) \/ RegSent(c) \/ RegTimeout(c)
                   \/ RegReturn(c) \/ Reconnected(c)
InboundStep(c) == Accept(c) \/ RegNew(c) \/ RegDone(c) \/ RegThread(c)

Next == \/ \E c \in Client : Step(c)
        \/ \E c \in Outbound : OutboundStep(c)
        \/ \E c \in Inbound : InboundStep(c)
        \/ StopServer \/ ServerEnds \/ Destroy \/ Destroyed

Spec == Init /\ [][Next]_vars

(* Threads run, and a registration stream ends or is timed out: IN looks   *)
(* at time-outs between packets, however many it has to forward.  Nothing  *)
(* is assumed of peers, of reconnecting, or of who stops the daemon.       *)
FairSpec ==
    /\ Spec
    /\ \A c \in Client : WF_vars(InEnds(c)) /\ WF_vars(ExitRemove(c))
                         /\ WF_vars(Free(c)) /\ WF_vars(Forward(c))
    /\ \A c \in Outbound : SF_vars(RegTimeout(c)) /\ WF_vars(RegSent(c))
                           /\ WF_vars(RegReturn(c))
    /\ \A c \in Inbound : WF_vars(RegThread(c))
    /\ WF_vars(ServerEnds) /\ WF_vars(Destroyed)

-----------------------------------------------------------------------------
TypeOK ==
    /\ clients \subseteq Client
    /\ life \in [Client -> Life]
    /\ active \in [Client -> BOOLEAN] /\ registered \in [Client -> BOOLEAN]
    /\ refc \in [Client -> 0 .. RefMod - 1]
    /\ fwd \in [Client -> SUBSET Client]
    /\ reg \in [Client -> Registration]
    /\ result \in [Outbound -> {"none", "client", "null"}]
    /\ server \in {"on", "stopping", "off"}
    /\ session \in {"up", "destroying", "destroyed"}
    /\ thread_count \in Nat

(* "free mem, no refs present": no IN thread is forwarding to a client     *)
(* that remove_client() has deleted.                                       *)
NoUseAfterDelete ==
    \A f \in Client : \A r \in fwd[f] : life[r] # "gone"

Holders(r) == {f \in Client : r \in fwd[f]}

(* ref_counter counts the list's reference and those of the IN threads,    *)
(* however lookups, forwarding, loss and removal interleave.               *)
RefcIsHolders ==
    \A r \in Client :
       refc[r] = Cardinality(Holders(r))
                   + IF life[r] \in {"removing", "gone"} THEN 0 ELSE 1

(* The callbacks of a peer's registration stream, which IN calls when it   *)
(* ends or is timed out, have not been freed by reg_timeout_loop.          *)
HandlersLive ==
    \A c \in Inbound : reg[c].stream = "open" => reg[c].waiter = "thread"

(* A client that has registered can be found as a route: it is in the      *)
(* list, or connect() has not yet returned or has returned nothing.        *)
RegisteredIsListed ==
    \A c \in Client : registered[c] /\ active[c] =>
       \/ c \in clients
       \/ c \in Outbound /\ (reg[c].waiter = "caller" \/ result[c] = "null")

(* connect() returns, whatever the peer answers or does not answer.        *)
ConnectReturns ==
    \A c \in Outbound : reg[c].waiter = "caller" ~> reg[c].waiter # "caller"

(* destroy_session() returns, unless a connect() has failed: the client of *)
(* that one goes on running and is told nothing.                           *)
DestroyEnds ==
    session = "destroying" ~>
       session = "destroyed" \/ \E c \in Outbound : result[c] = "null"
=============================================================================
