----------------------------- MODULE CfgNotify -----------------------------
(***************************************************************************)
(* How a committed configuration reaches the daemons that have asked for   *)
(* it: the notifications of the config daemon (prepare_notifications and   *)
(* StreamDone of services/config/events.cpp, notify_user and its stream    *)
(* handlers of cfg/config_gdt.cpp) and the subscribers, which run          *)
(* notification_request and CfgUpdateStream* (cfg/config_gdt.cpp).         *)
(*                                                                         *)
(* One node path is subscribed to.  Its values are the numbers of the      *)
(* commits that set them.  The configuration mutex is held from the first  *)
(* packet of a request to its StreamDone; ConfigDaemon models the requests *)
(* themselves.  Each update goes to each user in a GDT stream of its own,  *)
(* one item per round trip.                                                *)
(***************************************************************************)
EXTENDS Naturals, Sequences, FiniteSets, FiniteSetsExt

CONSTANTS User, Item,
          Pool,         \* streams that other uses leave in each user's client
          MaxCommits,   \* bound: commits
          MaxFaults     \* bound: associations and routes lost, time-outs

ASSUME BoundsAssumption == /\ IsFiniteSet(User) /\ IsFiniteSet(Item)
                           /\ {MaxCommits, MaxFaults} \subseteq Nat
                           /\ Pool \in [User -> Nat]
ASSUME MarkAssumption == {"none", "commit"} \cap User = {}

VARIABLES
    cfg,       \* the committed values
    ntf,       \* the GDTCfgNotification: it exists, and its ntf_cfg_lst
    users,     \* its users: who, and whether gdtc is still in the session
    lock,      \* who holds the configuration mutex: a user's GET, "commit"
    streams,   \* the update streams
    sub,       \* the subscribers
    conn,      \* their associations are up
    commits, faults

vars == <<cfg, ntf, users, lock, streams, sub, conn, commits, faults>>

Values == [Item -> 0 .. MaxCommits]
Change == [item : Item, value : 1 .. MaxCommits]

(* An update stream.  pc is the packet on its way: the START, the user's   *)
(* answer ("ask"), an item, the END, or the error that ends the stream at  *)
(* the user ("cut") or at the daemon ("error").  at is the position that   *)
(* the pointer ntf_user refers to.                                         *)
Stream == [no : 1 .. MaxCommits, user : User, at : 1 .. Cardinality(User),
           left : SUBSET Change, got : SUBSET Change,
           pc : {"start", "ask", "item", "end", "cut", "error"},
           here : BOOLEAN,     \* the daemon still has its stream
           there : BOOLEAN]    \* the user still has its stream

(* A subscriber: its values, the commit they are from, the answer to its   *)
(* request, and whether a mishap has befallen its updates since it asked.  *)
Subscriber == [pc : {"out", "getting", "got", "in"},
               cfg : Values, seen : 0 .. MaxCommits,
               snap : Values, snapno : 0 .. MaxCommits,
               handler : BOOLEAN, mishap : BOOLEAN]

Zero == [i \in Item |-> 0]

Init == /\ cfg = Zero
        /\ ntf = [made |-> FALSE, lst |-> {}]
        /\ users = <<>> /\ lock = "none" /\ streams = {}
        /\ sub = [u \in User |->
                    [pc |-> "out", cfg |-> Zero, seen |-> 0, snap |-> Zero,
                     snapno |-> 0, handler |-> FALSE, mishap |-> FALSE]]
        /\ conn = [u \in User |-> TRUE]
        /\ commits = 0 /\ faults = 0

Mishap(us) == [u \in User |->
                 [sub[u] EXCEPT !.mishap =
                    sub[u].mishap \/ (u \in us /\ sub[u].pc # "out")]]

-----------------------------------------------------------------------------
(* A commit: prepare_notifications() lists every changed item before the   *)
(* values are set; StreamDone sends the list.  A list that no StreamDone   *)
(* has sent is extended by the next commit.                                *)

Commit(S) ==
    /\ lock = "none" /\ commits < MaxCommits
    /\ lock' = "commit" /\ commits' = commits + 1
    /\ cfg' = [i \in Item |-> IF i \in S THEN commits' ELSE cfg[i]]
    /\ ntf' = IF ~ntf.made THEN ntf
              ELSE [ntf EXCEPT !.lst =
                      @ \cup {[item |-> i, value |-> commits'] : i \in S}]
    /\ UNCHANGED <<users, streams, sub, conn, faults>>

(* What is left of a vector when all but the positions ks are erased.      *)
Kept(s, ks) == [n \in 1 .. Cardinality(ks) |->
                  s[CHOOSE k \in ks : Cardinality({j \in ks : j <= k}) = n]]

HasStream(u) == Cardinality({s \in streams : s.user = u /\ s.here}) < Pool[u]

NewStream(k, es) ==
    [no |-> commits, user |-> es[k].id, at |-> k, left |-> ntf.lst,
     got |-> {}, pc |-> "start", here |-> TRUE, there |-> FALSE]

(* Mutant: the list is not cleared, and nothing is sent. *)
CommitDoneSilent ==
    /\ lock = "commit" /\ lock' = "none"
    /\ ntf' = [ntf EXCEPT !.lst = {}]
    /\ UNCHANGED <<cfg, users, streams, sub, conn, commits, faults>>

(* StreamDone: users whose client is gone are dropped on the way. *)
CommitDone ==
    /\ lock = "commit" /\ lock' = "none"
    /\ IF ntf.lst = {} THEN UNCHANGED <<ntf, users, streams, sub>>
       ELSE LET es == Kept(users, {k \in DOMAIN users : users[k].live})
                sent == {k \in DOMAIN es : HasStream(es[k].id)}
            IN /\ users' = es
               /\ streams' = streams \cup {NewStream(k, es) : k \in sent}
               /\ sub' = Mishap({es[k].id : k \in DOMAIN es \ sent})
               /\ ntf' = [ntf EXCEPT !.lst = {}]
    /\ UNCHANGED <<cfg, conn, commits, faults>>

(* The client that commits is lost before its stream is done: the mutex is *)
(* released, the list waits for the next commit.                           *)
CommitLost ==
    /\ lock = "commit" /\ lock' = "none" /\ faults < MaxFaults
    /\ faults' = faults + 1
    /\ sub' = Mishap(User)
    /\ UNCHANGED <<cfg, ntf, users, streams, conn, commits>>

-----------------------------------------------------------------------------
(* notification_request.                                                   *)

(* unreg_user() *)
Without(u) == Kept(users, {k \in DOMAIN users : users[k].id # u})
Registered(u) == Append(Without(u), [id |-> u, live |-> TRUE])

(* The GET arrives: process_get() registers the user, or moves it to the   *)
(* end, and reads the values under the mutex.                              *)
Subscribe(u) ==
    /\ sub[u].pc = "out" /\ conn[u] /\ lock = "none" /\ lock' = u
    /\ ntf' = [ntf EXCEPT !.made = TRUE]
    /\ users' = Registered(u)
    /\ sub' = [sub EXCEPT ![u].pc = "getting", ![u].snap = cfg,
                          ![u].snapno = commits, ![u].mishap = FALSE]
    /\ UNCHANGED <<cfg, streams, conn, commits, faults>>

(* The last item arrives: the caller is woken, the answer is on its way.   *)
GetEnds(u) ==
    /\ sub[u].pc = "getting" /\ conn[u]
    /\ sub' = [sub EXCEPT ![u].pc = "got"]
    /\ UNCHANGED <<cfg, ntf, users, lock, streams, conn, commits, faults>>

(* The request is timed out: the user has been registered all the same.    *)
GetFails(u) ==
    /\ sub[u].pc = "getting"
    /\ \/ ~conn[u] /\ UNCHANGED faults
       \/ conn[u] /\ faults < MaxFaults /\ faults' = faults + 1
    /\ sub' = [sub EXCEPT ![u].pc = "out", ![u].snap = Zero, ![u].snapno = 0]
    /\ UNCHANGED <<cfg, ntf, users, lock, streams, conn, commits>>

(* StreamDone of the GET, or an idle poll after it has been given up. *)
GetDone(u) ==
    /\ lock = u /\ sub[u].pc # "getting" /\ lock' = "none"
    /\ UNCHANGED <<cfg, ntf, users, streams, sub, conn, commits, faults>>

(* The caller of notification_request() takes the values over, without the *)
(* subscriber's mutex, and then sets the handler of new streams.           *)
TakeOver(u) ==
    /\ sub[u].pc = "got"
    /\ sub' = [sub EXCEPT ![u].pc = "in", ![u].handler = TRUE,
                 ![u].cfg = sub[u].snap, ![u].seen = sub[u].snapno,
                 ![u].mishap = sub[u].mishap \/ sub[u].seen > sub[u].snapno,
                 ![u].snap = Zero, ![u].snapno = 0]
    /\ UNCHANGED <<cfg, ntf, users, lock, streams, conn, commits, faults>>

-----------------------------------------------------------------------------
(* An update stream, packet by packet.                                     *)

Moved(s, t) == streams' = (streams \ {s}) \cup {t}
Ended(s) == streams' = streams \ {s}

(* A user that has no handler yet answers the START with END. *)
Accept(s) ==
    /\ s.pc = "start"
    /\ IF sub[s.user].handler
       THEN Moved(s, [s EXCEPT !.pc = "ask", !.there = TRUE])
            /\ UNCHANGED sub
       ELSE Ended(s) /\ sub' = Mishap({s.user})
    /\ UNCHANGED <<cfg, ntf, users, lock, conn, commits, faults>>

(* NtfyUsrStreamNext, or the error for an unknown stream. *)
Ask(s) ==
    /\ s.pc = "ask"
    /\ Moved(s, [s EXCEPT !.pc = IF ~s.here THEN "cut"
                                 ELSE IF s.left = {} THEN "end" ELSE "item"])
    /\ UNCHANGED <<cfg, ntf, users, lock, sub, conn, commits, faults>>

(* CfgUpdateStreamNext collects the item: older changes come first. *)
TakeItem(s) ==
    /\ s.pc = "item"
    /\ IF ~s.there THEN Moved(s, [s EXCEPT !.pc = "error"])
       ELSE \E c \in s.left :
              /\ \A d \in s.left : c.value <= d.value
              /\ Moved(s, [s EXCEPT !.pc = "ask", !.left = @ \ {c},
                                    !.got = @ \cup {c}])
    /\ UNCHANGED <<cfg, ntf, users, lock, sub, conn, commits, faults>>

(* CfgUpdateStreamDone: what has been collected is applied in one piece,   *)
(* in the order of its arrival.                                            *)
Applied(v, s) ==
    [i \in Item |-> LET got == {c.value : c \in {d \in s.got : d.item = i}}
                    IN IF got = {} THEN v[i] ELSE Max(got)]

(* An update that comes after a later one, or in part, is a mishap. *)
Apply(s) ==
    sub' = [sub EXCEPT
              ![s.user].cfg = Applied(sub[s.user].cfg, s),
              ![s.user].seen = IF sub[s.user].seen > s.no THEN sub[s.user].seen
                               ELSE s.no,
              ![s.user].mishap = \/ sub[s.user].mishap
                                 \/ sub[s.user].seen > s.no \/ s.left # {}]

TakeEnd(s) ==
    /\ s.pc = "end"
    /\ IF s.there THEN Ended(s) /\ Apply(s)
       ELSE Moved(s, [s EXCEPT !.pc = "error"]) /\ UNCHANGED sub
    /\ UNCHANGED <<cfg, ntf, users, lock, conn, commits, faults>>

(* An error ends the user's stream: its END handler applies what has been  *)
(* collected so far; update_count is not looked at.                        *)
TakeCut(s) ==
    /\ s.pc = "cut" /\ Ended(s)
    /\ IF s.there THEN Apply(s) ELSE UNCHANGED sub
    /\ UNCHANGED <<cfg, ntf, users, lock, conn, commits, faults>>

(* NtfyUsrStreamDone: the user that ntf_user refers to by now is taken off *)
(* the list: the one at that position, or, when the vector has moved or    *)
(* shrunk, whatever is left there.                                         *)
Pointed(s) == {s.user} \cup IF s.at \in DOMAIN users THEN {users[s.at].id}
                            ELSE {users[k].id : k \in DOMAIN users}

TakeError(s) ==
    /\ s.pc = "error" /\ Ended(s)
    /\ \/ ~s.here /\ UNCHANGED <<users, lock, sub>>
       \/ /\ s.here /\ lock \in {"none", s.user} /\ lock' = "none"
          /\ \E u \in Pointed(s) :
               /\ users' = Without(u)
               /\ sub' = Mishap({u, s.user})
    /\ UNCHANGED <<cfg, ntf, conn, commits, faults>>

(* A router has lost the user for a moment. *)
NoRoute(s) ==
    /\ s.pc \in {"start", "item", "end"} /\ faults < MaxFaults
    /\ faults' = faults + 1
    /\ Moved(s, [s EXCEPT !.pc = "error"])
    /\ UNCHANGED <<cfg, ntf, users, lock, sub, conn, commits>>

(* Mutant: the user applies what it has when its stream is timed out. *)
TimeoutThereApplies(s) ==
    /\ s.there /\ faults < MaxFaults /\ faults' = faults + 1
    /\ Moved(s, [s EXCEPT !.there = FALSE])
    /\ Apply(s)
    /\ UNCHANGED <<cfg, ntf, users, lock, conn, commits>>

(* The daemon's or the user's stream is timed out; neither has a handler   *)
(* for that.                                                               *)
TimeoutHere(s) ==
    /\ s.here /\ s.pc # "error"
    /\ faults < MaxFaults /\ faults' = faults + 1
    /\ Moved(s, [s EXCEPT !.here = FALSE])
    /\ sub' = Mishap({s.user})
    /\ UNCHANGED <<cfg, ntf, users, lock, conn, commits>>

TimeoutThere(s) ==
    /\ s.there /\ faults < MaxFaults /\ faults' = faults + 1
    /\ Moved(s, [s EXCEPT !.there = FALSE])
    /\ sub' = Mishap({s.user})
    /\ UNCHANGED <<cfg, ntf, users, lock, conn, commits>>

-----------------------------------------------------------------------------
(* Mutant: the reference to the lost client is kept. *)
DownKeeps(u) ==
    /\ conn[u] /\ faults < MaxFaults /\ faults' = faults + 1
    /\ conn' = [conn EXCEPT ![u] = FALSE]
    /\ streams' = {s \in streams : s.user # u}
    /\ UNCHANGED <<cfg, ntf, users, lock, sub, commits>>

(* A user's association is lost and made again.  The daemon deletes its    *)
(* client and ends its streams; only a missed heartbeat makes the user ask *)
(* again.                                                                  *)
Down(u) ==
    /\ conn[u] /\ faults < MaxFaults /\ faults' = faults + 1
    /\ conn' = [conn EXCEPT ![u] = FALSE]
    /\ users' = [k \in DOMAIN users |->
                   IF users[k].id = u THEN [users[k] EXCEPT !.live = FALSE]
                                      ELSE users[k]]
    /\ streams' = {s \in streams : s.user # u}
    /\ lock' = IF lock = u THEN "none" ELSE lock
    /\ UNCHANGED <<cfg, ntf, sub, commits>>

Up(u) ==
    /\ ~conn[u] /\ conn' = [conn EXCEPT ![u] = TRUE]
    /\ sub' = Mishap({u})
    /\ UNCHANGED <<cfg, ntf, users, lock, streams, commits, faults>>

(* HbeatMissed, and HbeatCleanup, which calls init_config() again: the     *)
(* association is lost, or a heartbeat's stream is timed out.              *)
Missed(u) ==
    /\ sub[u].pc = "in"
    /\ \/ ~conn[u] /\ UNCHANGED faults
       \/ conn[u] /\ faults < MaxFaults /\ faults' = faults + 1
    /\ sub' = [sub EXCEPT ![u].pc = "out", ![u].mishap = FALSE]
    /\ UNCHANGED <<cfg, ntf, users, lock, streams, conn, commits>>

UserStep(u) == \/ Subscribe(u) \/ GetEnds(u) \/ GetFails(u) \/ GetDone(u)
               \/ TakeOver(u) \/ Down(u) \/ Up(u) \/ Missed(u)
Packet(s) == \/ Accept(s) \/ Ask(s) \/ TakeItem(s) \/ TakeEnd(s)
             \/ TakeCut(s) \/ TakeError(s)
Trouble(s) == NoRoute(s) \/ TimeoutHere(s) \/ TimeoutThere(s)

Next == \/ \E S \in SUBSET Item \ {{}} : Commit(S)
        \/ CommitDone \/ CommitLost
        \/ \E u \in User : UserStep(u)
        \/ \E s \in streams : Packet(s) \/ Trouble(s)

Spec == Init /\ [][Next]_vars

-----------------------------------------------------------------------------
TypeOK ==
    /\ cfg \in Values
    /\ ntf.made \in BOOLEAN /\ ntf.lst \subseteq Change
    /\ \A k \in DOMAIN users : users[k] \in [id : User, live : BOOLEAN]
    /\ lock \in User \cup {"none", "commit"}
    /\ \A s \in streams : s \in Stream
    /\ sub \in [User -> Subscriber] /\ conn \in [User -> BOOLEAN]
    /\ commits \in 0 .. MaxCommits /\ faults \in 0 .. MaxFaults

(* "all connected daemons that are affected with that particular           *)
(* modification, are notified": a subscriber to which no update is on its  *)
(* way has the committed values, unless a mishap has befallen its updates  *)
(* since it last asked for them.                                           *)
StaleIsExplained ==
    \A u \in User :
       /\ sub[u].pc = "in" /\ conn[u] /\ lock # "commit"
       /\ \A s \in streams : s.user # u
       => sub[u].cfg = cfg \/ sub[u].mishap

(* No update is sent through a client that the session has deleted.        *)
NoDeadClient == \A s \in streams : s.here => conn[s.user]

(* No user is listed, and notified, twice, however often it asks again.    *)
ListedOnce == \A k, l \in DOMAIN users : users[k].id = users[l].id => k = l

(* The table of users and the streams to them follow the associations that *)
(* come and go (reg_user(), notify_user(), ClientDown).                    *)
UsersCurrent == TypeOK /\ NoDeadClient /\ ListedOnce

(* A subscriber applies an update as a whole, or else the daemon has given *)
(* its stream up half-way.                                                 *)
WholeUpdates ==
    [][\A u \in User : sub'[u].cfg # sub[u].cfg =>
          \/ sub[u].pc = "got" /\ sub'[u].pc = "in"
          \/ \E s \in streams \ streams' :
               s.user = u /\ (s.left = {} \/ ~s.here)]_vars
=============================================================================
