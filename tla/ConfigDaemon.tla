---------------------------- MODULE ConfigDaemon ----------------------------
(***************************************************************************)
(* The configuration daemon (src/services/config) and the tree it keeps    *)
(* (config::Config, src/cfg/mink_config.cpp).  Each association has an IN  *)
(* thread, which handles the streams that peers open: NewStream::run locks *)
(* the configuration, does the whole command, and leaves the configuration *)
(* locked until StreamDone::run, while results are fetched.  A transaction *)
(* belongs to a user, not to an association, and lasts from the first      *)
(* change to commit, discard, logout or the user's time-out.               *)
(* Commands come from the command line ("enter") or are repeated for       *)
(* another configuration daemon ("replicate").  Names, paths, patterns,    *)
(* order of nodes and error texts are left out.                            *)
(***************************************************************************)
EXTENDS Naturals, FiniteSets

CONSTANTS Client,       \* associations, an IN thread each
          Stream,       \* streams that may be open at once
          ClientOf,     \* the association of each stream
          User,
          Item,         \* CONFIG_NT_ITEM nodes of the definition
          Block,        \* template-based nodes, here with one item each
          List,         \* template-based nodes marked is_empty: names only
          Value, Empty, \* Empty is the empty string
          Absent,       \* of a template-based node that is not in a file
          Root, NoUser, Nobody, NoFile,
          File,         \* files that "load" may name, and first contents
          LogUsable,    \* what opening a file in ./commit-log may yield
          ForeignSet,   \* another user may name a new node during a
                        \* transaction
          LoadOverNew,  \* "load" may name a node that is new
          SlowPeer,     \* an association may idle while a stream is open
          MaxRequests   \* bound: streams opened

Template == Block \cup List
Node == Item \cup Template

ASSUME ClientAssumption == ClientOf \in [Stream -> Client]
ASSUME NodeAssumption == Item \cap Template = {} /\ Block \cap List = {}

(* What a file says: items have values, items of blocks are not empty, and *)
(* a list has none.                                                        *)
Contents ==
    {c \in [Node -> Value \cup {Empty, Absent}] :
       \A n \in Node : \/ n \in Item /\ c[n] \in Value \cup {Empty}
                       \/ n \in Block /\ c[n] \in Value \cup {Absent}
                       \/ n \in List /\ c[n] \in {Empty, Absent}}

ASSUME FileAssumption == File \subseteq Contents
ASSUME MarkAssumption ==
    /\ Absent \notin Value \cup {Empty} /\ Empty \notin Value
    /\ Root \notin Node /\ NoUser \notin Node \cup {Root}
    /\ Nobody \notin Client
ASSUME BoundAssumption == /\ LogUsable \subseteq BOOLEAN
                          /\ {ForeignSet, LoadOverNew, SlowPeer} \subseteq BOOLEAN
                          /\ MaxRequests \in Nat

VARIABLES
    mutex,       \* mtx_config: the association whose IN thread holds it
    strm,        \* per stream: state, user, nodes of ac_res still to send
    tree,        \* definition: per node, see ConfigItem
    txn,         \* transaction, transaction_owner
    wn,          \* usr_path_map: each user's working node
    aged,        \* the user's time stamp is user_timeout old
    file,        \* contents of the daemon's configuration file
    rollback,    \* contents of the newest file in ./commit-log
    authors,     \* history: users whose changes are pending
    requests

store == <<tree, txn, file, rollback, authors>>
vars == <<mutex, strm, tree, txn, wn, aged, file, rollback, authors, requests>>

ConfigItem == [there : BOOLEAN, is_new : BOOLEAN,
               state : {"ready", "modified", "deleted"},
               value : Value \cup {Empty}, new_value : Value \cup {Empty}]

Gone == [there |-> FALSE, is_new |-> FALSE, state |-> "ready",
         value |-> Empty, new_value |-> Empty]

(* A template-based node, made by auto_complete() or merge(). *)
NewNode(v) == [there |-> TRUE, is_new |-> TRUE, state |-> "modified",
               value |-> Empty, new_value |-> v]

Stored(v) == [there |-> TRUE, is_new |-> FALSE, state |-> "ready",
              value |-> v, new_value |-> v]

(* init_config(): the tree of a file read when the daemon starts. *)
Loaded(c) == [n \in Node |-> IF c[n] = Absent THEN Gone ELSE Stored(c[n])]

Init == /\ mutex = Nobody
        /\ strm = [s \in Stream |->
                     [pc |-> "closed", user |-> NoUser, res |-> {}]]
        /\ file \in File /\ tree = Loaded(file)
        /\ txn = [on |-> FALSE, owner |-> NoUser]
        /\ wn = [u \in User |-> NoUser]
        /\ aged = [u \in User |-> FALSE]
        /\ rollback = NoFile
        /\ authors = {} /\ requests = 0

-----------------------------------------------------------------------------
(* Operations on the tree. *)

Present(t) == {n \in Node : t[n].there}
Pending(t) == {n \in Present(t) : t[n].state # "ready"}

(* show_config() as the current configuration: values after the changes.  *)
Shown(t) ==
    [n \in Node |->
       LET x == t[n] IN
       IF n \in Item THEN IF x.state = "deleted" THEN Empty ELSE x.new_value
       ELSE IF x.there /\ x.state # "deleted"
               /\ (n \in List \/ x.new_value # Empty)
       THEN x.new_value ELSE Absent]

(* show_config() with no_uncm: values before the changes, without nodes    *)
(* that are new and items whose new value is empty.                        *)
ShownCommitted(t) ==
    [n \in Node |->
       LET x == t[n] IN
       IF n \in Item
         THEN IF x.new_value # Empty \/ x.state = "deleted"
                THEN x.value ELSE Empty
       ELSE IF x.there /\ ~x.is_new
               /\ (n \in List \/ (x.new_value # Empty /\ x.value # Empty))
       THEN x.value ELSE Absent]

(* Mutant: nodes that are new stay. *)
DiscardedValues(t) ==
    [n \in Node |-> [t[n] EXCEPT !.state = "ready", !.new_value = t[n].value]]

(* discard(): new nodes go, others return to their values. *)
Discarded(t) ==
    [n \in Node |->
       IF t[n].is_new THEN Gone
       ELSE [t[n] EXCEPT !.state = "ready", !.new_value = t[n].value]]

(* commit(definition, true) does not only count. *)
Marked(t) == [n \in Node |-> [t[n] EXCEPT !.is_new = FALSE]]

Committed(t) ==
    [n \in Node |->
       CASE t[n].state = "modified" -> Stored(t[n].new_value)
         [] t[n].state = "deleted" ->
              IF n \in Item THEN Stored(Empty) ELSE Gone
         [] OTHER -> [t[n] EXCEPT !.is_new = FALSE]]

(* replace_prepare(): all that is not in the file will be deleted. *)
Prepared(t) == [n \in Node |-> IF t[n].there
                                 THEN [t[n] EXCEPT !.state = "deleted"]
                                 ELSE t[n]]

Named(c) == {n \in Node : c[n] # (IF n \in Item THEN Empty ELSE Absent)}

(* merge(definition, contents, true) *)
Merged(t, c) ==
    [n \in Node |->
       IF n \notin Named(c) THEN t[n]
       ELSE IF t[n].there
         THEN [t[n] EXCEPT !.state = "modified", !.is_new = FALSE,
                           !.new_value = c[n]]
         ELSE NewNode(c[n])]

(* A "set" of an item, of a template-based node, or of a node's item. *)
WithItem(t, n, v) ==
    [t EXCEPT ![n].state = "modified", ![n].new_value = v]
WithNode(t, n) ==
    [t EXCEPT ![n] = IF ~@.there THEN NewNode(Empty)
                     ELSE IF @.state = "deleted"
                     THEN [@ EXCEPT !.state = "modified"] ELSE @]
WithNodeItem(t, n, v) ==
    [t EXCEPT ![n] = IF ~@.there THEN NewNode(v)
                     ELSE [@ EXCEPT !.new_value = v,
                             !.state = IF t[n].state = "deleted"
                                         THEN "deleted" ELSE "modified"]]

-----------------------------------------------------------------------------
(* Users and transactions. *)

(* Mutant: any user may change what another has begun to change. *)
PretendNever(u) == FALSE

Pretend(u) == txn.on /\ txn.owner # u

(* update_definition_wn() *)
Seen(u) == /\ wn' = [wn EXCEPT ![u] = IF @ = NoUser THEN Root ELSE @]
           /\ aged' = [aged EXCEPT ![u] = FALSE]

(* The same, and reset_all_wns(). *)
SeenAtRoot(u) ==
    /\ wn' = [x \in User |-> IF wn[x] = NoUser /\ x # u THEN NoUser ELSE Root]
    /\ aged' = [aged EXCEPT ![u] = FALSE]

EndTransaction == txn' = [txn EXCEPT !.on = FALSE] /\ authors' = {}

Change(u, t) == /\ ~Pretend(u)
                /\ tree' = t
                /\ txn' = [on |-> TRUE, owner |-> u]
                /\ authors' = authors \cup {u}
                /\ Seen(u)
                /\ UNCHANGED <<file, rollback>>

Set(u) == \/ \E n \in Item, v \in Value \cup {Empty} :
               Change(u, WithItem(tree, n, v))
          \/ \E n \in Template : Change(u, WithNode(tree, n))
          \/ \E n \in Block, v \in Value : Change(u, WithNodeItem(tree, n, v))

(* Template-based nodes without items are not found by "delete". *)
Delete(u) == \E n \in (Item \cup Block) \cap Present(tree) :
               Change(u, [tree EXCEPT ![n].state = "deleted"])

(* auto_complete() creates a node that it does not find before the handler *)
(* says that the transaction is another user's.                            *)
SetForeign(u) ==
    /\ Pretend(u) /\ ForeignSet
    /\ \E n \in Template \ Present(tree) :
         tree' = [tree EXCEPT ![n] = NewNode(Empty)]
    /\ authors' = authors \cup {u}
    /\ Seen(u)
    /\ UNCHANGED <<txn, file, rollback>>

(* "Transaction started by other user, cannot execute intrusive operation" *)
Refused(u) == Pretend(u) /\ Seen(u) /\ UNCHANGED store

Discard(u) ==
    /\ ~Pretend(u)
    /\ SeenAtRoot(u)
    /\ tree' = Discarded(tree) /\ EndTransaction
    /\ UNCHANGED <<file, rollback>>

(* "commit": pretended first; if anything is pending, a rollback file with *)
(* the values before, then the commit and the configuration file.          *)
Commit(u) ==
    /\ ~Pretend(u)
    /\ IF Pending(tree) = {}
         THEN /\ tree' = Marked(tree)
              /\ Seen(u)
              /\ UNCHANGED <<txn, authors, file, rollback>>
         ELSE /\ SeenAtRoot(u)
              /\ \/ /\ TRUE \in LogUsable
                    /\ rollback' = ShownCommitted(Marked(tree))
                    /\ tree' = Committed(Marked(tree))
                    /\ file' = Shown(tree')
                    /\ EndTransaction
                 \/ /\ FALSE \in LogUsable
                    /\ tree' = Marked(tree)
                    /\ UNCHANGED <<txn, authors, file, rollback>>

(* "rollback" to the newest revision is a commit of its own. *)
Rollback(u) ==
    /\ ~Pretend(u) /\ rollback # NoFile
    /\ SeenAtRoot(u)
    /\ tree' = Committed(Merged(Prepared(tree), rollback))
    /\ file' = Shown(tree')
    /\ EndTransaction
    /\ UNCHANGED rollback

(* "load" leaves the changes to be committed. *)
Load(u) ==
    \E c \in File :
       /\ LoadOverNew \/ \A n \in Named(c) : ~tree[n].is_new
       /\ Change(u, Merged(Prepared(tree), c))

(* "edit" of a node, "top", "up". *)
Edit(u) == /\ ~Pretend(u)
           /\ \E n \in {Root} \cup (Template \cap Present(tree)) :
                wn' = [wn EXCEPT ![u] = n]
           /\ aged' = [aged EXCEPT ![u] = FALSE]
           /\ UNCHANGED store

Look(u) == Seen(u) /\ UNCHANGED store

Login(u) == /\ wn' = [wn EXCEPT ![u] = Root]
            /\ aged' = [aged EXCEPT ![u] = FALSE]
            /\ UNCHANGED store

Logout(u) == /\ IF Pretend(u) THEN UNCHANGED <<tree, txn, authors>>
                ELSE tree' = Discarded(tree) /\ EndTransaction
             /\ wn' = [wn EXCEPT ![u] = NoUser]
             /\ UNCHANGED <<aged, file, rollback>>

(* Commands whose stream has nothing to send but the command's outcome,    *)
(* and those that answer with nodes of the tree (TAB, show, get).          *)
EnterMode(u) == \/ Set(u) \/ Delete(u) \/ SetForeign(u) \/ Refused(u)
                \/ Discard(u) \/ Commit(u) \/ Rollback(u) \/ Load(u)
                \/ Edit(u) \/ Login(u) \/ Logout(u)
ReplicateMode(u) == \/ Set(u) \/ Delete(u) \/ SetForeign(u) \/ Refused(u)
                    \/ Discard(u) \/ Commit(u) \/ Rollback(u)

-----------------------------------------------------------------------------
(* Streams and the lock.  The mutex checks errors: locking it twice and    *)
(* unlocking what another thread holds do nothing.                         *)

Waits(c) == \E s \in Stream : ClientOf[s] = c /\ strm[s].pc = "waiting"

(* Mutant: a mutex that anybody may unlock. *)
UnlockedByAny(c) == Nobody

(* Mutant: nobody unlocks. *)
UnlockedNever(c) == mutex

Unlocked(c) == IF mutex = c THEN Nobody ELSE mutex

(* NewStream::run, up to config->lock().  A message without a user or with *)
(* another action is answered before that.                                 *)
Arrive(s) ==
    /\ strm[s].pc = "closed" /\ ~Waits(ClientOf[s])
    /\ requests < MaxRequests
    /\ requests' = requests + 1
    /\ \E u \in User, pc \in {"waiting", "refused"} :
         strm' = [strm EXCEPT ![s] = [pc |-> pc, user |-> u, res |-> {}]]
    /\ UNCHANGED <<mutex, store, wn, aged>>

Locks(s) == /\ strm[s].pc = "waiting"
            /\ mutex \in {Nobody, ClientOf[s]}
            /\ mutex' = ClientOf[s]
            /\ UNCHANGED requests

Opened(s, res) == strm' = [strm EXCEPT ![s].pc = "open", ![s].res = res]

Enter(s) == Locks(s) /\ Opened(s, {}) /\ EnterMode(strm[s].user)

Replicate(s) == Locks(s) /\ Opened(s, {}) /\ ReplicateMode(strm[s].user)

Show(s) == Locks(s) /\ Opened(s, Present(tree)) /\ Look(strm[s].user)

Serve(s) == Enter(s) \/ Replicate(s) \/ Show(s)

(* StreamNext::run sends one node of ac_res. *)
Next1(s) == /\ strm[s].pc = "open" /\ ~Waits(ClientOf[s])
            /\ \E n \in strm[s].res :
                 strm' = [strm EXCEPT ![s].res = @ \ {n}]
            /\ UNCHANGED <<mutex, store, wn, aged, requests>>

(* StreamDone::run: the end, or the time-out, of the stream. *)
Done(s) == /\ strm[s].pc \in {"open", "refused", "cut"} /\ ~Waits(ClientOf[s])
           /\ strm' = [strm EXCEPT ![s] = [pc |-> "closed", user |-> NoUser,
                                           res |-> {}]]
           /\ mutex' = Unlocked(ClientOf[s])
           /\ UNCHANGED <<store, wn, aged, requests>>

OpenAt(c) == {s \in Stream : ClientOf[s] = c /\ strm[s].pc = "open"}

(* ClientIdle::run: the peer sent nothing for poll_timeout. *)
Idle(c) == /\ ~Waits(c) /\ (SlowPeer \/ OpenAt(c) = {})
           /\ mutex' = Unlocked(c)
           /\ UNCHANGED <<strm, store, wn, aged, requests>>

(* ClientDown::run: the association is lost or closed, and its IN thread   *)
(* goes on to time its streams out.                                        *)
Down(c) == /\ ~Waits(c)
           /\ mutex' = Unlocked(c)
           /\ strm' = [s \in Stream |-> IF s \in OpenAt(c)
                                          THEN [strm[s] EXCEPT !.pc = "cut"]
                                          ELSE strm[s]]
           /\ UNCHANGED <<store, wn, aged, requests>>

-----------------------------------------------------------------------------
(* user_timeout seconds pass without a command of the user. *)
Age(u) == /\ wn[u] # NoUser /\ ~aged[u]
          /\ aged' = [aged EXCEPT ![u] = TRUE]
          /\ UNCHANGED <<mutex, strm, store, wn, requests>>

(* Mutant: the owner of the transaction is not timed out. *)
ExpiredIdle == {u \in User : wn[u] # NoUser /\ aged[u] /\ ~(txn.on /\ txn.owner = u)}

Expired == {u \in User : wn[u] # NoUser /\ aged[u]}

(* timeout_loop: its own thread, which waits for the lock, too. *)
UserTimeout ==
    /\ mutex = Nobody /\ Expired # {}
    /\ IF txn.on /\ txn.owner \notin Expired THEN UNCHANGED <<tree, txn, authors>>
       ELSE tree' = Discarded(tree) /\ EndTransaction
    /\ wn' = [u \in User |-> IF u \in Expired THEN NoUser ELSE wn[u]]
    /\ UNCHANGED <<mutex, strm, aged, file, rollback, requests>>

(* The daemon is killed and started again. *)
Restart == /\ mutex' = Nobody
           /\ strm' = [s \in Stream |-> [pc |-> "closed", user |-> NoUser,
                                         res |-> {}]]
           /\ tree' = Loaded(file)
           /\ EndTransaction
           /\ wn' = [u \in User |-> NoUser]
           /\ UNCHANGED <<aged, file, rollback, requests>>

Next == \/ \E s \in Stream : Arrive(s) \/ Serve(s) \/ Next1(s) \/ Done(s)
        \/ \E c \in Client : Idle(c) \/ Down(c)
        \/ \E u \in User : Age(u)
        \/ UserTimeout \/ Restart

Spec == Init /\ [][Next]_vars

(* Every stream ends or times out, time passes, timeout_loop runs, and the *)
(* mutex is granted to each thread that keeps waiting for it.              *)
FairSpec == /\ Spec
            /\ \A s \in Stream : WF_vars(Done(s)) /\ SF_vars(Serve(s))
            /\ \A u \in User : WF_vars(Age(u))
            /\ SF_vars(UserTimeout)

-----------------------------------------------------------------------------
TypeOK ==
    /\ mutex \in Client \cup {Nobody}
    /\ strm \in [Stream ->
                   [pc : {"closed", "refused", "waiting", "open", "cut"},
                    user : User \cup {NoUser}, res : SUBSET Node]]
    /\ tree \in [Node -> ConfigItem]
    /\ file \in Contents /\ rollback \in Contents \cup {NoFile}
    /\ txn \in [on : BOOLEAN, owner : User \cup {NoUser}]
    /\ wn \in [User -> Template \cup {Root, NoUser}]
    /\ aged \in [User -> BOOLEAN]
    /\ authors \subseteq User /\ requests \in 0 .. MaxRequests

(* The changes pending in the tree are those of the transaction's owner:   *)
(* whoever commits commits his own work and nobody else's; and he is one   *)
(* the daemon knows, so that his logout or his time-out will end what      *)
(* "transaction started by other user" keeps others from.                  *)
OneAuthor == /\ Pending(tree) # {} => txn.on
             /\ txn.on => authors \subseteq {txn.owner} /\ wn[txn.owner] # NoUser

(* Between transactions the tree is what the configuration file holds, and *)
(* what the daemon would start from again: discard and every commit leave  *)
(* both the same.                                                          *)
TreeIsFile == ~txn.on => Shown(tree) = file

(* A user's working node, a raw pointer, is a node of the tree.            *)
NoDanglingPath ==
    \A u \in User : wn[u] \in {Root, NoUser} \cup Present(tree)

(* What an open stream has still to send are nodes of the tree: ac_res     *)
(* points to them, and the lock is held between the packets for that.      *)
NoDanglingResult ==
    \A s \in Stream : strm[s].pc = "open" => strm[s].res \subseteq Present(tree)

(* The tree is changed under no pointer that outlives its request.         *)
NoDanglingPointer == TypeOK /\ NoDanglingPath /\ NoDanglingResult

(* A thread that waits for the configuration gets it, although the streams *)
(* of others are slow, cut or never closed.                                *)
LockIsGranted ==
    \A s \in Stream : strm[s].pc = "waiting" ~> strm[s].pc # "waiting"

(* The transaction of a user who went away does not keep others out for    *)
(* ever.                                                                   *)
AbandonedEnds ==
    \A u \in User : []<>~(txn.on /\ txn.owner = u /\ aged[u])
=============================================================================
