-------------------------------- MODULE WRR --------------------------------
(***************************************************************************)
(* Weighted round robin among the nodes of one destination type, as a      *)
(* routing daemon does it: the table WRR of mink_utils.h, the handler      *)
(* WRRRouteHandler that keeps the connected clients in it, the session     *)
(* that registers and removes clients, and the configuration handler       *)
(* WRRConfigMod that edits the table when a commit arrives.  Every step    *)
(* below is one critical section of the session's mutex mtx_clients.       *)
(* The tables of two destination types share nothing but that mutex.       *)
(***************************************************************************)
EXTENDS Integers, Sequences, FiniteSets, SequencesExt

CONSTANTS Node,       \* daemon ids that the configuration may name
          Client,     \* connections of peers of this destination type
          NodeOf,     \* the daemon id that each connection registers with
          Weights,    \* weights the configuration may give to a node
          Edits,      \* edits of a weight: a subset of {"modify", "delete"}
          NoClient,   \* nullptr
          Unknown     \* turns are not counted: the table changed in mid cycle

ASSUME WRRAssumption == /\ IsFiniteSet(Node) /\ IsFiniteSet(Client)
                        /\ NodeOf \in [Client -> Node]
                        /\ Weights \subseteq Nat \ {0}
                        /\ \E top \in Weights : \A w \in Weights : w <= top
                        /\ Edits \subseteq {"modify", "delete"}
                        /\ NoClient \notin Client

VARIABLES clients,    \* registered clients of the session, in list order
          routed,     \* those that update_client() was called for
          active,     \* those whose association is up
          conf,       \* the weight of every configured node, 0 if it was deleted
          table,      \* the WRR of the type
          route,      \* what the last find_route() returned
          turns       \* how often each node was chosen in this cycle

WRRvars == <<clients, routed, active, conf, table, route, turns>>

-----------------------------------------------------------------------------
(* The table: a list of items, each with the client it routes to. *)

Fresh == [present |-> TRUE, items |-> <<>>, gcd |-> 0, max |-> 0, index |-> -1, cw |-> 0]
Gone  == [Fresh EXCEPT !.present = FALSE]

Position(t, n) == {p \in DOMAIN t.items : t.items[p].id = n}

Euclid[p \in Nat \X Nat] == IF p[2] = 0 THEN p[1] ELSE Euclid[<<p[2], p[1] % p[2]>>]

Recalc(t) ==
  LET weights == [p \in DOMAIN t.items |-> t.items[p].weight]
      Larger(m, n) == IF n > m THEN n ELSE m
  IN  [t EXCEPT !.gcd = FoldLeft(LAMBDA m, n : Euclid[<<m, n>>], 0, weights),
                !.max = FoldLeft(Larger, 0, weights)]

\* Mutant: an item is enabled without recalc().
EnableOnly(t, p) ==
  IF t.items[p].weight > 0 THEN t ELSE [t EXCEPT !.items[p].weight = t.items[p].old]

Enable(t, p) ==
  IF t.items[p].weight > 0 THEN t
  ELSE Recalc([t EXCEPT !.items[p].weight = t.items[p].old])

Disable(t, p) ==
  IF t.items[p].weight = 0 THEN t
  ELSE Recalc([t EXCEPT !.items[p].weight = 0, !.items[p].old = t.items[p].weight])

\* WRRRouteHandler::update_client: the client of node n is now c.
Update(t, n, c) ==
  IF Position(t, n) = {} THEN t
  ELSE LET p == CHOOSE q \in Position(t, n) : TRUE
           set == [t EXCEPT !.items[p].item = c]
       IN  IF c = NoClient THEN Disable(set, p) ELSE Enable(set, p)

\* WRRRouteHandler::add_node: node n with weight w, enabled if it has a client.
Add(t, n, w, c) ==
  LET added == Recalc([t EXCEPT !.present = TRUE,
                                !.items = Append(@, [id |-> n, item |-> c, weight |-> w, old |-> w])])
  IN  IF c = NoClient THEN Disable(added, Len(added.items)) ELSE added

\* WRR::remove: the item of node n, of which there is one.
RemoveItem(t, n) ==
  Recalc([t EXCEPT !.items = RemoveAt(@, CHOOSE p \in Position(t, n) : TRUE)])

\* Mutant: the current weight stays at the maximum.
LoweredNever(t) == t.max

\* Mutant: the current weight comes down by one.
LoweredByOne(t) == IF t.cw - 1 <= 0 THEN t.max ELSE t.cw - 1

\* The current weight of the next pass over the items.
Lowered(t) == IF t.cw - t.gcd <= 0 THEN t.max ELSE t.cw - t.gcd

\* WRR::run on a table with items: the k-th item it looks at, the current
\* weight it compares it with, and the first k at which it stops, if any.
Select(t) ==
  LET n == Len(t.items)
      At(k) == (t.index + k) % n
      Wrapped(k) == \E j \in 1..k : At(j) = 0
      Cw(k) == IF Wrapped(k) THEN Lowered(t) ELSE t.cw
      NoWeight(k) == At(k) = 0 /\ Cw(k) = 0
      Matches(k) == LET w == t.items[At(k) + 1].weight IN w > 0 /\ w >= Cw(k)
      stops == {k \in 1..n : NoWeight(k) \/ Matches(k)}
      last == IF stops = {} THEN n ELSE CHOOSE k \in stops : \A j \in stops : k <= j
      found == stops # {} /\ ~NoWeight(last)
  IN  [index |-> At(last), cw |-> Cw(last), restarted |-> Wrapped(last) /\ Lowered(t) = t.max,
       found |-> found, item |-> t.items[At(last) + 1]]

-----------------------------------------------------------------------------
\* Positions in the list of clients, and the client at the first of them.
Registered(n) == {p \in DOMAIN clients : NodeOf[clients[p]] = n}
Usable == {p \in DOMAIN clients : clients[p] \in active}
FirstOf(P) == IF P = {} THEN NoClient ELSE clients[Min(P)]

\* The configuration was read before the server accepts its first client.
WRRInit ==
  /\ clients = <<>> /\ routed = {} /\ active = {}
  /\ conf \in UNION {[S -> Weights] : S \in SUBSET Node}
  /\ \E order \in SetToSeqs(DOMAIN conf) :
       table = IF order = <<>> THEN Gone
               ELSE FoldLeft(LAMBDA t, n : Add(t, n, conf[n], NoClient), Fresh, order)
  /\ route = NoClient
  /\ turns = Unknown

\* Turns are counted anew, from the next cycle on, when the table changes.
Change(t) ==
  /\ table' = t
  /\ turns' = IF t = table THEN turns ELSE Unknown
  /\ UNCHANGED route

\* RegClientStreamDone: the peer's registration is complete ...
Register(c) ==
  /\ c \notin Range(clients)
  /\ clients' = Append(clients, c)
  /\ active' = active \cup {c}
  /\ UNCHANGED <<routed, conf, table, route, turns>>

\* ... and its client is made known to the routing handler.
Routed(c) ==
  /\ c \in Range(clients) \ routed
  /\ routed' = routed \cup {c}
  /\ Change(Update(table, NodeOf[c], c))
  /\ UNCHANGED <<clients, active, conf>>

\* The association of client c is lost or closed.
Lost(c) ==
  /\ c \in active
  /\ active' = active \ {c}
  /\ UNCHANGED <<clients, routed, conf, table, route, turns>>

\* GDTSession::remove_client, from the client's exit thread.
RemoveClient(c) ==
  /\ c \in routed \ active
  /\ clients' = RemoveAt(clients, CHOOSE p \in DOMAIN clients : clients[p] = c)
  /\ routed' = routed \ {c}
  /\ Change(Update(table, NodeOf[c], NoClient))
  /\ UNCHANGED <<active, conf>>

-----------------------------------------------------------------------------
(* WRRConfigMod::run; a commit with several changes is a sequence of these. *)

RemoveType ==
  /\ conf # <<>>
  /\ conf' = <<>>
  /\ Change(Gone)
  /\ UNCHANGED <<clients, routed, active>>

RemoveNode(n) ==
  /\ n \in DOMAIN conf
  /\ conf' = [m \in DOMAIN conf \ {n} |-> conf[m]]
  /\ Change(RemoveItem(table, n))
  /\ UNCHANGED <<clients, routed, active>>

\* Mutant: a client that is connected already is not looked up.
AddNodeUnconnected(n) == \E w \in Weights :
  /\ n \notin DOMAIN conf
  /\ conf' = [m \in DOMAIN conf \cup {n} |-> IF m = n THEN w ELSE conf[m]]
  /\ Change(Add(table, n, w, NoClient))
  /\ UNCHANGED <<clients, routed, active>>

AddNode(n) == \E w \in Weights :
  /\ n \notin DOMAIN conf
  /\ conf' = [m \in DOMAIN conf \cup {n} |-> IF m = n THEN w ELSE conf[m]]
  /\ Change(Add(table, n, w, FirstOf(Registered(n))))
  /\ UNCHANGED <<clients, routed, active>>

\* An edit reaches the table only if the node has a client.
EditWeight(n, w) ==
  /\ n \in DOMAIN conf
  /\ conf' = [conf EXCEPT ![n] = w]
  /\ Change(LET p == CHOOSE q \in Position(table, n) : TRUE
                c == table.items[p].item
            IN  IF c = NoClient THEN table
                ELSE Update([table EXCEPT !.items[p].weight = w], NodeOf[c], c))
  /\ UNCHANGED <<clients, routed, active>>

ModifyWeight(n) == "modify" \in Edits /\ \E w \in Weights : EditWeight(n, w)
DeleteWeight(n) == "delete" \in Edits /\ EditWeight(n, 0)

-----------------------------------------------------------------------------
(* GDTSession::find_route for a type, and the handler it calls. *)

Counted(s) ==
  LET before == IF s.restarted THEN [n \in Node |-> 0] ELSE turns
  IN  IF before = Unknown \/ ~s.found THEN before ELSE [before EXCEPT ![s.item.id] = @ + 1]

\* Without a table for the type the first usable client is taken.
RouteFirst ==
  /\ UNCHANGED <<clients, routed, active, conf, table, turns>>
  /\ ~table.present
  /\ route' = FirstOf(Usable)

\* The handler is not asked for a table entry when no client is usable.
RouteNone ==
  /\ UNCHANGED <<clients, routed, active, conf, table, turns>>
  /\ table.present
  /\ Usable = {} \/ table.items = <<>>
  /\ route' = NoClient

RouteWeighted ==
  /\ UNCHANGED <<clients, routed, active, conf>>
  /\ table.present
  /\ Usable # {} /\ table.items # <<>>
  /\ LET s == Select(table)
     IN  /\ table' = [table EXCEPT !.index = s.index, !.cw = s.cw]
         /\ route' = IF s.found THEN s.item.item ELSE NoClient
         /\ turns' = Counted(s)

FindRoute == RouteFirst \/ RouteNone \/ RouteWeighted

WRRNext ==
  \/ \E c \in Client : Register(c) \/ Routed(c) \/ Lost(c) \/ RemoveClient(c)
  \/ RemoveType
  \/ \E n \in Node : RemoveNode(n) \/ AddNode(n) \/ ModifyWeight(n) \/ DeleteWeight(n)
  \/ FindRoute

WRRSpec == WRRInit /\ [][WRRNext]_WRRvars

-----------------------------------------------------------------------------
TopWeight == CHOOSE w \in Weights : \A v \in Weights : v <= w
WRRItem == [id : Node, item : Client \cup {NoClient}, weight : 0..TopWeight, old : 0..TopWeight]
Items == {table.items[p] : p \in DOMAIN table.items}

\* Type invariant: list positions and weights stay in range, and the table has
\* one item for every configured node (the whole of WRR and the session's list).
WRRTypeOK ==
  /\ Range(clients) \subseteq Client /\ Len(clients) <= Cardinality(Client)
  /\ routed \subseteq Range(clients) /\ active \subseteq Range(clients)
  /\ \A n \in DOMAIN conf : n \in Node /\ conf[n] \in 0..TopWeight
  /\ Items \subseteq WRRItem
  /\ table.gcd \in 0..TopWeight /\ table.max \in 0..TopWeight
  /\ table.index \in -1..Cardinality(Node) - 1 /\ table.cw \in 0..TopWeight
  /\ table.present \/ table.items = <<>>
  /\ {i.id : i \in Items} = DOMAIN conf /\ Len(table.items) = Cardinality(DOMAIN conf)

\* recalc() has run since a weight last changed: w_gcd and w_max are what their
\* names say of the weights in the table (mink_utils.h, recalc() and its callers).
Recalculated ==
  LET W == {i.weight : i \in Items}
      Divides(d) == \A w \in W : w % d = 0
  IN  /\ W \subseteq {0} => table.gcd = 0 /\ table.max = 0
      /\ ~(W \subseteq {0}) => /\ table.max \in W /\ \A w \in W : w <= table.max
                               /\ Divides(table.gcd)
                               /\ \A d \in table.gcd + 1 .. TopWeight : ~Divides(d)

\* Clients that come and go and nodes that are added and removed, at whatever
\* position of the list, leave w_gcd and w_max right: only the edit of a weight
\* may leave them behind (cfg_events.cpp:128 overwrites it).
OnlyEditsUnsettle ==
  [][Recalculated /\ ~Recalculated'
       => \E n \in Node : ModifyWeight(n) \/ DeleteWeight(n)]_WRRvars

\* The table holds no pointer to a client that remove_client() has deleted, and
\* an item that run() may choose has a client: find_route() never follows a
\* dangling or a null pointer.
NoStaleClient == \A i \in Items :
  /\ i.item # NoClient => i.item \in Range(clients) /\ NodeOf[i.item] = i.id
  /\ i.weight > 0 => i.item # NoClient

\* A configured node with a connected client that the handler was told of takes
\* part in the rotation, in whatever order the client registered, the node was
\* configured and earlier clients of the node were removed.
ConnectedTakesPart == \A c \in routed \cap active :
  NodeOf[c] \in DOMAIN conf => \E i \in Items : i.id = NodeOf[c] /\ i.item # NoClient /\ i.weight > 0

\* The table is a rotation over the nodes that are configured and connected, and
\* over no others (find_route(), update_client() and WRRConfigMod).
TableIsCurrent == WRRTypeOK /\ NoStaleClient /\ ConnectedTakesPart

\* When a cycle of the rotation starts again and the table was left alone since
\* the last one started, every node was chosen as often as its weight asks.
FairShare ==
  [][turns # Unknown /\ Recalculated /\ RouteWeighted /\ Select(table).restarted
       => \A i \in Items : turns[i.id] * table.gcd = i.weight]_WRRvars

\* Left alone, a table whose w_gcd and w_max are right serves every enabled node
\* within so many lookups as the current weight takes to come down and start
\* again, from whatever index and current weight earlier lists have left behind.
Lookups == Len(table.items) * ((TopWeight + table.max) \div table.gcd + 2)
After[k \in Nat] ==
  IF k = 0 THEN [table |-> table, served |-> {}]
  ELSE LET before == After[k - 1]
           s == Select(before.table)
       IN  [table  |-> [before.table EXCEPT !.index = s.index, !.cw = s.cw],
            served |-> before.served \cup IF s.found THEN {s.item.id} ELSE {}]
Served ==
  Recalculated /\ table.gcd > 0
    => {i.id : i \in {j \in Items : j.weight > 0}} \subseteq After[Lookups].served

=============================================================================
