------------------------- MODULE ConfigDaemon_proofs -------------------------
(***************************************************************************)
(* What holds of the configuration daemon with any number of users,        *)
(* associations and nodes: its variables have their types, the changes     *)
(* that are pending belong to one user, the tree is what the file holds    *)
(* between transactions, and no pointer into the tree outlives its node.   *)
(* The hypotheses of the theorems are the named defects of the code, each  *)
(* of which breaks the property when it is admitted.                       *)
(***************************************************************************)
EXTENDS ConfigDaemon, TLAPS

(* What each node of the tree is like: items are always there, nothing is  *)
(* left of a node that is not, a node without a change is not new and has  *)
(* one value, and a list has none.                                         *)
NodeOK(t, n) ==
    /\ n \in Item => t[n].there /\ ~t[n].is_new
    /\ ~t[n].there => t[n] = Gone
    /\ t[n].state = "ready" => ~t[n].is_new /\ t[n].value = t[n].new_value
    /\ t[n].is_new => t[n].value = Empty
    /\ n \in List => t[n].value = Empty /\ t[n].new_value = Empty
Tree == {t \in [Node -> ConfigItem] : \A n \in Node : NodeOK(t, n)}

(* TypeOK, with the shape of the tree; a request has a user. *)
StoreOK ==
    /\ tree \in Tree
    /\ file \in Contents /\ rollback \in Contents \cup {NoFile}
    /\ txn \in [on : BOOLEAN, owner : User \cup {NoUser}]
    /\ wn \in [User -> Template \cup {Root, NoUser}]
    /\ aged \in [User -> BOOLEAN]
    /\ authors \subseteq User
Typed == /\ TypeOK /\ tree \in Tree
         /\ \A s \in Stream : strm[s].pc = "waiting" => strm[s].user \in User

(* A transaction has an owner that is logged in, and nothing is pending    *)
(* without one.                                                            *)
Owned ==
    /\ Pending(tree) # {} => txn.on
    /\ ~txn.on => authors = {}
    /\ txn.on => /\ txn.owner \in User
                 /\ wn[txn.owner] # NoUser

(* Only the owner's changes are in the tree. *)
OwnChanges == txn.on => authors \subseteq {txn.owner}

(* The file is what discard would leave. *)
FileIsBase == Shown(Discarded(tree)) = file

(* A working node that will go when the changes are discarded is the       *)
(* owner's.                                                                *)
NewIsOwners ==
    \A u \in User : wn[u] \in Node /\ tree[wn[u]].is_new
                      => txn.on /\ txn.owner = u

(* A stream that still has results to send has the lock. *)
OpenHasLock == \A s \in Stream : strm[s].pc = "open" => mutex = ClientOf[s]

-----------------------------------------------------------------------------
(* The operations on the tree keep its shape.                              *)

Any == Value \cup {Empty}

LEMMA ItemType ==
    /\ Gone \in ConfigItem
    /\ \A v \in Any : Stored(v) \in ConfigItem /\ NewNode(v) \in ConfigItem
BY DEF Gone, Stored, NewNode, ConfigItem, Any

LEMMA GoneKept ==
    /\ [Gone EXCEPT !.state = "ready", !.new_value = Gone.value] = Gone
    /\ [Gone EXCEPT !.is_new = FALSE] = Gone
<1>1. Gone.state = "ready" /\ Gone.new_value = Gone.value /\ Gone.is_new = FALSE
  BY DEF Gone
<1>2. Gone \in ConfigItem
  BY ItemType
<1> QED  BY <1>1, <1>2 DEF ConfigItem

LEMMA GoneOK ==
    ASSUME NEW t \in [Node -> ConfigItem], NEW n \in Template, t[n] = Gone
    PROVE  NodeOK(t, n)
BY NodeAssumption DEF NodeOK, Gone, Template

LEMMA LoadedTree ==
    ASSUME NEW c \in Contents
    PROVE  Loaded(c) \in Tree
<1>1. Loaded(c) \in [Node -> ConfigItem]
  BY ItemType DEF Loaded, Contents, Any
<1>2. ASSUME NEW n \in Node PROVE NodeOK(Loaded(c), n)
  <2>1. CASE c[n] = Absent
    <3>1. Loaded(c)[n] = Gone
      BY <2>1 DEF Loaded
    <3>2. n \in Template
      BY <2>1, MarkAssumption DEF Contents, Node, Template
    <3> QED  BY <1>1, <3>1, <3>2, GoneOK
  <2>2. CASE c[n] # Absent
    <3>1. Loaded(c)[n] = Stored(c[n])
      BY <2>2 DEF Loaded
    <3>2. n \in List => c[n] = Empty
      BY <2>2, NodeAssumption DEF Contents, Template
    <3> QED  BY <3>1, <3>2 DEF NodeOK, Stored
  <2> QED  BY <2>1, <2>2
<1> QED  BY <1>1, <1>2 DEF Tree

LEMMA DiscardedTree ==
    ASSUME NEW t \in Tree
    PROVE  Discarded(t) \in Tree
<1>1. Discarded(t) \in [Node -> ConfigItem]
  BY ItemType DEF Discarded, Tree, ConfigItem
<1>2. ASSUME NEW n \in Node PROVE NodeOK(Discarded(t), n)
  <2>1. NodeOK(t, n)
    BY DEF Tree
  <2>2. t[n] \in ConfigItem
    BY DEF Tree
  <2>3. CASE t[n].is_new
    <3>1. Discarded(t)[n] = Gone /\ n \in Template
      BY <2>1, <2>3 DEF Discarded, NodeOK, Node
    <3> QED  BY <1>1, <3>1, GoneOK
  <2>4. CASE ~t[n].is_new
    <3>1. Discarded(t)[n] = [t[n] EXCEPT !.state = "ready", !.new_value = t[n].value]
      BY <2>4 DEF Discarded
    <3>2. ~t[n].there => Discarded(t)[n] = Gone
      BY <2>1, <3>1, GoneKept DEF NodeOK
    <3> QED  BY <2>1, <2>2, <2>4, <3>1, <3>2 DEF NodeOK, ConfigItem
  <2> QED  BY <2>3, <2>4
<1> QED  BY <1>1, <1>2 DEF Tree

LEMMA MarkedTree ==
    ASSUME NEW t \in Tree
    PROVE  Marked(t) \in Tree
<1>1. Marked(t) \in [Node -> ConfigItem]
  BY DEF Marked, Tree, ConfigItem
<1>2. ASSUME NEW n \in Node PROVE NodeOK(Marked(t), n)
  <2>1. NodeOK(t, n) /\ t[n] \in ConfigItem
    BY DEF Tree
  <2>2. ~t[n].there => Marked(t)[n] = Gone
    BY <2>1, GoneKept DEF NodeOK, Marked
  <2> QED  BY <2>1, <2>2 DEF NodeOK, Marked, ConfigItem
<1> QED  BY <1>1, <1>2 DEF Tree

LEMMA CommittedTree ==
    ASSUME NEW t \in Tree
    PROVE  Committed(t) \in Tree
<1>1. ASSUME NEW n \in Node
      PROVE  Committed(t)[n] \in ConfigItem /\ NodeOK(Committed(t), n)
  <2>1. NodeOK(t, n) /\ t[n] \in ConfigItem
    BY DEF Tree
  <2>2. CASE t[n].state = "modified"
    BY <2>1, <2>2 DEF NodeOK, Committed, Gone, Stored, ConfigItem
  <2>3. CASE t[n].state = "deleted"
    BY <2>1, <2>3, NodeAssumption
    DEF NodeOK, Committed, Gone, Stored, ConfigItem, Node, Template
  <2>4. CASE t[n].state = "ready"
    BY <2>1, <2>4 DEF NodeOK, Committed, Gone, ConfigItem
  <2> QED  BY <2>1, <2>2, <2>3, <2>4 DEF ConfigItem
<1> QED  BY <1>1 DEF Tree, Committed

LEMMA PreparedTree ==
    ASSUME NEW t \in Tree
    PROVE  Prepared(t) \in Tree
<1>1. Prepared(t) \in [Node -> ConfigItem]
  BY DEF Prepared, Tree, ConfigItem
<1>2. ASSUME NEW n \in Node PROVE NodeOK(Prepared(t), n)
  <2>1. NodeOK(t, n) /\ t[n] \in ConfigItem
    BY DEF Tree
  <2> QED  BY <2>1 DEF NodeOK, Prepared, ConfigItem
<1> QED  BY <1>1, <1>2 DEF Tree

LEMMA MergedTree ==
    ASSUME NEW t \in Tree, NEW c \in Contents
    PROVE  Merged(t, c) \in Tree
<1>1. ASSUME NEW n \in Node
      PROVE  Merged(t, c)[n] \in ConfigItem /\ NodeOK(Merged(t, c), n)
  <2>1. NodeOK(t, n) /\ t[n] \in ConfigItem
    BY DEF Tree
  <2>2. CASE n \notin Named(c)
    BY <2>1, <2>2 DEF Merged, NodeOK
  <2>3. CASE n \in Named(c) /\ t[n].there
    <3>1. c[n] \in Any /\ (n \in List => c[n] = Empty)
      BY <2>3, NodeAssumption DEF Named, Contents, Any, Node, Template
    <3> QED  BY <2>1, <2>3, <3>1 DEF Merged, NodeOK, ConfigItem, Any
  <2>4. CASE n \in Named(c) /\ ~t[n].there
    <3>1. c[n] \in Any /\ n \notin Item /\ (n \in List => c[n] = Empty)
      BY <2>1, <2>4, NodeAssumption DEF NodeOK, Named, Contents, Any, Node, Template
    <3> QED  BY <2>4, <3>1 DEF Merged, NodeOK, NewNode, ConfigItem, Any
  <2> QED  BY <2>2, <2>3, <2>4
<1> QED  BY <1>1 DEF Tree, Merged

(* The edits: one node's change, and a file that replaces them all.        *)
LEMMA EditTree ==
    ASSUME NEW t \in Tree
    PROVE  /\ \A n \in Item, v \in Any : WithItem(t, n, v) \in Tree
           /\ \A n \in Template : WithNode(t, n) \in Tree
           /\ \A n \in Block, v \in Value : WithNodeItem(t, n, v) \in Tree
           /\ \A n \in Node : t[n].there =>
                [t EXCEPT ![n].state = "deleted"] \in Tree
<1> DEFINE Shape(x, n) == /\ x \in ConfigItem
                          /\ n \in Item => x.there /\ ~x.is_new
                          /\ x.there /\ x.state # "ready"
                          /\ x.is_new => x.value = Empty
                          /\ n \in List => x.value = Empty /\ x.new_value = Empty
<1>1. ASSUME NEW n \in Node, NEW x, Shape(x, n)
      PROVE  [t EXCEPT ![n] = x] \in Tree
  BY <1>1 DEF Tree, NodeOK
<1>2. ASSUME NEW n \in Node PROVE t[n] \in ConfigItem /\ NodeOK(t, n)
  BY DEF Tree
<1>3. ASSUME NEW n \in Item, NEW v \in Any PROVE WithItem(t, n, v) \in Tree
  <2> DEFINE x == [t[n] EXCEPT !.state = "modified", !.new_value = v]
  <2>1. n \in Node /\ n \notin List
    BY NodeAssumption DEF Node, Template
  <2>2. Shape(x, n)
    BY <1>2, <2>1 DEF NodeOK, ConfigItem, Any
  <2>3. WithItem(t, n, v) = [t EXCEPT ![n] = x]
    BY <2>1 DEF WithItem, Tree, ConfigItem
  <2> QED  BY <1>1, <2>1, <2>2, <2>3
<1>4. ASSUME NEW n \in Template PROVE WithNode(t, n) \in Tree
  <2>1. n \in Node /\ n \notin Item
    BY NodeAssumption DEF Node
  <2>2. CASE ~t[n].there
    <3>1. Shape(NewNode(Empty), n)
      BY <2>1, ItemType DEF NewNode, Any
    <3>2. WithNode(t, n) = [t EXCEPT ![n] = NewNode(Empty)]
      BY <2>1, <2>2 DEF WithNode, Tree
    <3> QED  BY <1>1, <2>1, <3>1, <3>2
  <2>3. CASE t[n].there /\ t[n].state = "deleted"
    <3> DEFINE x == [t[n] EXCEPT !.state = "modified"]
    <3>1. Shape(x, n)
      BY <1>2, <2>1, <2>3 DEF NodeOK, ConfigItem
    <3>2. WithNode(t, n) = [t EXCEPT ![n] = x]
      BY <2>1, <2>3 DEF WithNode, Tree
    <3> QED  BY <1>1, <2>1, <3>1, <3>2
  <2>4. CASE t[n].there /\ t[n].state # "deleted"
    <3>1. WithNode(t, n) = t
      BY <2>1, <2>4 DEF WithNode, Tree
    <3> QED  BY <3>1
  <2> QED  BY <2>2, <2>3, <2>4
<1>5. ASSUME NEW n \in Block, NEW v \in Value PROVE WithNodeItem(t, n, v) \in Tree
  <2>1. n \in Node /\ n \notin Item /\ n \notin List
    BY NodeAssumption DEF Node, Template
  <2>2. CASE ~t[n].there
    <3>1. Shape(NewNode(v), n)
      BY <2>1, ItemType DEF NewNode, Any
    <3>2. WithNodeItem(t, n, v) = [t EXCEPT ![n] = NewNode(v)]
      BY <2>1, <2>2 DEF WithNodeItem, Tree
    <3> QED  BY <1>1, <2>1, <3>1, <3>2
  <2>3. CASE t[n].there
    <3> DEFINE s == IF t[n].state = "deleted" THEN "deleted" ELSE "modified"
               x == [t[n] EXCEPT !.new_value = v, !.state = s]
    <3>1. Shape(x, n)
      BY <1>2, <2>1, <2>3 DEF NodeOK, ConfigItem
    <3>2. WithNodeItem(t, n, v) = [t EXCEPT ![n] = x]
      BY <1>2, <2>1, <2>3 DEF WithNodeItem, Tree, ConfigItem
    <3> HIDE DEF x
    <3> QED  BY <1>1, <2>1, <3>1, <3>2
  <2> QED  BY <2>2, <2>3
<1>6. ASSUME NEW n \in Node, t[n].there
      PROVE  [t EXCEPT ![n].state = "deleted"] \in Tree
  <2> DEFINE x == [t[n] EXCEPT !.state = "deleted"]
  <2>1. Shape(x, n)
    BY <1>2, <1>6 DEF NodeOK, ConfigItem
  <2>2. [t EXCEPT ![n].state = "deleted"] = [t EXCEPT ![n] = x]
    BY DEF Tree, ConfigItem
  <2> QED  BY <1>1, <2>1, <2>2
<1> QED  BY <1>3, <1>4, <1>5, <1>6

-----------------------------------------------------------------------------
(* What a discard would leave.                                             *)

(* Two trees that differ in what is new, pending or absent only.           *)
SameBase(t, u) ==
    \A n \in Node :
       \/ u[n] = t[n]
       \/ /\ t[n].is_new \/ ~t[n].there
          /\ u[n].is_new \/ ~u[n].there
       \/ /\ t[n].there /\ u[n].there /\ t[n].value = u[n].value
          /\ ~t[n].is_new /\ ~u[n].is_new

LEMMA DiscardedSame ==
    ASSUME NEW t \in Tree, NEW u \in Tree, SameBase(t, u)
    PROVE  Discarded(u) = Discarded(t)
<1>1. ASSUME NEW x \in Tree, NEW n \in Node, x[n].is_new \/ ~x[n].there
      PROVE  Discarded(x)[n] = Gone
  <2>1. NodeOK(x, n)
    BY DEF Tree
  <2> QED  BY <1>1, <2>1, GoneKept DEF NodeOK, Discarded
<1>2. ASSUME NEW n \in Node PROVE Discarded(u)[n] = Discarded(t)[n]
  <2>1. CASE u[n] = t[n]
    BY <2>1 DEF Discarded
  <2>2. CASE /\ t[n].is_new \/ ~t[n].there
             /\ u[n].is_new \/ ~u[n].there
    BY <1>1, <2>2
  <2>3. CASE /\ t[n].there /\ u[n].there /\ t[n].value = u[n].value
             /\ ~t[n].is_new /\ ~u[n].is_new
    <3>1. t[n] \in ConfigItem /\ u[n] \in ConfigItem
      BY DEF Tree
    <3>2. \A x, y \in ConfigItem :
            /\ x.there = y.there /\ x.is_new = y.is_new /\ x.state = y.state
            /\ x.value = y.value /\ x.new_value = y.new_value
            => x = y
      BY DEF ConfigItem
    <3>3. ASSUME NEW x \in Tree, ~x[n].is_new
          PROVE  LET y == Discarded(x)[n]
                 IN /\ y \in ConfigItem
                    /\ y.there = x[n].there /\ y.is_new = x[n].is_new
                    /\ y.state = "ready"
                    /\ y.value = x[n].value /\ y.new_value = x[n].value
      <4>1. x[n] \in ConfigItem
        BY DEF Tree
      <4> QED  BY <3>3, <4>1 DEF Discarded, ConfigItem
    <3>4. t[n].is_new = u[n].is_new /\ t[n].there = u[n].there
      BY <2>3, <3>1 DEF ConfigItem
    <3> DEFINE a == Discarded(t)[n]
               b == Discarded(u)[n]
    <3>5. /\ a \in ConfigItem /\ b \in ConfigItem
          /\ a.there = b.there /\ a.is_new = b.is_new /\ a.state = b.state
          /\ a.value = b.value /\ a.new_value = b.new_value
      BY <2>3, <3>3, <3>4
    <3> HIDE DEF a, b
    <3>6. a = b
      BY <3>2, <3>5
    <3> QED  BY <3>6 DEF a, b
  <2> QED  BY <2>1, <2>2, <2>3 DEF SameBase
<1> QED  BY <1>2 DEF Discarded

(* No change of the owner's touches it, as long as "load" names no node    *)
(* that is new.                                                            *)
LEMMA EditBase ==
    ASSUME NEW t \in Tree
    PROVE  /\ \A n \in Item, v \in Any :
                Discarded(WithItem(t, n, v)) = Discarded(t)
           /\ \A n \in Template : Discarded(WithNode(t, n)) = Discarded(t)
           /\ \A n \in Block, v \in Value :
                Discarded(WithNodeItem(t, n, v)) = Discarded(t)
           /\ \A n \in Node : t[n].there =>
                Discarded([t EXCEPT ![n].state = "deleted"]) = Discarded(t)
<1> USE DEF SameBase, Tree, ConfigItem
<1>1. \A n \in Item, v \in Any : n \in Node /\ SameBase(t, WithItem(t, n, v))
  BY DEF WithItem, Node, NodeOK
<1>2. \A n \in Template : n \in Node /\ SameBase(t, WithNode(t, n))
  BY DEF WithNode, NewNode, Node
<1>3. \A n \in Block, v \in Value : n \in Node /\ SameBase(t, WithNodeItem(t, n, v))
  BY DEF WithNodeItem, NewNode, Node, Template
<1>4. \A n \in Node : SameBase(t, [t EXCEPT ![n].state = "deleted"])
  OBVIOUS
<1> QED  BY <1>1, <1>2, <1>3, <1>4, EditTree, DiscardedSame

LEMMA LoadBase ==
    ASSUME NEW t \in Tree, NEW c \in Contents, \A n \in Named(c) : ~t[n].is_new
    PROVE  Discarded(Merged(Prepared(t), c)) = Discarded(t)
<1> DEFINE u == Merged(Prepared(t), c)
<1>1. u \in Tree
  BY PreparedTree, MergedTree
<1>2. ASSUME NEW n \in Node
      PROVE  \/ u[n] = t[n]
             \/ /\ t[n].is_new \/ ~t[n].there
                /\ u[n].is_new \/ ~u[n].there
             \/ /\ t[n].there /\ u[n].there /\ t[n].value = u[n].value
                /\ ~t[n].is_new /\ ~u[n].is_new
  <2>1. t[n] \in ConfigItem
    BY DEF Tree
  <2>2. CASE n \notin Named(c)
    BY <2>1, <2>2 DEF Merged, Prepared, ConfigItem
  <2>3. CASE n \in Named(c)
    BY <2>1, <2>3 DEF Merged, Prepared, NewNode, ConfigItem
  <2> QED  BY <2>2, <2>3
<1> QED  BY <1>1, <1>2, DiscardedSame DEF SameBase

(* A tree without changes, and those a discard, a commit or a start leave. *)
LEMMA NewIsPending ==
    ASSUME NEW t \in Tree, NEW n \in Node, t[n].is_new
    PROVE  n \in Pending(t)
<1>1. NodeOK(t, n)
  BY DEF Tree
<1> QED  BY <1>1 DEF Pending, Present, NodeOK, Gone

LEMMA CleanTree ==
    ASSUME NEW t \in Tree, Pending(t) = {}
    PROVE  Discarded(t) = t /\ Marked(t) = t
<1>1. ASSUME NEW n \in Node PROVE Discarded(t)[n] = t[n] /\ Marked(t)[n] = t[n]
  <2>1. NodeOK(t, n) /\ t[n] \in ConfigItem
    BY DEF Tree
  <2>2. ~t[n].is_new
    BY NewIsPending
  <2>3. t[n].state = "ready"
    BY <2>1 DEF Pending, Present, NodeOK, Gone
  <2>4. t[n].new_value = t[n].value
    BY <2>1, <2>3 DEF NodeOK
  <2> QED  BY <2>1, <2>2, <2>3, <2>4 DEF Discarded, Marked, ConfigItem
<1> QED  BY <1>1 DEF Discarded, Marked, Tree

LEMMA Cleaned ==
    /\ \A t \in Tree : Pending(Discarded(t)) = {} /\ Pending(Committed(t)) = {}
    /\ \A c \in Contents : Pending(Loaded(c)) = {}
<1>1. ASSUME NEW t \in Tree, NEW n \in Node
      PROVE  Discarded(t)[n].state = "ready" /\ Committed(t)[n].state = "ready"
  <2>1. t[n] \in ConfigItem
    BY DEF Tree
  <2> QED  BY <2>1 DEF Discarded, Committed, Stored, Gone, ConfigItem
<1>2. ASSUME NEW c \in Contents, NEW n \in Node PROVE Loaded(c)[n].state = "ready"
  BY DEF Loaded, Stored, Gone
<1> QED  BY <1>1, <1>2 DEF Pending, Present

(* What the files hold. *)
LEMMA ShownType ==
    ASSUME NEW t \in Tree
    PROVE  Shown(t) \in Contents
<1>1. ASSUME NEW n \in Node
      PROVE  \/ n \in Item /\ Shown(t)[n] \in Any
             \/ n \in Block /\ Shown(t)[n] \in Value \cup {Absent}
             \/ n \in List /\ Shown(t)[n] \in {Empty, Absent}
  <2>1. NodeOK(t, n) /\ t[n] \in ConfigItem
    BY DEF Tree
  <2>2. CASE n \in Item
    BY <2>1, <2>2 DEF Shown, ConfigItem, Any
  <2>3. CASE n \in Block
    BY <2>1, <2>3, NodeAssumption DEF Shown, ConfigItem, Template
  <2>4. CASE n \in List
    BY <2>1, <2>4, NodeAssumption DEF Shown, NodeOK, Template
  <2> QED  BY <2>2, <2>3, <2>4 DEF Node, Template
<1> QED  BY <1>1 DEF Contents, Shown, Any

LEMMA ShownCommittedType ==
    ASSUME NEW t \in Tree
    PROVE  ShownCommitted(t) \in Contents
<1>1. ASSUME NEW n \in Node
      PROVE  \/ n \in Item /\ ShownCommitted(t)[n] \in Any
             \/ n \in Block /\ ShownCommitted(t)[n] \in Value \cup {Absent}
             \/ n \in List /\ ShownCommitted(t)[n] \in {Empty, Absent}
  <2>1. NodeOK(t, n) /\ t[n] \in ConfigItem
    BY DEF Tree
  <2>2. CASE n \in Item
    BY <2>1, <2>2 DEF ShownCommitted, ConfigItem, Any
  <2>3. CASE n \in Block
    BY <2>1, <2>3, NodeAssumption DEF ShownCommitted, ConfigItem, Template
  <2>4. CASE n \in List
    BY <2>1, <2>4, NodeAssumption DEF ShownCommitted, NodeOK, Template
  <2> QED  BY <2>2, <2>3, <2>4 DEF Node, Template
<1> QED  BY <1>1 DEF Contents, ShownCommitted, Any

(* A daemon that starts shows what it has read. *)
LEMMA ShownLoaded ==
    ASSUME NEW c \in Contents
    PROVE  Shown(Loaded(c)) = c
<1>1. ASSUME NEW n \in Node PROVE Shown(Loaded(c))[n] = c[n]
  <2>1. CASE n \in Item
    BY <2>1, MarkAssumption, NodeAssumption DEF Shown, Loaded, Stored, Contents, Template
  <2>2. CASE n \in Block
    BY <2>2, MarkAssumption, NodeAssumption
    DEF Shown, Loaded, Stored, Gone, Contents, Template
  <2>3. CASE n \in List
    BY <2>3, NodeAssumption DEF Shown, Loaded, Stored, Gone, Contents, Template
  <2> QED  BY <2>1, <2>2, <2>3 DEF Node, Template
<1> QED  BY <1>1 DEF Shown, Contents

-----------------------------------------------------------------------------
(* Commands.                                                               *)

Command(u) == EnterMode(u) \/ Look(u)

(* How a user's changes may leave the tree: no node goes, and no node that *)
(* was there becomes new.                                                  *)
Edited(t, e) ==
    /\ e \in Tree
    /\ Present(t) \subseteq Present(e)
    /\ \A n \in Present(t) : e[n].is_new => t[n].is_new

LEMMA NodeEdited ==
    ASSUME NEW t \in Tree, NEW n \in Template
    PROVE  Edited(t, WithNode(t, n)) /\ Discarded(WithNode(t, n)) = Discarded(t)
<1>1. n \in Node
  BY DEF Node
<1>2. WithNode(t, n) \in Tree
  BY EditTree
<1>3. Present(t) \subseteq Present(WithNode(t, n))
  BY <1>1 DEF WithNode, NewNode, Present, Tree, ConfigItem
<1>4. \A m \in Present(t) : WithNode(t, n)[m].is_new => t[m].is_new
  BY <1>1 DEF WithNode, Present, Tree, ConfigItem
<1> QED  BY <1>2, <1>3, <1>4, EditBase DEF Edited

LEMMA Edits ==
    ASSUME StoreOK, NEW u \in User, Set(u) \/ Delete(u) \/ Load(u)
    PROVE  \E e : /\ Change(u, e) /\ Edited(tree, e)
                  /\ ~LoadOverNew => Discarded(e) = Discarded(tree)
<1> DEFINE Good(e) == /\ Edited(tree, e)
                      /\ ~LoadOverNew => Discarded(e) = Discarded(tree)
<1> USE DEF StoreOK
<1>1. CASE Set(u)
  <2>1. ASSUME NEW n \in Item, NEW v \in Any PROVE Good(WithItem(tree, n, v))
    <3>1. n \in Node
      BY DEF Node
    <3>2. Present(tree) \subseteq Present(WithItem(tree, n, v))
      BY <3>1 DEF WithItem, Present, Tree, ConfigItem
    <3>3. \A m \in Present(tree) : WithItem(tree, n, v)[m].is_new => tree[m].is_new
      BY <3>1 DEF WithItem, Present, Tree, ConfigItem
    <3> QED  BY <3>2, <3>3, EditTree, EditBase DEF Edited
  <2>2. ASSUME NEW n \in Template PROVE Good(WithNode(tree, n))
    BY NodeEdited
  <2>3. ASSUME NEW n \in Block, NEW v \in Value PROVE Good(WithNodeItem(tree, n, v))
    <3>1. n \in Node
      BY DEF Node, Template
    <3>2. Present(tree) \subseteq Present(WithNodeItem(tree, n, v))
      BY <3>1 DEF WithNodeItem, NewNode, Present, Tree, ConfigItem
    <3>3. \A m \in Present(tree) : WithNodeItem(tree, n, v)[m].is_new => tree[m].is_new
      BY <3>1 DEF WithNodeItem, Present, Tree, ConfigItem
    <3> QED  BY <3>2, <3>3, EditTree, EditBase DEF Edited
  <2> HIDE DEF Good
  <2>4. \E e : Change(u, e) /\ Good(e)
    BY <1>1, <2>1, <2>2, <2>3 DEF Set, Any
  <2> QED  BY <2>4 DEF Good
<1>2. CASE Delete(u)
  <2>1. PICK n \in (Item \cup Block) \cap Present(tree) :
          Change(u, [tree EXCEPT ![n].state = "deleted"])
    BY <1>2 DEF Delete
  <2> DEFINE e == [tree EXCEPT ![n].state = "deleted"]
  <2>2. n \in Node /\ tree[n].there
    BY DEF Present
  <2>3. Present(tree) \subseteq Present(e)
    BY <2>2 DEF Present, Tree, ConfigItem
  <2>4. \A m \in Present(tree) : e[m].is_new => tree[m].is_new
    BY <2>2 DEF Present, Tree, ConfigItem
  <2>5. e \in Tree /\ Discarded(e) = Discarded(tree)
    BY <2>2, EditTree, EditBase
  <2> HIDE DEF e
  <2> QED  BY <2>1, <2>3, <2>4, <2>5 DEF Edited, e
<1>3. CASE Load(u)
  <2>1. PICK c \in File :
          /\ LoadOverNew \/ \A n \in Named(c) : ~tree[n].is_new
          /\ Change(u, Merged(Prepared(tree), c))
    BY <1>3 DEF Load
  <2> DEFINE e == Merged(Prepared(tree), c)
  <2>2. c \in Contents
    BY FileAssumption
  <2>3. e \in Tree
    BY <2>2, PreparedTree, MergedTree
  <2>4. Present(tree) \subseteq Present(e)
    BY DEF Merged, Prepared, NewNode, Present, Tree, ConfigItem
  <2>5. \A m \in Present(tree) : e[m].is_new => tree[m].is_new
    BY DEF Merged, Prepared, Present, Tree, ConfigItem
  <2>6. ~LoadOverNew => Discarded(e) = Discarded(tree)
    BY <2>1, <2>2, LoadBase
  <2> HIDE DEF e
  <2> QED  BY <2>1, <2>3, <2>4, <2>5, <2>6 DEF Edited, e
<1> QED  BY <1>1, <1>2, <1>3

LEMMA SeenType ==
    ASSUME StoreOK, NEW u \in User
    PROVE  /\ Seen(u) \/ SeenAtRoot(u) =>
                /\ wn' \in [User -> Template \cup {Root, NoUser}]
                /\ aged' \in [User -> BOOLEAN]
           /\ SeenAtRoot(u) => \A x \in User : wn'[x] \in {Root, NoUser}
           /\ Seen(u) => \A x \in User : wn'[x] \in {wn[x], Root}
           /\ Seen(u) => wn'[u] # NoUser
           /\ Seen(u) \/ SeenAtRoot(u) =>
                \A x \in User : wn[x] # NoUser => wn'[x] # NoUser
BY MarkAssumption DEF StoreOK, Seen, SeenAtRoot, Node

LEMMA CommandTyped ==
    ASSUME StoreOK, NEW u \in User, Command(u)
    PROVE  StoreOK'
<1> USE SeenType DEF StoreOK
<1>1. CASE Set(u) \/ Delete(u) \/ Load(u)
  <2>1. PICK e : Change(u, e) /\ Edited(tree, e)
    BY <1>1, Edits
  <2> QED  BY <2>1 DEF Change, Edited
<1>2. CASE SetForeign(u)
  <2>1. PICK n \in Template \ Present(tree) : tree' = [tree EXCEPT ![n] = NewNode(Empty)]
    BY <1>2 DEF SetForeign
  <2>2. tree' = WithNode(tree, n)
    BY <2>1 DEF WithNode, Present, Node
  <2>3. tree' \in Tree
    BY <2>2, EditTree
  <2> QED  BY <1>2, <2>3 DEF SetForeign
<1>3. CASE Refused(u) \/ Look(u)
  BY <1>3 DEF Refused, Look, store
<1>4. CASE Discard(u)
  BY <1>4, DiscardedTree DEF Discard, EndTransaction
<1>5. CASE Commit(u)
  <2>1. Marked(tree) \in Tree /\ Committed(Marked(tree)) \in Tree
    BY MarkedTree, CommittedTree
  <2>2. Shown(Committed(Marked(tree))) \in Contents
        /\ ShownCommitted(Marked(tree)) \in Contents
    BY <2>1, ShownType, ShownCommittedType
  <2> QED  BY <1>5, <2>1, <2>2 DEF Commit, EndTransaction
<1>6. CASE Rollback(u)
  <2>1. rollback \in Contents
    BY <1>6 DEF Rollback
  <2>2. Committed(Merged(Prepared(tree), rollback)) \in Tree
    BY <2>1, PreparedTree, MergedTree, CommittedTree
  <2>3. Shown(Committed(Merged(Prepared(tree), rollback))) \in Contents
    BY <2>2, ShownType
  <2> QED  BY <1>6, <2>2, <2>3 DEF Rollback, EndTransaction
<1>7. CASE Edit(u) \/ Login(u)
  BY <1>7 DEF Edit, Login, store
<1>8. CASE Logout(u)
  BY <1>8, DiscardedTree DEF Logout, EndTransaction
<1> QED  BY <1>1, <1>2, <1>3, <1>4, <1>5, <1>6, <1>7, <1>8 DEF Command, EnterMode

LEMMA CommandOwned ==
    ASSUME StoreOK, Owned, NEW u \in User, Command(u)
    PROVE  Owned'
<1> USE SeenType DEF StoreOK, Owned
<1>1. CASE Set(u) \/ Delete(u) \/ Load(u)
  <2>1. PICK e : Change(u, e)
    BY <1>1, Edits
  <2> QED  BY <2>1 DEF Change
<1>2. CASE SetForeign(u)
  BY <1>2 DEF SetForeign, Pretend
<1>3. CASE Refused(u) \/ Look(u)
  BY <1>3 DEF Refused, Look, store, Pending, Present
<1>4. CASE Discard(u)
  BY <1>4, Cleaned DEF Discard, EndTransaction
<1>5. CASE Commit(u)
  <2>1. CASE Pending(tree) = {}
    <3>1. tree' = tree
      BY <1>5, <2>1, CleanTree DEF Commit
    <3> QED  BY <1>5, <2>1, <3>1 DEF Commit
  <2>2. CASE tree' = Committed(Marked(tree)) /\ EndTransaction
    BY <2>2, MarkedTree, Cleaned DEF EndTransaction
  <2>3. CASE Pending(tree) # {} /\ UNCHANGED <<txn, authors>> /\ SeenAtRoot(u)
    BY <2>3
  <2> QED  BY <1>5, <2>1, <2>2, <2>3 DEF Commit
<1>6. CASE Rollback(u)
  <2>1. Merged(Prepared(tree), rollback) \in Tree
    BY <1>6, PreparedTree, MergedTree DEF Rollback
  <2> QED  BY <1>6, <2>1, Cleaned DEF Rollback, EndTransaction
<1>7. CASE Edit(u) \/ Login(u)
  BY <1>7, MarkAssumption DEF Edit, Login, store, Node, Pending, Present
<1>8. CASE Logout(u)
  BY <1>8, Cleaned DEF Logout, EndTransaction, Pretend
<1> QED  BY <1>1, <1>2, <1>3, <1>4, <1>5, <1>6, <1>7, <1>8 DEF Command, EnterMode

LEMMA CommandOwnChanges ==
    ASSUME ~ForeignSet, StoreOK, Owned, OwnChanges, NEW u \in User, Command(u)
    PROVE  OwnChanges'
<1> USE DEF StoreOK, Owned, OwnChanges
<1>1. CASE Set(u) \/ Delete(u) \/ Load(u)
  <2>1. PICK e : Change(u, e)
    BY <1>1, Edits
  <2> QED  BY <2>1 DEF Change, Pretend
<1>2. CASE SetForeign(u)
  BY <1>2 DEF SetForeign
<1>3. CASE Refused(u) \/ Look(u) \/ Edit(u) \/ Login(u)
  BY <1>3 DEF Refused, Look, Edit, Login, store
<1>4. CASE Discard(u) \/ Commit(u) \/ Rollback(u) \/ Logout(u)
  BY <1>4 DEF Discard, Commit, Rollback, Logout, EndTransaction
<1> QED  BY <1>1, <1>2, <1>3, <1>4 DEF Command, EnterMode

LEMMA CommittedBase ==
    ASSUME NEW t \in Tree
    PROVE  Discarded(Committed(t)) = Committed(t)
BY CommittedTree, Cleaned, CleanTree

LEMMA CommandBase ==
    ASSUME ~LoadOverNew, FALSE \notin LogUsable,
           StoreOK, Owned, FileIsBase, NEW u \in User, Command(u)
    PROVE  FileIsBase'
<1> USE DEF StoreOK, FileIsBase
<1>1. CASE Set(u) \/ Delete(u) \/ Load(u)
  <2>1. PICK e : Change(u, e) /\ Discarded(e) = Discarded(tree)
    BY <1>1, Edits
  <2> QED  BY <2>1 DEF Change
<1>2. CASE SetForeign(u)
  <2>1. PICK n \in Template \ Present(tree) : tree' = [tree EXCEPT ![n] = NewNode(Empty)]
    BY <1>2 DEF SetForeign
  <2>2. tree' = WithNode(tree, n)
    BY <2>1 DEF WithNode, Present, Node
  <2> QED  BY <1>2, <2>2, EditBase DEF SetForeign
<1>3. CASE Refused(u) \/ Look(u) \/ Edit(u) \/ Login(u)
  BY <1>3 DEF Refused, Look, Edit, Login, store
<1>4. CASE Discard(u)
  BY <1>4, DiscardedTree, Cleaned, CleanTree DEF Discard
<1>5. CASE Commit(u)
  <2>1. CASE Pending(tree) = {}
    BY <1>5, <2>1, CleanTree DEF Commit
  <2>2. CASE tree' = Committed(Marked(tree)) /\ file' = Shown(tree')
    BY <2>2, MarkedTree, CommittedBase
  <2> QED  BY <1>5, <2>1, <2>2 DEF Commit
<1>6. CASE Rollback(u)
  <2>1. Merged(Prepared(tree), rollback) \in Tree
    BY <1>6, PreparedTree, MergedTree DEF Rollback
  <2> QED  BY <1>6, <2>1, CommittedBase DEF Rollback
<1>7. CASE Logout(u)
  BY <1>7, DiscardedTree, Cleaned, CleanTree DEF Logout
<1> QED  BY <1>1, <1>2, <1>3, <1>4, <1>5, <1>6, <1>7 DEF Command, EnterMode

(* No pointer to a working node dangles.                                   *)
PathInv == NoDanglingPath /\ NewIsOwners

LEMMA DiscardKeeps ==
    ASSUME NEW t \in Tree, NEW n \in Present(t), ~t[n].is_new
    PROVE  n \in Present(Discarded(t)) /\ ~Discarded(t)[n].is_new
<1>1. n \in Node /\ t[n] \in ConfigItem
  BY DEF Present, Tree
<1> QED  BY <1>1 DEF Present, Discarded, ConfigItem

LEMMA CommandPath ==
    ASSUME StoreOK, Owned, PathInv, NEW u \in User, Command(u)
    PROVE  PathInv'
<1> USE DEF StoreOK
<1>1. ASSUME NEW e, Edited(tree, e), tree' = e,
             \A x \in User : wn'[x] \in {wn[x], Root},
             \A x \in User : txn.on /\ txn.owner = x => txn'.on /\ txn'.owner = x
      PROVE  PathInv'
  <2>1. ASSUME NEW x \in User, wn'[x] = wn[x], wn[x] \in Node
        PROVE  wn[x] \in Present(e) /\ (e[wn[x]].is_new => txn'.on /\ txn'.owner = x)
    <3>1. wn[x] \in Present(tree)
      BY <2>1, MarkAssumption DEF PathInv, NoDanglingPath
    <3> QED  BY <1>1, <2>1, <3>1 DEF PathInv, NewIsOwners, Edited
  <2> QED  BY <1>1, <2>1, MarkAssumption DEF PathInv, NoDanglingPath, NewIsOwners, Present
<1>2. ASSUME \A x \in User : wn'[x] \in {Root, NoUser}
      PROVE  PathInv'
  BY <1>2, MarkAssumption DEF PathInv, NoDanglingPath, NewIsOwners
<1>3. Edited(tree, tree)
  BY DEF Edited
<1>4. CASE Set(u) \/ Delete(u) \/ Load(u)
  <2>1. PICK e : Change(u, e) /\ Edited(tree, e)
    BY <1>4, Edits
  <2> QED  BY <1>1, <2>1, SeenType DEF Change, Pretend
<1>5. CASE SetForeign(u)
  <2>1. PICK n \in Template \ Present(tree) : tree' = [tree EXCEPT ![n] = NewNode(Empty)]
    BY <1>5 DEF SetForeign
  <2>2. tree' = WithNode(tree, n)
    BY <2>1 DEF WithNode, Present, Node
  <2> QED  BY <1>1, <1>5, <2>2, NodeEdited, SeenType DEF SetForeign
<1>6. CASE Refused(u) \/ Look(u) \/ Login(u)
  BY <1>1, <1>3, <1>6, SeenType DEF Refused, Look, Login, store
<1>7. CASE Discard(u) \/ Rollback(u)
  BY <1>2, <1>7, SeenType DEF Discard, Rollback
<1>8. CASE Commit(u)
  <2>1. CASE SeenAtRoot(u)
    BY <1>2, <2>1, SeenType
  <2>2. CASE Pending(tree) = {}
    BY <1>1, <1>3, <1>8, <2>2, CleanTree, SeenType DEF Commit
  <2> QED  BY <1>8, <2>1, <2>2 DEF Commit
<1>9. CASE Edit(u)
  <2>1. PICK n \in {Root} \cup (Template \cap Present(tree)) : wn' = [wn EXCEPT ![u] = n]
    BY <1>9 DEF Edit
  <2>2. tree' = tree /\ txn' = txn /\ ~Pretend(u)
    BY <1>9 DEF Edit, store
  <2>3. n \in Node /\ tree[n].is_new => txn.on
    BY NewIsPending DEF Owned
  <2> QED  BY <2>1, <2>2, <2>3, MarkAssumption
           DEF PathInv, NoDanglingPath, NewIsOwners, Pretend, Present
<1>10. CASE Logout(u)
  <2>1. CASE Pretend(u)
    <3>1. wn' = [wn EXCEPT ![u] = NoUser] /\ tree' = tree /\ txn' = txn
      BY <1>10, <2>1 DEF Logout
    <3> QED  BY <3>1, MarkAssumption DEF PathInv, NoDanglingPath, NewIsOwners, Present
  <2>2. CASE ~Pretend(u)
    <3>1. wn' = [wn EXCEPT ![u] = NoUser] /\ tree' = Discarded(tree)
      BY <1>10, <2>2 DEF Logout
    <3>2. ASSUME NEW x \in User, x # u, wn[x] \in Node
          PROVE  wn[x] \in Present(Discarded(tree)) /\ ~Discarded(tree)[wn[x]].is_new
      <4>1. wn[x] \in Present(tree)
        BY <3>2, MarkAssumption DEF PathInv, NoDanglingPath
      <4>2. ~tree[wn[x]].is_new
        BY <2>2, <3>2 DEF Pretend, PathInv, NewIsOwners
      <4> QED  BY <4>1, <4>2, DiscardKeeps
    <3> QED  BY <3>1, <3>2, MarkAssumption
             DEF PathInv, NoDanglingPath, NewIsOwners, Present, Node
  <2> QED  BY <2>1, <2>2
<1> QED  BY <1>4, <1>5, <1>6, <1>7, <1>8, <1>9, <1>10 DEF Command, EnterMode

-----------------------------------------------------------------------------
(* The steps of the daemon.                                                *)

LEMMA TypedStore == Typed => StoreOK
BY DEF Typed, TypeOK, StoreOK

LEMMA ServeStep ==
    ASSUME Typed, NEW s \in Stream, Serve(s)
    PROVE  /\ Locks(s)
           /\ Opened(s, {}) \/ Opened(s, Present(tree))
           /\ \E u \in User : u = strm[s].user /\ Command(u)
<1>1. strm[s].user \in User
  BY DEF Serve, Enter, Replicate, Show, Locks, Typed
<1>2. Command(strm[s].user)
  BY DEF Serve, Enter, Replicate, Show, ReplicateMode, EnterMode, Command
<1> QED  BY <1>1, <1>2 DEF Serve, Enter, Replicate, Show

(* What changes the tree, the transaction or a working node: a command,    *)
(* the time-out of users, and a start of the daemon.                       *)
LEMMA StoreSteps ==
    ASSUME Typed, Next, ~UserTimeout, ~Restart, ~\E u \in User : Command(u)
    PROVE  UNCHANGED <<store, wn>>
<1>1. \A s \in Stream : ~Serve(s)
  BY ServeStep
<1> QED  BY <1>1 DEF Next, Arrive, Next1, Done, Idle, Down, Age

LEMMA InitTyped == Init => Typed
<1> SUFFICES ASSUME Init PROVE Typed
  OBVIOUS
<1>1. file \in Contents /\ tree \in Tree
  BY FileAssumption, LoadedTree DEF Init
<1>2. tree \in [Node -> ConfigItem]
  BY <1>1 DEF Tree
<1> QED  BY <1>1, <1>2, BoundAssumption DEF Init, Typed, TypeOK

LEMMA NextTyped == Typed /\ [Next]_vars => Typed'
<1> SUFFICES ASSUME Typed, [Next]_vars PROVE Typed'
  OBVIOUS
<1> USE DEF Typed, TypeOK
<1>1. \A s \in Stream : ClientOf[s] \in Client
  BY ClientAssumption
<1>2. \A c \in Client : Unlocked(c) \in Client \cup {Nobody}
  BY DEF Unlocked
<1>3. tree \in [Node -> ConfigItem] /\ Present(tree) \subseteq Node
  BY DEF Present
<1>4. ASSUME NEW s \in Stream, Arrive(s) PROVE Typed'
  BY <1>4, BoundAssumption DEF Arrive, store
<1>5. ASSUME NEW s \in Stream, Serve(s) PROVE Typed'
  <2>1. Locks(s) /\ (Opened(s, {}) \/ Opened(s, Present(tree)))
    BY <1>5, ServeStep
  <2>2. StoreOK'
    BY <1>5, ServeStep, TypedStore, CommandTyped
  <2>3. tree' \in [Node -> ConfigItem]
    BY <2>2 DEF StoreOK, Tree
  <2> QED  BY <1>1, <1>3, <2>1, <2>2, <2>3 DEF Locks, Opened, StoreOK
<1>6. ASSUME NEW s \in Stream, Next1(s) PROVE Typed'
  BY <1>6 DEF Next1, store
<1>7. ASSUME NEW s \in Stream, Done(s) PROVE Typed'
  BY <1>1, <1>2, <1>7 DEF Done, store
<1>8. ASSUME NEW c \in Client, Idle(c) PROVE Typed'
  BY <1>2, <1>8 DEF Idle, store
<1>9. ASSUME NEW c \in Client, Down(c) PROVE Typed'
  BY <1>2, <1>9 DEF Down, store, OpenAt
<1>10. ASSUME NEW u \in User, Age(u) PROVE Typed'
  BY <1>10 DEF Age, store
<1>11. CASE UserTimeout
  <2>1. Discarded(tree) \in Tree /\ Discarded(tree) \in [Node -> ConfigItem]
    BY DiscardedTree DEF Tree
  <2> QED  BY <1>11, <2>1 DEF UserTimeout, EndTransaction
<1>12. CASE Restart
  <2>1. Loaded(file) \in Tree /\ Loaded(file) \in [Node -> ConfigItem]
    BY LoadedTree DEF Tree
  <2> QED  BY <1>12, <2>1 DEF Restart, EndTransaction
<1>13. CASE UNCHANGED vars
  BY <1>13 DEF vars, store
<1> QED  BY <1>4, <1>5, <1>6, <1>7, <1>8, <1>9, <1>10, <1>11, <1>12, <1>13 DEF Next

(* The variables of the daemon have their types, and its tree the shape    *)
(* that its operations rely on.                                            *)
THEOREM TypeCorrect == Spec => [](TypeOK /\ tree \in Tree)
<1>1. Typed => TypeOK /\ tree \in Tree
  BY DEF Typed
<1> QED  BY <1>1, InitTyped, NextTyped, PTL DEF Spec

LEMMA AlwaysTyped == Spec => []Typed
BY InitTyped, NextTyped, PTL DEF Spec

(* Transactions. *)
LEMMA InitOwned == Init => Owned /\ OwnChanges
<1> SUFFICES ASSUME Init PROVE Owned /\ OwnChanges
  OBVIOUS
<1>1. Pending(tree) = {}
  BY FileAssumption, Cleaned DEF Init
<1> QED  BY <1>1 DEF Init, Owned, OwnChanges

LEMMA NextOwned == Typed /\ Owned /\ [Next]_vars => Owned'
<1> SUFFICES ASSUME Typed, Owned, [Next]_vars PROVE Owned'
  OBVIOUS
<1>1. ASSUME NEW u \in User, Command(u) PROVE Owned'
  BY <1>1, TypedStore, CommandOwned
<1>2. CASE UserTimeout
  <2>1. CASE txn.on /\ txn.owner \notin Expired
    BY <1>2, <2>1 DEF UserTimeout, Owned, Pending, Present
  <2>2. CASE ~(txn.on /\ txn.owner \notin Expired)
    BY <1>2, <2>2, Cleaned DEF UserTimeout, Owned, EndTransaction, Typed, TypeOK
  <2> QED  BY <2>1, <2>2
<1>3. CASE Restart
  BY <1>3, Cleaned DEF Restart, Owned, EndTransaction, Typed, TypeOK
<1>4. CASE UNCHANGED <<store, wn>>
  BY <1>4 DEF store, Owned, Pending, Present
<1> QED  BY <1>1, <1>2, <1>3, <1>4, StoreSteps DEF vars, store

LEMMA NextOwnChanges ==
    ASSUME ~ForeignSet
    PROVE  Typed /\ Owned /\ OwnChanges /\ [Next]_vars => OwnChanges'
<1> SUFFICES ASSUME Typed, Owned, OwnChanges, [Next]_vars PROVE OwnChanges'
  OBVIOUS
<1>1. ASSUME NEW u \in User, Command(u) PROVE OwnChanges'
  BY <1>1, TypedStore, CommandOwnChanges
<1>2. CASE UserTimeout \/ Restart
  BY <1>2 DEF UserTimeout, Restart, OwnChanges, EndTransaction, Typed, TypeOK
<1>3. CASE UNCHANGED <<store, wn>>
  BY <1>3 DEF store, OwnChanges
<1> QED  BY <1>1, <1>2, <1>3, StoreSteps DEF vars, store

(* Pending changes are one user's, who is logged in and owns the           *)
(* transaction, unless another user's "set" may create nodes.              *)
THEOREM OneAuthorCorrect ==
    ASSUME ~ForeignSet
    PROVE  Spec => []OneAuthor
<1>1. Owned /\ OwnChanges => OneAuthor
  BY DEF Owned, OwnChanges, OneAuthor
<1>2. Typed /\ Owned /\ OwnChanges /\ [Next]_vars => Owned' /\ OwnChanges'
  BY NextOwned, NextOwnChanges
<1> QED  BY <1>1, <1>2, InitOwned, AlwaysTyped, PTL DEF Spec

(* The configuration file. *)
LEMMA InitBase == Init => FileIsBase
<1> SUFFICES ASSUME Init PROVE FileIsBase
  OBVIOUS
<1>1. file \in Contents /\ tree = Loaded(file)
  BY FileAssumption DEF Init
<1> QED  BY <1>1, LoadedTree, Cleaned, CleanTree, ShownLoaded DEF FileIsBase

LEMMA NextBase ==
    ASSUME ~LoadOverNew, FALSE \notin LogUsable
    PROVE  Typed /\ Owned /\ FileIsBase /\ [Next]_vars => FileIsBase'
<1> SUFFICES ASSUME Typed, Owned, FileIsBase, [Next]_vars PROVE FileIsBase'
  OBVIOUS
<1>1. ASSUME NEW u \in User, Command(u) PROVE FileIsBase'
  BY <1>1, TypedStore, CommandBase
<1>2. CASE UserTimeout
  <2>1. tree \in Tree
    BY DEF Typed
  <2>2. Discarded(Discarded(tree)) = Discarded(tree)
    BY <2>1, DiscardedTree, Cleaned, CleanTree
  <2> QED  BY <1>2, <2>2 DEF UserTimeout, FileIsBase
<1>3. CASE Restart
  <2>1. file \in Contents
    BY DEF Typed, TypeOK
  <2>2. Discarded(Loaded(file)) = Loaded(file)
    BY <2>1, LoadedTree, Cleaned, CleanTree
  <2> QED  BY <1>3, <2>1, <2>2, ShownLoaded DEF Restart, FileIsBase
<1>4. CASE UNCHANGED <<store, wn>>
  BY <1>4 DEF store, FileIsBase
<1> QED  BY <1>1, <1>2, <1>3, <1>4, StoreSteps DEF vars, store

(* Between transactions the tree is what the file holds, unless a commit   *)
(* finds no room for its rollback file or "load" names a node that is new. *)
THEOREM TreeCorrect ==
    ASSUME ~LoadOverNew, FALSE \notin LogUsable
    PROVE  Spec => []TreeIsFile
<1>1. Typed /\ Owned /\ FileIsBase => TreeIsFile
  BY CleanTree DEF Typed, Owned, FileIsBase, TreeIsFile
<1>2. Typed /\ Owned /\ FileIsBase /\ [Next]_vars => Owned' /\ FileIsBase'
  BY NextOwned, NextBase
<1> QED  BY <1>1, <1>2, InitOwned, InitBase, AlwaysTyped, PTL DEF Spec

(* Pointers into the tree. *)
LEMMA InitPath == Init => PathInv
BY MarkAssumption DEF Init, PathInv, NoDanglingPath, NewIsOwners, Node

LEMMA NextPath == Typed /\ Owned /\ PathInv /\ [Next]_vars => PathInv'
<1> SUFFICES ASSUME Typed, Owned, PathInv, [Next]_vars PROVE PathInv'
  OBVIOUS
<1>1. ASSUME NEW u \in User, Command(u) PROVE PathInv'
  BY <1>1, TypedStore, CommandPath
<1>2. CASE UserTimeout
  <2>1. \A x \in User : wn'[x] \in {wn[x], NoUser}
    BY <1>2 DEF UserTimeout
  <2>2. CASE txn.on /\ txn.owner \notin Expired
    BY <1>2, <2>1, <2>2, MarkAssumption
    DEF UserTimeout, PathInv, NoDanglingPath, NewIsOwners, Present
  <2>3. CASE ~(txn.on /\ txn.owner \notin Expired)
    <3>1. tree' = Discarded(tree)
      BY <1>2, <2>3 DEF UserTimeout
    <3>2. ASSUME NEW x \in User, wn'[x] \in Node
          PROVE  wn'[x] \in Present(Discarded(tree)) /\ ~Discarded(tree)[wn'[x]].is_new
      <4>1. wn'[x] = wn[x] /\ x \notin Expired
        BY <1>2, <3>2, MarkAssumption DEF UserTimeout
      <4>2. wn[x] \in Present(tree) /\ ~tree[wn[x]].is_new
        BY <2>3, <3>2, <4>1, MarkAssumption DEF PathInv, NoDanglingPath, NewIsOwners
      <4> QED  BY <4>1, <4>2, DiscardKeeps DEF Typed
    <3>3. \A x \in User : wn'[x] \in Node \cup {Root, NoUser}
      BY <2>1 DEF Typed, TypeOK, Node
    <3> QED  BY <3>1, <3>2, <3>3 DEF PathInv, NoDanglingPath, NewIsOwners
  <2> QED  BY <2>2, <2>3
<1>3. CASE Restart
  BY <1>3, MarkAssumption DEF Restart, PathInv, NoDanglingPath, NewIsOwners
<1>4. CASE UNCHANGED <<store, wn>>
  BY <1>4 DEF store, PathInv, NoDanglingPath, NewIsOwners, Present
<1> QED  BY <1>1, <1>2, <1>3, <1>4, StoreSteps DEF vars, store

(* Results that are still to be sent, and the lock that protects them.     *)
ResultInv == OpenHasLock /\ NoDanglingResult

LEMMA InitResult == Init => ResultInv
BY DEF Init, ResultInv, OpenHasLock, NoDanglingResult

LEMMA NextResult ==
    ASSUME ~SlowPeer,
           \A s, t \in Stream : ClientOf[s] = ClientOf[t] => s = t
    PROVE  Typed /\ Owned /\ ResultInv /\ [Next]_vars => ResultInv'
<1> SUFFICES ASSUME Typed, Owned, ResultInv, [Next]_vars PROVE ResultInv'
  OBVIOUS
<1> USE DEF ResultInv, OpenHasLock, NoDanglingResult
<1>1. \A s \in Stream : ClientOf[s] \in Client /\ ClientOf[s] # Nobody
  BY ClientAssumption, MarkAssumption
<1>2. strm \in [Stream -> [pc : {"closed", "refused", "waiting", "open", "cut"},
                          user : User \cup {NoUser}, res : SUBSET Node]]
  BY DEF Typed, TypeOK
<1>3. ASSUME NEW s \in Stream, Arrive(s) PROVE ResultInv'
  BY <1>2, <1>3 DEF Arrive, store, Present
<1>4. ASSUME NEW s \in Stream, Serve(s) PROVE ResultInv'
  <2>1. Locks(s) /\ (Opened(s, {}) \/ Opened(s, Present(tree)))
    BY <1>4, ServeStep
  <2>2. ASSUME NEW t \in Stream PROVE strm[t].pc # "open"
    BY <1>1, <2>1 DEF Locks
  <2>3. Opened(s, {}) \/ UNCHANGED tree
    BY <1>4 DEF Serve, Enter, Replicate, Show, Look, store
  <2> QED  BY <1>2, <2>1, <2>2, <2>3 DEF Locks, Opened, Present
<1>5. ASSUME NEW s \in Stream, Next1(s) PROVE ResultInv'
  BY <1>2, <1>5 DEF Next1, store, Present
<1>6. ASSUME NEW s \in Stream, Done(s) PROVE ResultInv'
  BY <1>1, <1>2, <1>6 DEF Done, Unlocked, store, Present
<1>7. ASSUME NEW c \in Client, Idle(c) \/ Down(c) PROVE ResultInv'
  BY <1>2, <1>7 DEF Idle, Down, Unlocked, OpenAt, store, Present
<1>8. ASSUME NEW u \in User, Age(u) PROVE ResultInv'
  BY <1>8 DEF Age, store, Present
<1>9. CASE UserTimeout
  BY <1>1, <1>9 DEF UserTimeout
<1>10. CASE Restart
  BY <1>10 DEF Restart
<1>11. CASE UNCHANGED vars
  BY <1>11 DEF vars, store, Present
<1> QED  BY <1>3, <1>4, <1>5, <1>6, <1>7, <1>8, <1>9, <1>10, <1>11 DEF Next

(* No working node and no result that is to be sent outlives its node, if  *)
(* an association has one request at a time and is not idle during one.    *)
THEOREM PointersCorrect ==
    ASSUME ~SlowPeer,
           \A s, t \in Stream : ClientOf[s] = ClientOf[t] => s = t
    PROVE  Spec => []NoDanglingPointer
<1>1. Typed /\ PathInv /\ ResultInv => NoDanglingPointer
  BY DEF Typed, PathInv, ResultInv, NoDanglingPointer
<1>2. /\ Typed /\ Owned /\ PathInv /\ ResultInv /\ [Next]_vars
      => Owned' /\ PathInv' /\ ResultInv'
  BY NextOwned, NextPath, NextResult
<1> QED  BY <1>1, <1>2, InitOwned, InitPath, InitResult, AlwaysTyped, PTL DEF Spec
=============================================================================
