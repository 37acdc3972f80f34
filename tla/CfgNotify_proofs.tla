-------------------------- MODULE CfgNotify_proofs --------------------------
(***************************************************************************)
(* What holds of the notifications with any number of users, items and     *)
(* commits: the table of users follows the associations, updates are       *)
(* applied as a whole, and a subscriber that has missed nothing has the    *)
(* committed values when no update is on its way.                          *)
(***************************************************************************)
EXTENDS CfgNotify, FiniteSetTheorems, SequenceTheorems, WellFoundedInduction, TLAPS

(***************************************************************************)
(* The invariants.                                                         *)
(***************************************************************************)
Entry == [id : User, live : BOOLEAN]

Typed ==
    /\ cfg \in Values /\ ntf \in [made : BOOLEAN, lst : SUBSET Change]
    /\ users \in Seq(Entry) /\ lock \in User \cup {"none", "commit"}
    /\ streams \subseteq Stream
    /\ sub \in [User -> Subscriber] /\ conn \in [User -> BOOLEAN]
    /\ commits \in 0 .. MaxCommits /\ faults \in 0 .. MaxFaults
    /\ lock = "commit" => commits > 0

(* The table follows the associations. *)
Table ==
    /\ ListedOnce
    /\ \A k \in DOMAIN users : users[k].live => conn[users[k].id]
    /\ \A s \in streams : conn[s.user]

(* All items have been sent before the END, and a stream is cut short only *)
(* when the daemon has given it up.                                        *)
Shape == \A s \in streams : /\ s.pc = "end" => s.left = {}
                            /\ s.pc = "cut" => ~s.here

(* What is told of an item is its value, unless it has been changed since. *)
Now(i) == [item |-> i, value |-> cfg[i]]
Latest(cs, no) ==
    \A c \in cs : /\ c.value <= no /\ c.value <= cfg[c.item]
                  /\ Now(c.item) \in cs \/ cfg[c.item] > no

History ==
    /\ \A i \in Item : cfg[i] <= commits
    /\ Latest(ntf.lst, commits) /\ (ntf.made \/ ntf.lst = {})
    /\ \A s \in streams : s.no <= commits /\ Latest(s.left \cup s.got, s.no)
    /\ \A u \in User : sub[u].snapno <= commits

(* The change that made an item what it is has yet to reach the user.      *)
Pending(u, i) ==
    \/ \E s \in streams : s.user = u /\ s.here /\ Now(i) \in s.left \cup s.got
    \/ lock = "commit" /\ Now(i) \in ntf.lst

Listed(u) ==
    ntf.made /\ \E k \in DOMAIN users : users[k].id = u /\ users[k].live

(* A subscriber that has missed nothing will hear of what it does not know.*)
Follows(u) ==
    conn[u] /\ ~sub[u].mishap =>
      /\ sub[u].pc # "out" => Listed(u)
      /\ sub[u].pc \in {"getting", "got"} =>
           \A i \in Item :
              /\ sub[u].snap[i] <= sub[u].snapno
              /\ \/ sub[u].snap[i] = cfg[i]
                 \/ /\ cfg[i] > sub[u].snapno
                    /\ Pending(u, i) \/ sub[u].seen > sub[u].snapno
      /\ sub[u].pc = "in" =>
           \A i \in Item : /\ sub[u].cfg[i] <= sub[u].seen
                           /\ sub[u].cfg[i] = cfg[i] \/ Pending(u, i)

Informed == \A u \in User : Follows(u)

-----------------------------------------------------------------------------
(* Sequences of which some positions are kept.                             *)

LEMMA LeastNatural ==
    ASSUME NEW T \in SUBSET Nat, T # {}
    PROVE  \E x \in T : \A y \in T : x <= y
<1> DEFINE R == OpToRel(<, Nat)
<1>1. IsWellFoundedOn(R, Nat)
  BY NatLessThanWellFounded
<1>2. \A x, y \in Nat : y < x => <<y, x>> \in R
  BY DEF OpToRel
<1> HIDE DEF R
<1>3. PICK x \in T : \A y \in T : ~ (<<y, x>> \in R)
  BY <1>1, WFMin
<1>4. ASSUME NEW y \in T PROVE x <= y
  <2>1. x \in Nat /\ y \in Nat /\ ~ (y < x)
    BY <1>2, <1>3
  <2> QED  BY <2>1
<1> QED  BY <1>4

(* The place of k among ks. *)
Rank(ks, k) == Cardinality({j \in ks : j <= k})

LEMMA Ranks ==
    ASSUME NEW L \in Nat, NEW ks \in SUBSET (1 .. L)
    PROVE  /\ IsFiniteSet(ks) /\ Cardinality(ks) \in Nat
           /\ \A k \in ks : Rank(ks, k) \in 1 .. Cardinality(ks)
           /\ \A j, k \in ks : Rank(ks, j) = Rank(ks, k) => j = k
           /\ \A n \in 1 .. Cardinality(ks) : \E k \in ks : Rank(ks, k) = n
<1>0. \A j \in ks : j \in Nat /\ 1 <= j /\ j <= L
  OBVIOUS
<1>1. IsFiniteSet(ks) /\ Cardinality(ks) \in Nat
  <2>1. IsFiniteSet(1 .. L)
    BY FS_Interval
  <2> QED  BY <2>1, FS_Subset, FS_CardinalityType
<1>2. ASSUME NEW k \in Nat
      PROVE  /\ IsFiniteSet({j \in ks : j <= k}) /\ Rank(ks, k) \in Nat
             /\ Rank(ks, k) <= Cardinality(ks)
  <2>1. {j \in ks : j <= k} \subseteq ks
    OBVIOUS
  <2> QED  BY <1>1, <2>1, FS_Subset, FS_CardinalityType DEF Rank
<1>3. ASSUME NEW k \in Nat
      PROVE  /\ k + 1 \in ks => Rank(ks, k + 1) = Rank(ks, k) + 1
             /\ k + 1 \notin ks => Rank(ks, k + 1) = Rank(ks, k)
  <2>0. ASSUME NEW j \in ks PROVE j <= k + 1 <=> j <= k \/ j = k + 1
    <3>1. j \in Nat
      BY <1>0
    <3> QED  BY <3>1
  <2>1. k + 1 \in ks => {j \in ks : j <= k + 1} = {j \in ks : j <= k} \cup {k + 1}
    BY <2>0
  <2>2. k + 1 \notin ks => {j \in ks : j <= k + 1} = {j \in ks : j <= k}
    BY <2>0
  <2>3. k + 1 \notin {j \in ks : j <= k}
    OBVIOUS
  <2>4. IsFiniteSet({j \in ks : j <= k})
    BY <1>2
  <2>5. Cardinality({j \in ks : j <= k} \cup {k + 1})
          = Cardinality({j \in ks : j <= k}) + 1
    BY <2>3, <2>4, FS_AddElement
  <2> QED  BY <2>1, <2>2, <2>5 DEF Rank
<1>4. ASSUME NEW k \in ks PROVE Rank(ks, k) \in 1 .. Cardinality(ks)
  <2>1. k \in Nat /\ k \in {j \in ks : j <= k}
    BY <1>0
  <2>2. Rank(ks, k) # 0
    BY <1>2, <2>1, FS_EmptySet DEF Rank
  <2>3. Rank(ks, k) \in Nat /\ Rank(ks, k) <= Cardinality(ks)
    BY <1>2, <2>1
  <2> QED  BY <1>1, <2>2, <2>3
<1>5. ASSUME NEW j \in ks, NEW k \in ks, j < k PROVE Rank(ks, j) # Rank(ks, k)
  <2>1. {i \in ks : i <= j} \subseteq {i \in ks : i <= k}
    <3>1. ASSUME NEW i \in ks, i <= j PROVE i <= k
      <4>1. i \in Nat /\ j \in Nat /\ k \in Nat
        BY <1>0
      <4> QED  BY <1>5, <3>1, <4>1
    <3> QED  BY <3>1
  <2>2. k \in {i \in ks : i <= k} \ {i \in ks : i <= j}
    <3>1. j \in Nat /\ k \in Nat
      BY <1>0
    <3> QED  BY <1>5, <3>1
  <2>3. IsFiniteSet({i \in ks : i <= k})
    BY <1>0, <1>2
  <2> QED  BY <2>1, <2>2, <2>3, FS_Subset DEF Rank
<1>6. ASSUME NEW n \in 1 .. Cardinality(ks) PROVE \E k \in ks : Rank(ks, k) = n
  <2> DEFINE T == {m \in Nat : Rank(ks, m) >= n}
  <2>1. Rank(ks, L) = Cardinality(ks)
    <3>1. {j \in ks : j <= L} = ks
      BY <1>0
    <3> QED  BY <3>1 DEF Rank
  <2>2. Rank(ks, 0) = 0
    <3>1. ASSUME NEW j \in ks PROVE ~ (j <= 0)
      <4>1. j \in Nat /\ 1 <= j
        BY <1>0
      <4> QED  BY <4>1
    <3> QED  BY <3>1, FS_EmptySet DEF Rank
  <2>3. L \in T
    BY <1>1, <2>1
  <2>4. PICK m \in T : \A y \in T : m <= y
    BY <2>3, LeastNatural
  <2>5. m # 0
    BY <2>2
  <2>6. m - 1 \in Nat /\ m - 1 \notin T
    BY <2>4, <2>5
  <2>7. Rank(ks, m - 1) \in Nat /\ Rank(ks, m - 1) < n
    <3>1. Rank(ks, m - 1) \in Nat
      BY <1>2, <2>6
    <3>2. ~ (Rank(ks, m - 1) >= n)
      BY <2>6
    <3> QED  BY <3>1, <3>2
  <2>8. /\ m \in ks => Rank(ks, m) = Rank(ks, m - 1) + 1
        /\ m \notin ks => Rank(ks, m) = Rank(ks, m - 1)
    <3>1. (m - 1) + 1 = m
      OBVIOUS
    <3> QED  BY <1>3, <2>6, <3>1
  <2> QED  BY <1>2, <2>7, <2>8
<1>7. \A j, k \in ks : Rank(ks, j) = Rank(ks, k) => j = k
  BY <1>0, <1>5
<1> QED  BY <1>1, <1>4, <1>6, <1>7

(* The entries that are kept are those at the positions ks, each once.     *)
LEMMA KeptIs ==
    ASSUME NEW S, NEW s \in Seq(S), NEW ks \in SUBSET DOMAIN s
    PROVE  /\ Kept(s, ks) \in Seq(S)
           /\ \E f : /\ \A n \in DOMAIN Kept(s, ks) :
                          f[n] \in ks /\ Kept(s, ks)[n] = s[f[n]]
                     /\ \A m, n \in DOMAIN Kept(s, ks) : f[m] = f[n] => m = n
                     /\ \A k \in ks : \E n \in DOMAIN Kept(s, ks) : f[n] = k
<1> DEFINE f == [n \in 1 .. Cardinality(ks) |-> CHOOSE k \in ks : Rank(ks, k) = n]
<1>1. /\ Len(s) \in Nat /\ DOMAIN s = 1 .. Len(s) /\ \A k \in DOMAIN s : s[k] \in S
  OBVIOUS
<1>2. /\ Cardinality(ks) \in Nat
      /\ \A k \in ks : Rank(ks, k) \in 1 .. Cardinality(ks)
      /\ \A j, k \in ks : Rank(ks, j) = Rank(ks, k) => j = k
      /\ \A n \in 1 .. Cardinality(ks) : \E k \in ks : Rank(ks, k) = n
  BY <1>1, Ranks
<1>3. \A n \in 1 .. Cardinality(ks) : f[n] \in ks /\ Rank(ks, f[n]) = n
  BY <1>2
<1>4. Kept(s, ks) = [n \in 1 .. Cardinality(ks) |-> s[f[n]]]
  BY DEF Kept, Rank
<1> HIDE DEF f
<1>5. Kept(s, ks) \in [1 .. Cardinality(ks) -> S]
  BY <1>1, <1>3, <1>4
<1>6. Kept(s, ks) \in Seq(S)
  BY <1>2, <1>5, IsASeq
<1>7. \A m, n \in DOMAIN Kept(s, ks) : f[m] = f[n] => m = n
  BY <1>3, <1>4
<1>8. \A k \in ks : \E n \in DOMAIN Kept(s, ks) : f[n] = k
  BY <1>2, <1>3, <1>4
<1> QED  BY <1>3, <1>4, <1>6, <1>7, <1>8

LEMMA MaxIs ==
    ASSUME NEW N \in Nat, NEW T \in SUBSET (0 .. N), T # {}
    PROVE  Max(T) \in T /\ \A y \in T : y <= Max(T)
<1> DEFINE U == {N - y : y \in T}
<1>1. U \in SUBSET Nat /\ U # {}
  <2>1. ASSUME NEW y \in T PROVE N - y \in Nat
    <3>1. y \in 0 .. N
      OBVIOUS
    <3> QED  BY <3>1
  <2> QED  BY <2>1
<1>2. PICK z \in U : \A y \in U : z <= y
  BY <1>1, LeastNatural
<1>3. PICK x \in T : z = N - x
  OBVIOUS
<1>4. ASSUME NEW y \in T PROVE x >= y
  <2>1. N - x <= N - y
    BY <1>2, <1>3
  <2>2. x \in 0 .. N /\ y \in 0 .. N
    OBVIOUS
  <2> QED  BY <2>1, <2>2
<1>5. Max(T) \in T /\ \A y \in T : Max(T) >= y
  BY <1>4 DEF Max
<1>6. ASSUME NEW y \in T PROVE y <= Max(T)
  <2>1. Max(T) \in 0 .. N /\ y \in 0 .. N /\ Max(T) >= y
    BY <1>5
  <2> QED  BY <2>1
<1> QED  BY <1>5, <1>6

-----------------------------------------------------------------------------
(* Records. *)

Pcs == {"start", "ask", "item", "end", "cut", "error"}

LEMMA StreamType ==
    ASSUME NEW s \in Stream
    PROVE  /\ \A pc \in Pcs : [s EXCEPT !.pc = pc] \in Stream
           /\ [s EXCEPT !.pc = "ask", !.there = TRUE] \in Stream
           /\ \A c \in Change : [s EXCEPT !.pc = "ask", !.left = @ \ {c},
                                            !.got = @ \cup {c}] \in Stream
           /\ [s EXCEPT !.here = FALSE] \in Stream
           /\ [s EXCEPT !.there = FALSE] \in Stream
BY DEF Stream, Pcs

LEMMA MishapIs ==
    ASSUME sub \in [User -> Subscriber], NEW us
    PROVE  /\ Mishap(us) \in [User -> Subscriber]
           /\ \A u \in User :
                /\ Mishap(us)[u].pc = sub[u].pc /\ Mishap(us)[u].cfg = sub[u].cfg
                /\ Mishap(us)[u].seen = sub[u].seen
                /\ Mishap(us)[u].snap = sub[u].snap
                /\ Mishap(us)[u].snapno = sub[u].snapno
                /\ sub[u].mishap => Mishap(us)[u].mishap
                /\ u \in us /\ sub[u].pc # "out" => Mishap(us)[u].mishap
BY DEF Mishap, Subscriber

(* What an update makes of an item.                                        *)
LEMMA AppliedIs ==
    ASSUME NEW v \in Values, NEW s \in Stream
    PROVE  /\ Applied(v, s) \in Values
           /\ \A i \in Item :
                \/ /\ \A c \in s.got : c.item # i
                   /\ Applied(v, s)[i] = v[i]
                \/ \E c \in s.got : /\ c.item = i /\ Applied(v, s)[i] = c.value
                                    /\ \A d \in s.got : d.item = i => d.value <= c.value
<1>1. s.got \subseteq Change
  BY DEF Stream
<1>2. ASSUME NEW i \in Item
      PROVE  /\ Applied(v, s)[i] \in 0 .. MaxCommits
             /\ \/ /\ \A c \in s.got : c.item # i
                   /\ Applied(v, s)[i] = v[i]
                \/ \E c \in s.got : /\ c.item = i /\ Applied(v, s)[i] = c.value
                                    /\ \A d \in s.got : d.item = i => d.value <= c.value
  <2> DEFINE got == {c.value : c \in {d \in s.got : d.item = i}}
  <2>1. Applied(v, s)[i] = IF got = {} THEN v[i] ELSE Max(got)
    BY DEF Applied
  <2>2. CASE got = {}
    <3>1. \A c \in s.got : c.item # i
      BY <2>2
    <3> QED  BY <2>1, <2>2, <3>1 DEF Values
  <2>3. CASE got # {}
    <3>1. MaxCommits \in Nat /\ got \in SUBSET (0 .. MaxCommits)
      BY <1>1, BoundsAssumption DEF Change
    <3>2. Max(got) \in got /\ \A y \in got : y <= Max(got)
      BY <2>3, <3>1, MaxIs
    <3>3. PICK c \in s.got : c.item = i /\ Max(got) = c.value
      BY <3>2
    <3>4. \A d \in s.got : d.item = i => d.value <= c.value
      BY <3>2, <3>3
    <3> QED  BY <2>1, <2>3, <3>1, <3>2, <3>3, <3>4
  <2> QED  BY <2>2, <2>3
<1> QED  BY <1>2 DEF Values, Applied

LEMMA ApplyIs ==
    ASSUME Typed, NEW s \in streams, Apply(s)
    PROVE  /\ sub' \in [User -> Subscriber]
           /\ s \in Stream /\ s.user \in User
           /\ \A u \in User \ {s.user} : sub'[u] = sub[u]
           /\ sub'[s.user].cfg = Applied(sub[s.user].cfg, s)
           /\ sub'[s.user].pc = sub[s.user].pc
           /\ sub'[s.user].snap = sub[s.user].snap
           /\ sub'[s.user].snapno = sub[s.user].snapno
           /\ sub'[s.user].seen = IF sub[s.user].seen > s.no THEN sub[s.user].seen
                                  ELSE s.no
           /\ sub'[s.user].mishap <=> \/ sub[s.user].mishap
                                      \/ sub[s.user].seen > s.no \/ s.left # {}
<1> DEFINE u == s.user  x == sub[s.user]
<1>1. s \in Stream /\ u \in User /\ x \in Subscriber /\ s.no \in 1 .. MaxCommits
  BY DEF Typed, Stream
<1>2. Applied(x.cfg, s) \in Values
  BY <1>1, AppliedIs DEF Subscriber
<1> DEFINE seen == IF x.seen > s.no THEN x.seen ELSE s.no
           missed == x.mishap \/ x.seen > s.no \/ s.left # {}
           new == Applied(x.cfg, s)
           y == [x EXCEPT !.cfg = new, !.seen = seen, !.mishap = missed]
<1>3. sub' = [sub EXCEPT ![u] = y]
  BY <1>1 DEF Apply, Typed
<1>4. seen \in 0 .. MaxCommits /\ missed \in BOOLEAN
  <2>1. x.seen \in 0 .. MaxCommits /\ x.mishap \in BOOLEAN
    BY <1>1 DEF Subscriber
  <2> QED  BY <1>1, <2>1, BoundsAssumption
<1> HIDE DEF seen, missed, new
<1>5. y \in Subscriber
  BY <1>1, <1>2, <1>4 DEF Subscriber, new
<1>6. /\ y.cfg = new /\ y.pc = x.pc /\ y.snap = x.snap
      /\ y.snapno = x.snapno /\ y.seen = seen /\ y.mishap = missed
  BY <1>1 DEF Subscriber
<1>7. /\ sub' \in [User -> Subscriber] /\ sub'[u] = y
      /\ \A v \in User \ {u} : sub'[v] = sub[v]
  BY <1>1, <1>3, <1>5 DEF Typed
<1> HIDE DEF y
<1> QED  BY <1>1, <1>6, <1>7 DEF seen, missed, new

-----------------------------------------------------------------------------
(* The table of users. *)

Distinct(es) == \A k, l \in DOMAIN es : es[k].id = es[l].id => k = l

LEMMA KeptUsers ==
    ASSUME users \in Seq(Entry), ListedOnce, NEW ks \in SUBSET DOMAIN users
    PROVE  /\ Kept(users, ks) \in Seq(Entry) /\ Distinct(Kept(users, ks))
           /\ \A n \in DOMAIN Kept(users, ks) : \E k \in ks : Kept(users, ks)[n] = users[k]
           /\ \A k \in ks : \E n \in DOMAIN Kept(users, ks) : Kept(users, ks)[n] = users[k]
<1>1. Kept(users, ks) \in Seq(Entry)
  BY KeptIs
<1>2. PICK f : /\ \A n \in DOMAIN Kept(users, ks) :
                    f[n] \in ks /\ Kept(users, ks)[n] = users[f[n]]
               /\ \A m, n \in DOMAIN Kept(users, ks) : f[m] = f[n] => m = n
               /\ \A k \in ks : \E n \in DOMAIN Kept(users, ks) : f[n] = k
  BY KeptIs
<1>3. Distinct(Kept(users, ks))
  <2>1. ASSUME NEW m \in DOMAIN Kept(users, ks), NEW n \in DOMAIN Kept(users, ks),
               Kept(users, ks)[m].id = Kept(users, ks)[n].id
        PROVE  m = n
    <3>1. users[f[m]].id = users[f[n]].id /\ f[m] \in DOMAIN users /\ f[n] \in DOMAIN users
      BY <1>2, <2>1
    <3> QED  BY <1>2, <2>1, <3>1 DEF ListedOnce
  <2> QED  BY <2>1 DEF Distinct
<1> QED  BY <1>1, <1>2, <1>3

(* There are no more entries than users. *)
LEMMA ListBound ==
    ASSUME NEW es \in Seq(Entry), Distinct(es)
    PROVE  Len(es) \in Nat /\ DOMAIN es = 1 .. Len(es) /\ Len(es) <= Cardinality(User)
<1> DEFINE f == [k \in 1 .. Len(es) |-> es[k].id]
<1>1. Len(es) \in Nat /\ DOMAIN es = 1 .. Len(es) /\ \A k \in DOMAIN es : es[k] \in Entry
  OBVIOUS
<1>2. f \in [1 .. Len(es) -> User]
  BY <1>1 DEF Entry
<1>3. f \in Injection(1 .. Len(es), User)
  BY <1>1, <1>2 DEF Injection, IsInjective, Distinct
<1>4. Cardinality(1 .. Len(es)) <= Cardinality(User)
  BY <1>3, BoundsAssumption, FS_Injection
<1>5. Cardinality(1 .. Len(es)) = Len(es)
  <2>1. Cardinality(1 .. Len(es)) = IF 1 > Len(es) THEN 0 ELSE Len(es) - 1 + 1
    BY <1>1, FS_Interval
  <2> QED  BY <1>1, <2>1
<1> QED  BY <1>1, <1>4, <1>5

LEMMA WithoutIs ==
    ASSUME users \in Seq(Entry), ListedOnce, NEW u
    PROVE  /\ Without(u) \in Seq(Entry) /\ Distinct(Without(u))
           /\ \A n \in DOMAIN Without(u) : \E k \in DOMAIN users :
                Without(u)[n] = users[k] /\ users[k].id # u
           /\ \A k \in DOMAIN users : users[k].id # u =>
                \E n \in DOMAIN Without(u) : Without(u)[n] = users[k]
<1> DEFINE ks == {k \in DOMAIN users : users[k].id # u}
<1>1. ks \in SUBSET DOMAIN users /\ Without(u) = Kept(users, ks)
  BY DEF Without
<1>2. /\ Kept(users, ks) \in Seq(Entry) /\ Distinct(Kept(users, ks))
      /\ \A n \in DOMAIN Kept(users, ks) : \E k \in ks : Kept(users, ks)[n] = users[k]
      /\ \A k \in ks : \E n \in DOMAIN Kept(users, ks) : Kept(users, ks)[n] = users[k]
  BY <1>1, KeptUsers
<1> QED  BY <1>1, <1>2

LEMMA RegisteredIs ==
    ASSUME users \in Seq(Entry), ListedOnce, NEW u \in User
    PROVE  /\ Registered(u) \in Seq(Entry) /\ Distinct(Registered(u))
           /\ \A n \in DOMAIN Registered(u) :
                \/ Registered(u)[n] = [id |-> u, live |-> TRUE]
                \/ \E k \in DOMAIN users : Registered(u)[n] = users[k] /\ users[k].id # u
           /\ \E n \in DOMAIN Registered(u) : Registered(u)[n] = [id |-> u, live |-> TRUE]
           /\ \A k \in DOMAIN users : users[k].id # u =>
                \E n \in DOMAIN Registered(u) : Registered(u)[n] = users[k]
<1> DEFINE w == Without(u)  e == [id |-> u, live |-> TRUE]  r == Append(w, e)
<1>1. /\ w \in Seq(Entry) /\ Distinct(w)
      /\ \A n \in DOMAIN w : \E k \in DOMAIN users : w[n] = users[k] /\ users[k].id # u
      /\ \A k \in DOMAIN users : users[k].id # u => \E n \in DOMAIN w : w[n] = users[k]
  BY WithoutIs
<1>2. e \in Entry /\ e.id = u
  BY DEF Entry
<1> HIDE DEF w, e
<1>3. /\ r \in Seq(Entry) /\ Len(w) \in Nat /\ DOMAIN w = 1 .. Len(w)
      /\ DOMAIN r = 1 .. Len(w) + 1
      /\ \A n \in 1 .. Len(w) : r[n] = w[n]
      /\ r[Len(w) + 1] = e
  BY <1>1, <1>2, AppendProperties
<1> HIDE DEF r
<1>4. Distinct(r)
  <2>1. ASSUME NEW m \in DOMAIN r, NEW n \in DOMAIN r, r[m].id = r[n].id, m # n
        PROVE  FALSE
    <3>1. \A k \in DOMAIN w : r[k] = w[k] /\ w[k].id # u
      BY <1>1, <1>3
    <3>2. CASE m \in DOMAIN w /\ n \in DOMAIN w
      BY <1>1, <2>1, <3>1, <3>2 DEF Distinct
    <3>3. CASE m \notin DOMAIN w
      <4>1. m = Len(w) + 1 /\ n \in DOMAIN w
        BY <1>3, <2>1, <3>3
      <4> QED  BY <1>2, <1>3, <2>1, <3>1, <4>1
    <3>4. CASE n \notin DOMAIN w
      <4>1. n = Len(w) + 1 /\ m \in DOMAIN w
        BY <1>3, <2>1, <3>4
      <4> QED  BY <1>2, <1>3, <2>1, <3>1, <4>1
    <3> QED  BY <3>2, <3>3, <3>4
  <2> QED  BY <2>1 DEF Distinct
<1>5. \A n \in DOMAIN r :
        r[n] = e \/ \E k \in DOMAIN users : r[n] = users[k] /\ users[k].id # u
  <2>1. ASSUME NEW n \in DOMAIN r PROVE n \in DOMAIN w \/ n = Len(w) + 1
    BY <1>3
  <2> QED  BY <1>1, <1>3, <2>1
<1>6. \E n \in DOMAIN r : r[n] = e
  <2>1. Len(w) + 1 \in DOMAIN r
    BY <1>3
  <2> QED  BY <1>3, <2>1
<1>7. ASSUME NEW k \in DOMAIN users, users[k].id # u
      PROVE  \E n \in DOMAIN r : r[n] = users[k]
  <2>1. PICK n \in DOMAIN w : w[n] = users[k]
    BY <1>1, <1>7
  <2>2. n \in DOMAIN r /\ r[n] = w[n]
    BY <1>3
  <2> QED  BY <2>1, <2>2
<1> QED  BY <1>3, <1>4, <1>5, <1>6, <1>7 DEF r, w, e, Registered

-----------------------------------------------------------------------------
(* What becomes of an update stream: it goes on, it is lost, it arrives, or*)
(* the daemon drops a user because of it.                                  *)

Continues(s, t) ==
    /\ t \in Stream /\ t.user = s.user /\ t.no = s.no
    /\ t.left \cup t.got = s.left \cup s.got
    /\ t.pc = "end" => t.left = {}
    /\ t.pc = "cut" => ~t.here

GoesOn(s, t) ==
    /\ Continues(s, t) /\ Moved(s, t) /\ UNCHANGED <<users, lock>>
    /\ \/ sub' = sub /\ t.here = s.here
       \/ sub' = Mishap({s.user})

IsLost(s) ==
    /\ Ended(s) /\ UNCHANGED <<users, lock>>
    /\ \/ sub' = sub /\ ~s.here
       \/ sub' = Mishap({s.user})

Arrives(s) ==
    /\ Ended(s) /\ Apply(s) /\ UNCHANGED <<users, lock>>
    /\ s.left = {} \/ ~s.here

Drops(s, u) ==
    /\ Ended(s) /\ lock \in {"none", s.user} /\ lock' = "none"
    /\ users' = Without(u) /\ sub' = Mishap({u, s.user})

LEMMA Streams ==
    ASSUME Typed, Shape, NEW s \in streams, Packet(s) \/ Trouble(s)
    PROVE  /\ UNCHANGED <<cfg, ntf, conn, commits>> /\ faults' \in 0 .. MaxFaults
           /\ \/ \E t : GoesOn(s, t)
              \/ IsLost(s) \/ Arrives(s)
              \/ \E u \in User : Drops(s, u)
<1>0. s \in Stream /\ s.user \in User /\ s.left \subseteq Change
  BY DEF Typed, Stream
<1>1. UNCHANGED <<cfg, ntf, conn, commits>> /\ faults' \in 0 .. MaxFaults
  <2>1. /\ UNCHANGED <<cfg, ntf, conn, commits>>
        /\ faults' = faults \/ (faults < MaxFaults /\ faults' = faults + 1)
    BY DEF Packet, Trouble, Accept, Ask, TakeItem, TakeEnd, TakeCut, TakeError,
         NoRoute, TimeoutHere, TimeoutThere
  <2>2. faults \in 0 .. MaxFaults /\ MaxFaults \in Nat
    BY BoundsAssumption DEF Typed
  <2> QED  BY <2>1, <2>2
<1>2. CASE Accept(s)
  <2>1. CASE sub[s.user].handler
    <3> DEFINE t == [s EXCEPT !.pc = "ask", !.there = TRUE]
    <3>1. t \in Stream
      BY <1>0, StreamType
    <3>2. Continues(s, t) /\ t.here = s.here
      BY <1>0, <3>1 DEF Continues, Stream
    <3> HIDE DEF t
    <3>3. Moved(s, t) /\ UNCHANGED <<users, lock, sub>>
      BY <1>2, <2>1 DEF Accept, t
    <3> QED  BY <1>1, <3>2, <3>3 DEF GoesOn
  <2>2. CASE ~sub[s.user].handler
    BY <1>1, <1>2, <2>2 DEF Accept, IsLost
  <2> QED  BY <2>1, <2>2
<1>3. ASSUME NEW pc \in Pcs, Moved(s, [s EXCEPT !.pc = pc]), UNCHANGED <<users, lock, sub>>,
             pc = "end" => s.left = {}, pc = "cut" => ~s.here
      PROVE  \E t : GoesOn(s, t)
  <2> DEFINE t == [s EXCEPT !.pc = pc]
  <2>1. t \in Stream
    BY <1>0, StreamType
  <2>2. Continues(s, t) /\ t.here = s.here
    BY <1>0, <1>3, <2>1 DEF Continues, Stream
  <2> HIDE DEF t
  <2>3. Moved(s, t)
    BY <1>3 DEF t
  <2> QED  BY <1>3, <2>2, <2>3 DEF GoesOn
<1>4. CASE Ask(s)
  <2> DEFINE pc == IF ~s.here THEN "cut" ELSE IF s.left = {} THEN "end" ELSE "item"
  <2>1. /\ pc \in Pcs /\ (pc = "end" => s.left = {}) /\ (pc = "cut" => ~s.here)
        /\ Moved(s, [s EXCEPT !.pc = pc]) /\ UNCHANGED <<users, lock, sub>>
    BY <1>4 DEF Ask, Pcs
  <2> HIDE DEF pc
  <2> QED  BY <1>1, <1>3, <2>1
<1>5. CASE TakeItem(s)
  <2>1. CASE ~s.there
    <3>1. Moved(s, [s EXCEPT !.pc = "error"]) /\ UNCHANGED <<users, lock, sub>>
      BY <1>5, <2>1 DEF TakeItem
    <3> QED  BY <1>1, <1>3, <3>1 DEF Pcs
  <2>2. CASE s.there
    <3>1. PICK c \in s.left : Moved(s, [s EXCEPT !.pc = "ask", !.left = @ \ {c},
                                                 !.got = @ \cup {c}])
      BY <1>5, <2>2 DEF TakeItem
    <3> DEFINE t == [s EXCEPT !.pc = "ask", !.left = @ \ {c}, !.got = @ \cup {c}]
    <3>2. t \in Stream
      BY <1>0, StreamType
    <3>3. Continues(s, t) /\ t.here = s.here
      BY <1>0, <3>2 DEF Continues, Stream
    <3> HIDE DEF t
    <3>4. Moved(s, t) /\ UNCHANGED <<users, lock, sub>>
      BY <1>5, <3>1 DEF TakeItem, t
    <3> QED  BY <1>1, <3>3, <3>4 DEF GoesOn
  <2> QED  BY <2>1, <2>2
<1>6. CASE TakeEnd(s)
  <2>1. CASE s.there
    BY <1>1, <1>6, <2>1 DEF TakeEnd, Arrives, Shape
  <2>2. CASE ~s.there
    <3>1. Moved(s, [s EXCEPT !.pc = "error"]) /\ UNCHANGED <<users, lock, sub>>
      BY <1>6, <2>2 DEF TakeEnd
    <3> QED  BY <1>1, <1>3, <3>1 DEF Pcs
  <2> QED  BY <2>1, <2>2
<1>7. CASE TakeCut(s)
  BY <1>1, <1>7 DEF TakeCut, Arrives, IsLost, Shape
<1>8. CASE TakeError(s)
  <2>1. CASE ~s.here
    BY <1>1, <1>8, <2>1 DEF TakeError, IsLost
  <2>2. CASE s.here
    <3>1. PICK u \in Pointed(s) : Drops(s, u)
      BY <1>8, <2>2 DEF TakeError, Drops
    <3>2. \A k \in DOMAIN users : users[k].id \in User
      <4>1. users \in Seq(Entry)
        BY DEF Typed
      <4>2. \A k \in DOMAIN users : users[k] \in Entry
        BY <4>1
      <4> QED  BY <4>2 DEF Entry
    <3>3. u \in User
      BY <1>0, <3>2 DEF Pointed
    <3> QED  BY <1>1, <3>1, <3>3
  <2> QED  BY <2>1, <2>2
<1>9. CASE NoRoute(s)
  <2>1. Moved(s, [s EXCEPT !.pc = "error"]) /\ UNCHANGED <<users, lock, sub>>
    BY <1>9 DEF NoRoute
  <2> QED  BY <1>1, <1>3, <2>1 DEF Pcs
<1>10. ASSUME NEW t \in Stream, Moved(s, t), UNCHANGED <<users, lock>>,
              t.user = s.user, t.no = s.no, t.left = s.left, t.got = s.got,
              t.pc = s.pc, t.here => s.here, sub' = Mishap({s.user})
       PROVE  \E x : GoesOn(s, x)
  <2>1. Continues(s, t)
    BY <1>10 DEF Continues, Shape
  <2> QED  BY <1>10, <2>1 DEF GoesOn
<1>11. CASE TimeoutHere(s)
  <2> DEFINE t == [s EXCEPT !.here = FALSE]
  <2>1. /\ t \in Stream /\ t.user = s.user /\ t.no = s.no /\ t.left = s.left
        /\ t.got = s.got /\ t.pc = s.pc /\ (t.here => s.here)
    BY <1>0, StreamType DEF Stream
  <2>2. Moved(s, t) /\ UNCHANGED <<users, lock>> /\ sub' = Mishap({s.user})
    BY <1>11 DEF TimeoutHere
  <2> HIDE DEF t
  <2> QED  BY <1>1, <1>10, <2>1, <2>2
<1>12. CASE TimeoutThere(s)
  <2> DEFINE t == [s EXCEPT !.there = FALSE]
  <2>1. /\ t \in Stream /\ t.user = s.user /\ t.no = s.no /\ t.left = s.left
        /\ t.got = s.got /\ t.pc = s.pc /\ (t.here => s.here)
    BY <1>0, StreamType DEF Stream
  <2>2. Moved(s, t) /\ UNCHANGED <<users, lock>> /\ sub' = Mishap({s.user})
    BY <1>12 DEF TimeoutThere
  <2> HIDE DEF t
  <2> QED  BY <1>1, <1>10, <2>1, <2>2
<1> QED  BY <1>2, <1>4, <1>5, <1>6, <1>7, <1>8, <1>9, <1>11, <1>12 DEF Packet, Trouble

(* The updates that a commit sends: each user that is left has a stream    *)
(* with the whole list, or has missed it.                                  *)
Sent(es, sent) ==
    /\ es \in Seq(Entry) /\ Distinct(es) /\ sent \subseteq DOMAIN es
    /\ \A n \in DOMAIN es : \E k \in DOMAIN users : es[n] = users[k] /\ users[k].live
    /\ \A k \in DOMAIN users : users[k].live => \E n \in DOMAIN es : es[n] = users[k]
    /\ users' = es
    /\ streams' = streams \cup {NewStream(k, es) : k \in sent}
    /\ sub' = Mishap({es[k].id : k \in DOMAIN es \ sent})

LEMMA CommitDoneIs ==
    ASSUME Typed, ListedOnce, CommitDone
    PROVE  \/ ntf.lst = {} /\ UNCHANGED <<ntf, users, streams, sub>>
           \/ /\ ntf' = [ntf EXCEPT !.lst = {}]
              /\ \E es, sent : Sent(es, sent)
<1> SUFFICES ASSUME ntf.lst # {} PROVE \E es, sent : Sent(es, sent)
  BY DEF CommitDone
<1> DEFINE ks == {k \in DOMAIN users : users[k].live}  es == Kept(users, ks)
           sent == {k \in DOMAIN es : HasStream(es[k].id)}
<1>1. /\ es \in Seq(Entry) /\ Distinct(es)
      /\ \A n \in DOMAIN es : \E k \in ks : es[n] = users[k]
      /\ \A k \in ks : \E n \in DOMAIN es : es[n] = users[k]
  <2>1. users \in Seq(Entry)
    BY DEF Typed
  <2> QED  BY <2>1, KeptUsers
<1>2. /\ users' = es /\ streams' = streams \cup {NewStream(k, es) : k \in sent}
      /\ sub' = Mishap({es[k].id : k \in DOMAIN es \ sent})
  BY DEF CommitDone
<1>3. sent \subseteq DOMAIN es
  OBVIOUS
<1> HIDE DEF es, sent
<1>4. Sent(es, sent)
  BY <1>1, <1>2, <1>3 DEF Sent
<1> QED  BY <1>4

LEMMA NewStreamIs ==
    ASSUME Typed, lock = "commit", NEW es \in Seq(Entry), Distinct(es),
           NEW k \in DOMAIN es
    PROVE  /\ NewStream(k, es) \in Stream
           /\ NewStream(k, es).no = commits /\ NewStream(k, es).user = es[k].id
           /\ NewStream(k, es).left = ntf.lst /\ NewStream(k, es).got = {}
           /\ NewStream(k, es).pc = "start" /\ NewStream(k, es).here
<1>1. es[k] \in Entry /\ k \in Nat /\ 1 <= k /\ k <= Len(es) /\ Len(es) \in Nat
  OBVIOUS
<1>2. Len(es) <= Cardinality(User)
  BY ListBound
<1>3. Cardinality(User) \in Nat
  BY BoundsAssumption, FS_CardinalityType
<1>4. k \in 1 .. Cardinality(User)
  BY <1>1, <1>2, <1>3
<1>5. commits \in 1 .. MaxCommits
  BY BoundsAssumption DEF Typed
<1> QED  BY <1>1, <1>4, <1>5 DEF NewStream, Stream, Entry, Typed

-----------------------------------------------------------------------------
(* The invariant. *)

Inv == Typed /\ Table /\ Shape /\ History /\ Informed

LEMMA InitInv == Init => Inv
<1> SUFFICES ASSUME Init PROVE Inv
  OBVIOUS
<1>1. 0 \in 0 .. MaxCommits /\ 0 \in 0 .. MaxFaults
  BY BoundsAssumption
<1>2. Zero \in Values
  BY <1>1 DEF Zero, Values
<1>3. sub \in [User -> Subscriber]
  BY <1>1, <1>2 DEF Init, Subscriber
<1>4. Typed
  <2>1. users \in Seq(Entry)
    BY EmptySeq DEF Init
  <2>2. ntf \in [made : BOOLEAN, lst : SUBSET Change] /\ conn \in [User -> BOOLEAN]
    BY DEF Init
  <2>3. cfg \in Values /\ lock = "none" /\ streams = {} /\ commits = 0 /\ faults = 0
    BY <1>2 DEF Init
  <2> QED  BY <1>1, <1>3, <2>1, <2>2, <2>3 DEF Typed
<1>5. Table /\ Shape
  BY DEF Init, Table, ListedOnce, Shape
<1>6. History
  <2>1. \A i \in Item : cfg[i] = 0 /\ 0 <= 0
    BY DEF Init, Zero
  <2>2. \A u \in User : sub[u].snapno = 0
    BY DEF Init
  <2> QED  BY <2>1, <2>2 DEF Init, History, Latest
<1>7. Informed
  BY DEF Init, Informed, Follows
<1> QED  BY <1>4, <1>5, <1>6, <1>7 DEF Inv

LEMMA NextTyped ==
    ASSUME Typed, Table, Shape, History, [Next]_vars
    PROVE  Typed'
<1>0. /\ cfg \in Values /\ ntf \in [made : BOOLEAN, lst : SUBSET Change]
      /\ users \in Seq(Entry) /\ lock \in User \cup {"none", "commit"}
      /\ streams \subseteq Stream /\ sub \in [User -> Subscriber]
      /\ conn \in [User -> BOOLEAN] /\ commits \in 0 .. MaxCommits
      /\ faults \in 0 .. MaxFaults /\ MaxCommits \in Nat /\ MaxFaults \in Nat
      /\ (lock = "commit" => commits > 0) /\ ListedOnce
      /\ "none" \notin User /\ "commit" \notin User
  BY BoundsAssumption, MarkAssumption DEF Typed, Table
<1>f. faults < MaxFaults /\ faults' = faults + 1 => faults' \in 0 .. MaxFaults
  BY <1>0
<1>1. CASE UNCHANGED vars
  BY <1>0, <1>1 DEF Typed, vars
<1>2. ASSUME NEW S \in SUBSET Item \ {{}}, Commit(S) PROVE Typed'
  <2>1. commits' \in 1 .. MaxCommits
    BY <1>0, <1>2 DEF Commit
  <2>2. cfg' \in Values
    BY <1>0, <1>2, <2>1 DEF Commit, Values
  <2>3. {[item |-> i, value |-> commits'] : i \in S} \subseteq Change
    BY <2>1 DEF Change
  <2>4. ntf' \in [made : BOOLEAN, lst : SUBSET Change]
    BY <1>0, <1>2, <2>3 DEF Commit
  <2> QED  BY <1>0, <1>2, <2>1, <2>2, <2>4 DEF Commit, Typed
<1>3. CASE CommitDone
  <2>1. /\ UNCHANGED <<cfg, conn, commits, faults>> /\ lock = "commit" /\ lock' = "none"
    BY <1>3 DEF CommitDone
  <2>2. CASE ntf.lst = {} /\ UNCHANGED <<ntf, users, streams, sub>>
    BY <1>0, <2>1, <2>2 DEF Typed
  <2>3. ASSUME NEW es, NEW sent, Sent(es, sent), ntf' = [ntf EXCEPT !.lst = {}] PROVE Typed'
    <3>1. ntf' \in [made : BOOLEAN, lst : SUBSET Change] /\ users' \in Seq(Entry)
      BY <1>0, <2>3 DEF Sent
    <3>2. streams' \subseteq Stream
      <4>1. \A k \in sent : NewStream(k, es) \in Stream
        BY <2>1, <2>3, NewStreamIs DEF Sent
      <4> QED  BY <1>0, <2>3, <4>1 DEF Sent
    <3>3. sub' \in [User -> Subscriber]
      BY <1>0, <2>3, MishapIs DEF Sent
    <3> QED  BY <1>0, <2>1, <3>1, <3>2, <3>3 DEF Typed
  <2> QED  BY <1>0, <1>3, <2>2, <2>3, CommitDoneIs
<1>4. CASE CommitLost
  <2>1. sub' \in [User -> Subscriber]
    BY <1>0, <1>4, MishapIs DEF CommitLost
  <2> QED  BY <1>0, <1>f, <1>4, <2>1 DEF CommitLost, Typed
<1>5. ASSUME NEW u \in User, UserStep(u) PROVE Typed'
  <2>0. sub[u] \in Subscriber
    BY <1>0
  <2>1. CASE Subscribe(u)
    <3>1. users' \in Seq(Entry)
      BY <1>0, <2>1, RegisteredIs DEF Subscribe
    <3>2. sub' \in [User -> Subscriber]
      BY <1>0, <2>0, <2>1 DEF Subscribe, Subscriber
    <3>3. ntf' \in [made : BOOLEAN, lst : SUBSET Change]
      BY <1>0, <2>1 DEF Subscribe
    <3> QED  BY <1>0, <2>1, <3>1, <3>2, <3>3 DEF Subscribe, Typed
  <2>2. CASE GetEnds(u)
    <3>1. sub' \in [User -> Subscriber]
      BY <1>0, <2>0, <2>2 DEF GetEnds, Subscriber
    <3> QED  BY <1>0, <2>2, <3>1 DEF GetEnds, Typed
  <2>3. CASE GetFails(u)
    <3>1. Zero \in Values /\ 0 \in 0 .. MaxCommits
      BY <1>0 DEF Zero, Values
    <3>2. sub' \in [User -> Subscriber]
      BY <1>0, <2>0, <2>3, <3>1 DEF GetFails, Subscriber
    <3> QED  BY <1>0, <1>f, <2>3, <3>2 DEF GetFails, Typed
  <2>4. CASE GetDone(u)
    BY <1>0, <2>4 DEF GetDone, Typed
  <2>5. CASE TakeOver(u)
    <3>1. Zero \in Values /\ 0 \in 0 .. MaxCommits
      BY <1>0 DEF Zero, Values
    <3>2. sub' \in [User -> Subscriber]
      BY <1>0, <2>0, <2>5, <3>1 DEF TakeOver, Subscriber
    <3> QED  BY <1>0, <2>5, <3>2 DEF TakeOver, Typed
  <2>6. CASE Down(u)
    <3>1. users' \in Seq(Entry)
      <4>1. \A k \in DOMAIN users : users[k] \in Entry
        BY <1>0
      <4>2. \A k \in DOMAIN users : [users[k] EXCEPT !.live = FALSE] \in Entry
        BY <4>1 DEF Entry
      <4>3. Len(users) \in Nat /\ DOMAIN users = 1 .. Len(users)
        BY <1>0
      <4>4. users' \in [1 .. Len(users) -> Entry]
        BY <2>6, <4>1, <4>2, <4>3 DEF Down
      <4> QED  BY <4>3, <4>4, IsASeq
    <3>2. streams' \subseteq Stream /\ conn' \in [User -> BOOLEAN]
      BY <1>0, <2>6 DEF Down
    <3>3. lock' \in User \cup {"none", "commit"} /\ (lock' = "commit" => lock = "commit")
      BY <1>0, <2>6 DEF Down
    <3> QED  BY <1>0, <1>f, <2>6, <3>1, <3>2, <3>3 DEF Down, Typed
  <2>7. CASE Up(u)
    <3>1. sub' \in [User -> Subscriber]
      BY <1>0, <2>7, MishapIs DEF Up
    <3> QED  BY <1>0, <2>7, <3>1 DEF Up, Typed
  <2>8. CASE Missed(u)
    <3>1. sub' \in [User -> Subscriber]
      BY <1>0, <2>0, <2>8 DEF Missed, Subscriber
    <3> QED  BY <1>0, <1>f, <2>8, <3>1 DEF Missed, Typed
  <2> QED  BY <1>5, <2>1, <2>2, <2>3, <2>4, <2>5, <2>6, <2>7, <2>8 DEF UserStep
<1>6. ASSUME NEW s \in streams, Packet(s) \/ Trouble(s) PROVE Typed'
  <2>1. /\ UNCHANGED <<cfg, ntf, conn, commits>> /\ faults' \in 0 .. MaxFaults
        /\ \/ \E t : GoesOn(s, t)
           \/ IsLost(s) \/ Arrives(s)
           \/ \E u \in User : Drops(s, u)
    BY <1>6, Streams
  <2>2. ASSUME NEW t, GoesOn(s, t) PROVE Typed'
    <3>1. streams' \subseteq Stream
      BY <1>0, <2>2 DEF GoesOn, Continues, Moved
    <3>2. sub' \in [User -> Subscriber]
      BY <1>0, <2>2, MishapIs DEF GoesOn
    <3> QED  BY <1>0, <2>1, <2>2, <3>1, <3>2 DEF GoesOn, Typed
  <2>3. CASE IsLost(s)
    <3>1. sub' \in [User -> Subscriber]
      BY <1>0, <2>3, MishapIs DEF IsLost
    <3> QED  BY <1>0, <2>1, <2>3, <3>1 DEF IsLost, Ended, Typed
  <2>4. CASE Arrives(s)
    <3>1. sub' \in [User -> Subscriber]
      BY <2>4, ApplyIs DEF Arrives
    <3> QED  BY <1>0, <2>1, <2>4, <3>1 DEF Arrives, Ended, Typed
  <2>5. ASSUME NEW u \in User, Drops(s, u) PROVE Typed'
    <3>1. sub' \in [User -> Subscriber]
      BY <1>0, <2>5, MishapIs DEF Drops
    <3>2. users' \in Seq(Entry)
      BY <1>0, <2>5, WithoutIs DEF Drops
    <3> QED  BY <1>0, <2>1, <2>5, <3>1, <3>2 DEF Drops, Ended, Typed
  <2> QED  BY <2>1, <2>2, <2>3, <2>4, <2>5
<1> QED  BY <1>1, <1>2, <1>3, <1>4, <1>5, <1>6 DEF Next

LEMMA NextTable ==
    ASSUME Typed, Table, Shape, History, [Next]_vars
    PROVE  Table'
<1>0. /\ users \in Seq(Entry) /\ streams \subseteq Stream /\ conn \in [User -> BOOLEAN]
      /\ ListedOnce /\ \A k \in DOMAIN users : users[k] \in Entry
      /\ \A k \in DOMAIN users : users[k].live => conn[users[k].id]
      /\ \A s \in streams : conn[s.user]
  <2>1. users \in Seq(Entry)
    BY DEF Typed
  <2>2. \A k \in DOMAIN users : users[k] \in Entry
    BY <2>1
  <2> QED  BY <2>1, <2>2 DEF Typed, Table
<1>1. ASSUME UNCHANGED <<users, streams>>,
             conn' = conn \/ \E u \in User : conn' = [conn EXCEPT ![u] = TRUE]
      PROVE  Table'
  <2>1. \A s \in streams : s.user \in User
    BY <1>0 DEF Stream
  <2>2. \A k \in DOMAIN users : users[k].id \in User
    BY <1>0 DEF Entry
  <2>3. \A u \in User : conn[u] => conn'[u]
    BY <1>0, <1>1
  <2> QED  BY <1>0, <1>1, <2>1, <2>2, <2>3 DEF Table, ListedOnce
<1>2. CASE UNCHANGED vars
  BY <1>1, <1>2 DEF vars
<1>3. ASSUME NEW S \in SUBSET Item \ {{}}, Commit(S) PROVE Table'
  BY <1>1, <1>3 DEF Commit
<1>4. CASE CommitDone
  <2>1. conn' = conn /\ lock = "commit"
    BY <1>4 DEF CommitDone
  <2>2. CASE ntf.lst = {} /\ UNCHANGED <<ntf, users, streams, sub>>
    BY <1>1, <2>1, <2>2
  <2>3. ASSUME NEW es, NEW sent, Sent(es, sent) PROVE Table'
    <3>1. ListedOnce'
      BY <2>3 DEF Sent, Distinct, ListedOnce
    <3>2. \A n \in DOMAIN es : conn[es[n].id]
      BY <1>0, <2>3 DEF Sent
    <3>3. \A k \in DOMAIN users' : users'[k].live => conn'[users'[k].id]
      BY <2>1, <2>3, <3>2 DEF Sent
    <3>4. \A k \in sent : NewStream(k, es).user = es[k].id
      BY DEF NewStream
    <3>5. \A s \in streams' : conn'[s.user]
      BY <1>0, <2>1, <2>3, <3>2, <3>4 DEF Sent
    <3> QED  BY <3>1, <3>3, <3>5 DEF Table
  <2> QED  BY <1>0, <1>4, <2>2, <2>3, CommitDoneIs
<1>5. CASE CommitLost
  BY <1>1, <1>5 DEF CommitLost
<1>6. ASSUME NEW u \in User, UserStep(u) PROVE Table'
  <2>1. CASE Subscribe(u)
    <3>1. users' = Registered(u) /\ UNCHANGED <<streams, conn>> /\ conn[u]
      BY <2>1 DEF Subscribe
    <3>2. /\ Distinct(Registered(u))
          /\ \A n \in DOMAIN Registered(u) :
                \/ Registered(u)[n] = [id |-> u, live |-> TRUE]
                \/ \E k \in DOMAIN users : Registered(u)[n] = users[k]
      BY <1>0, RegisteredIs
    <3> QED  BY <1>0, <3>1, <3>2 DEF Table, ListedOnce, Distinct
  <2>2. CASE GetEnds(u) \/ GetFails(u) \/ GetDone(u) \/ TakeOver(u) \/ Missed(u)
    BY <1>1, <2>2 DEF GetEnds, GetFails, GetDone, TakeOver, Missed
  <2>3. CASE Down(u)
    <3>1. /\ conn' = [conn EXCEPT ![u] = FALSE]
          /\ streams' = {s \in streams : s.user # u}
          /\ users' = [k \in DOMAIN users |->
                          IF users[k].id = u THEN [users[k] EXCEPT !.live = FALSE]
                                             ELSE users[k]]
      BY <2>3 DEF Down
    <3>2. \A k \in DOMAIN users :
             /\ users'[k].id = users[k].id
             /\ users'[k].live => users[k].id # u /\ users[k].live
      BY <1>0, <3>1 DEF Entry
    <3>3. DOMAIN users' = DOMAIN users
      BY <3>1
    <3>4. \A v \in User : v # u /\ conn[v] => conn'[v]
      BY <1>0, <3>1
    <3>5. \A k \in DOMAIN users : users[k].id \in User
      BY <1>0 DEF Entry
    <3>6. \A s \in streams : s.user \in User
      BY <1>0 DEF Stream
    <3> QED  BY <1>0, <3>1, <3>2, <3>3, <3>4, <3>5, <3>6 DEF Table, ListedOnce
  <2>4. CASE Up(u)
    BY <1>1, <2>4 DEF Up
  <2> QED  BY <1>6, <2>1, <2>2, <2>3, <2>4 DEF UserStep
<1>7. ASSUME NEW s \in streams, Packet(s) \/ Trouble(s) PROVE Table'
  <2>1. /\ conn' = conn
        /\ \/ \E t : GoesOn(s, t)
           \/ IsLost(s) \/ Arrives(s)
           \/ \E u \in User : Drops(s, u)
    BY <1>7, Streams
  <2>2. ASSUME NEW t, GoesOn(s, t) PROVE Table'
    BY <1>0, <2>1, <2>2 DEF GoesOn, Continues, Moved, Table, ListedOnce
  <2>3. CASE IsLost(s) \/ Arrives(s)
    BY <1>0, <2>1, <2>3 DEF IsLost, Arrives, Ended, Table, ListedOnce
  <2>4. ASSUME NEW u \in User, Drops(s, u) PROVE Table'
    <3>1. /\ users' = Without(u) /\ Distinct(Without(u))
          /\ \A n \in DOMAIN Without(u) : \E k \in DOMAIN users : Without(u)[n] = users[k]
      BY <1>0, <2>4, WithoutIs DEF Drops
    <3> QED  BY <1>0, <2>1, <2>4, <3>1 DEF Drops, Ended, Table, ListedOnce, Distinct
  <2> QED  BY <2>1, <2>2, <2>3, <2>4
<1> QED  BY <1>2, <1>3, <1>4, <1>5, <1>6, <1>7 DEF Next

LEMMA NextShape ==
    ASSUME Typed, Table, Shape, [Next]_vars
    PROVE  Shape'
<1>1. ASSUME streams' \subseteq streams PROVE Shape'
  BY <1>1 DEF Shape
<1>2. CASE UNCHANGED vars
  BY <1>1, <1>2 DEF vars
<1>3. ASSUME NEW S \in SUBSET Item \ {{}}, Commit(S) PROVE Shape'
  BY <1>1, <1>3 DEF Commit
<1>4. CASE CommitDone
  <2>1. ASSUME NEW es, NEW sent, Sent(es, sent) PROVE Shape'
    <3>1. \A k \in sent : NewStream(k, es).pc = "start"
      BY DEF NewStream
    <3> QED  BY <2>1, <3>1 DEF Sent, Shape
  <2> QED  BY <1>1, <1>4, <2>1, CommitDoneIs DEF Table
<1>5. CASE CommitLost
  BY <1>1, <1>5 DEF CommitLost
<1>6. ASSUME NEW u \in User, UserStep(u) PROVE Shape'
  BY <1>1, <1>6 DEF UserStep, Subscribe, GetEnds, GetFails, GetDone, TakeOver,
       Down, Up, Missed
<1>7. ASSUME NEW s \in streams, Packet(s) \/ Trouble(s) PROVE Shape'
  <2>1. \/ \E t : GoesOn(s, t)
        \/ IsLost(s) \/ Arrives(s)
        \/ \E u \in User : Drops(s, u)
    BY <1>7, Streams
  <2>2. ASSUME NEW t, GoesOn(s, t) PROVE Shape'
    BY <2>2 DEF GoesOn, Continues, Moved, Shape
  <2>3. CASE IsLost(s) \/ Arrives(s) \/ \E u \in User : Drops(s, u)
    BY <1>1, <2>3 DEF IsLost, Arrives, Drops, Ended
  <2> QED  BY <2>1, <2>2, <2>3
<1> QED  BY <1>2, <1>3, <1>4, <1>5, <1>6, <1>7 DEF Next

LEMMA NextHistory ==
    ASSUME Typed, Table, Shape, History, [Next]_vars
    PROVE  History'
<1>0. /\ cfg \in Values /\ ntf \in [made : BOOLEAN, lst : SUBSET Change]
      /\ streams \subseteq Stream /\ sub \in [User -> Subscriber]
      /\ commits \in 0 .. MaxCommits /\ MaxCommits \in Nat
      /\ \A i \in Item : cfg[i] \in 0 .. MaxCommits
  BY BoundsAssumption DEF Typed, Values
<1>1. /\ \A i \in Item : cfg[i] <= commits
      /\ Latest(ntf.lst, commits) /\ (ntf.made \/ ntf.lst = {})
      /\ \A s \in streams : s.no <= commits /\ Latest(s.left \cup s.got, s.no)
      /\ \A u \in User : sub[u].snapno <= commits
  BY DEF History
<1>2. ASSUME NEW cs, NEW no, Latest(cs, no), cfg' = cfg PROVE Latest(cs, no)'
  BY <1>2 DEF Latest, Now
<1>3. ASSUME UNCHANGED <<cfg, commits, ntf>>,
             \A s \in streams' : \/ s \in streams
                                 \/ /\ s.no <= commits
                                    /\ Latest(s.left \cup s.got, s.no),
             \A u \in User : sub'[u].snapno \in {0, commits, sub[u].snapno}
      PROVE  History'
  <2>1. \A s \in streams' : s.no <= commits' /\ Latest(s.left \cup s.got, s.no)'
    BY <1>1, <1>2, <1>3
  <2>2. Latest(ntf.lst, commits)'
    BY <1>1, <1>3 DEF Latest, Now
  <2>3. \A u \in User : sub'[u].snapno <= commits'
    <3>1. 0 <= commits /\ commits <= commits
      BY <1>0
    <3> QED  BY <1>1, <1>3, <3>1
  <2> QED  BY <1>1, <1>3, <2>1, <2>2, <2>3 DEF History
<1>4. CASE UNCHANGED vars
  BY <1>3, <1>4 DEF vars
<1>5. ASSUME NEW S \in SUBSET Item \ {{}}, Commit(S) PROVE History'
  <2> DEFINE new == {[item |-> i, value |-> commits'] : i \in S}
  <2>1. /\ commits' = commits + 1 /\ UNCHANGED <<streams, sub>>
        /\ \A i \in Item : cfg'[i] = IF i \in S THEN commits' ELSE cfg[i]
        /\ ntf' = IF ~ntf.made THEN ntf ELSE [ntf EXCEPT !.lst = ntf.lst \cup new]
    BY <1>5 DEF Commit
  <2>2. \A i \in Item : cfg'[i] <= commits' /\ cfg[i] <= cfg'[i]
    <3>1. ASSUME NEW i \in Item PROVE cfg'[i] <= commits' /\ cfg[i] <= cfg'[i]
      <4>1. cfg[i] \in 0 .. MaxCommits /\ cfg[i] <= commits
        BY <1>0, <1>1
      <4> QED  BY <1>0, <2>1, <4>1
    <3> QED  BY <3>1
  <2>3. ASSUME NEW cs \in SUBSET Change, NEW no \in 0 .. MaxCommits,
               no <= commits, Latest(cs, no)
        PROVE  Latest(cs, no)'
    <3>0. ASSUME NEW c \in cs PROVE c.value <= cfg'[c.item]
      <4>1. c.item \in Item /\ c.value \in Nat /\ c.value <= cfg[c.item]
        BY <2>3 DEF Change, Latest
      <4>2. cfg[c.item] \in Nat /\ cfg'[c.item] \in Nat
        BY <1>0, <2>1, <4>1
      <4> QED  BY <2>2, <4>1, <4>2
    <3>1. ASSUME NEW c \in cs PROVE Now(c.item)' \in cs \/ cfg'[c.item] > no
      <4>1. c.item \in Item /\ (Now(c.item) \in cs \/ cfg[c.item] > no)
        BY <2>3 DEF Change, Latest
      <4>2. CASE c.item \in S
        BY <1>0, <2>1, <2>3, <4>1, <4>2
      <4>3. CASE c.item \notin S
        BY <2>1, <4>1, <4>3 DEF Now
      <4> QED  BY <4>2, <4>3
    <3> QED  BY <2>3, <3>0, <3>1 DEF Latest
  <2>4. \A s \in streams' : s.no <= commits' /\ Latest(s.left \cup s.got, s.no)'
    <3>1. ASSUME NEW s \in streams
          PROVE  s.no <= commits' /\ Latest(s.left \cup s.got, s.no)'
      <4>1. s.left \cup s.got \subseteq Change /\ s.no \in 0 .. MaxCommits
        BY <1>0 DEF Stream
      <4>2. s.no <= commits /\ Latest(s.left \cup s.got, s.no)
        BY <1>1
      <4> QED  BY <1>0, <2>1, <2>3, <4>1, <4>2
    <3> QED  BY <2>1, <3>1
  <2>5. \A u \in User : sub'[u].snapno <= commits'
    <3>1. ASSUME NEW u \in User PROVE sub[u].snapno <= commits + 1
      <4>1. sub[u].snapno \in 0 .. MaxCommits /\ sub[u].snapno <= commits
        BY <1>0, <1>1 DEF Subscriber
      <4> QED  BY <1>0, <4>1
    <3> QED  BY <2>1, <3>1
  <2>6. CASE ~ntf.made
    <3>1. ntf' = ntf /\ ntf.lst = {}
      BY <1>1, <2>1, <2>6
    <3>2. Latest(ntf.lst, commits)'
      BY <3>1 DEF Latest
    <3> QED  BY <2>2, <2>4, <2>5, <3>1, <3>2 DEF History
  <2>7. CASE ntf.made
    <3>1. ntf'.made /\ ntf'.lst = ntf.lst \cup new
      BY <1>0, <2>1, <2>7
    <3>2. ASSUME NEW c \in ntf'.lst
          PROVE  /\ c.value <= commits' /\ c.value <= cfg'[c.item]
                 /\ Now(c.item)' \in ntf'.lst
      <4>1. CASE c \in new
        <5>1. PICK i \in S : c = [item |-> i, value |-> commits']
          BY <4>1
        <5>2. Now(i)' = c /\ cfg'[i] = commits'
          BY <2>1, <5>1 DEF Now
        <5> QED  BY <1>0, <2>1, <5>1, <5>2
      <4>2. CASE c \in ntf.lst
        <5>1. /\ c \in Change /\ c.item \in Item /\ c.value \in 0 .. MaxCommits
              /\ cfg[c.item] <= commits /\ c.value <= commits
              /\ cfg[c.item] \in 0 .. MaxCommits /\ c.value <= cfg[c.item]
              /\ Now(c.item) \in ntf.lst \/ cfg[c.item] > commits
          BY <1>0, <1>1, <4>2 DEF Change, Latest
        <5>2. Now(c.item) \in ntf.lst
          BY <1>0, <5>1
        <5>3. CASE c.item \in S
          <6>1. Now(c.item)' \in new
            BY <2>1, <5>1, <5>3 DEF Now
          <6> QED  BY <1>0, <2>1, <3>1, <5>1, <6>1
        <5>4. CASE c.item \notin S
          <6>1. Now(c.item)' = Now(c.item)
            BY <2>1, <5>1, <5>4 DEF Now
          <6> QED  BY <1>0, <2>1, <3>1, <5>1, <5>2, <6>1
        <5> QED  BY <5>3, <5>4
      <4> QED  BY <3>1, <4>1, <4>2
    <3>3. Latest(ntf.lst, commits)'
      BY <3>2 DEF Latest
    <3> QED  BY <2>2, <2>4, <2>5, <3>1, <3>3 DEF History
  <2> QED  BY <2>6, <2>7
<1>6. CASE CommitDone
  <2>1. UNCHANGED <<cfg, commits>> /\ lock = "commit"
    BY <1>6 DEF CommitDone
  <2>2. CASE ntf.lst = {} /\ UNCHANGED <<ntf, users, streams, sub>>
    BY <1>3, <2>1, <2>2
  <2>3. ASSUME NEW es, NEW sent, Sent(es, sent), ntf' = [ntf EXCEPT !.lst = {}]
        PROVE  History'
    <3>1. ASSUME NEW k \in sent, NEW s, s = NewStream(k, es)
          PROVE  s.no <= commits /\ Latest(s.left \cup s.got, s.no)
      <4>1. s.no = commits /\ s.left \cup s.got = ntf.lst
        BY <3>1 DEF NewStream
      <4>2. commits <= commits /\ Latest(ntf.lst, commits)
        BY <1>0, <1>1
      <4> QED  BY <4>1, <4>2
    <3>2. \A s \in streams' : s.no <= commits' /\ Latest(s.left \cup s.got, s.no)'
      BY <1>1, <1>2, <2>1, <2>3, <3>1 DEF Sent
    <3>3. ntf'.lst = {}
      BY <1>0, <2>3
    <3>4. Latest(ntf.lst, commits)'
      BY <3>3 DEF Latest
    <3>5. \A u \in User : sub'[u].snapno <= commits'
      BY <1>0, <1>1, <2>1, <2>3, MishapIs DEF Sent
    <3> QED  BY <1>1, <2>1, <3>2, <3>3, <3>4, <3>5 DEF History
  <2> QED  BY <1>6, <2>2, <2>3, CommitDoneIs DEF Table
<1>7. CASE CommitLost
  <2>1. \A u \in User : sub'[u].snapno = sub[u].snapno
    BY <1>0, <1>7, MishapIs DEF CommitLost
  <2> QED  BY <1>3, <1>7, <2>1 DEF CommitLost
<1>8. ASSUME NEW u \in User, UserStep(u) PROVE History'
  <2>1. CASE Subscribe(u)
    <3>1. \A v \in User : sub'[v].snapno \in {commits, sub[v].snapno}
      BY <1>0, <2>1 DEF Subscribe, Subscriber
    <3>2. UNCHANGED <<cfg, commits, streams>> /\ ntf'.lst = ntf.lst /\ ntf'.made
      BY <1>0, <2>1 DEF Subscribe
    <3>3. \A s \in streams' : s.no <= commits' /\ Latest(s.left \cup s.got, s.no)'
      BY <1>1, <1>2, <3>2
    <3>4. Latest(ntf.lst, commits)'
      BY <1>1, <3>2 DEF Latest, Now
    <3>5. \A v \in User : sub'[v].snapno <= commits'
      BY <1>0, <1>1, <3>1, <3>2
    <3> QED  BY <1>1, <3>2, <3>3, <3>4, <3>5 DEF History
  <2>2. CASE GetEnds(u) \/ GetFails(u) \/ TakeOver(u) \/ Missed(u)
    <3>1. \A v \in User : sub'[v].snapno \in {0, sub[v].snapno}
      BY <1>0, <2>2 DEF GetEnds, GetFails, TakeOver, Missed, Subscriber
    <3> QED  BY <1>3, <2>2, <3>1 DEF GetEnds, GetFails, TakeOver, Missed
  <2>3. CASE GetDone(u) \/ Down(u)
    BY <1>3, <2>3 DEF GetDone, Down
  <2>4. CASE Up(u)
    <3>1. \A v \in User : sub'[v].snapno = sub[v].snapno
      BY <1>0, <2>4, MishapIs DEF Up
    <3> QED  BY <1>3, <2>4, <3>1 DEF Up
  <2> QED  BY <1>8, <2>1, <2>2, <2>3, <2>4 DEF UserStep
<1>9. ASSUME NEW s \in streams, Packet(s) \/ Trouble(s) PROVE History'
  <2>1. /\ UNCHANGED <<cfg, ntf, commits>>
        /\ \/ \E t : GoesOn(s, t)
           \/ IsLost(s) \/ Arrives(s)
           \/ \E u \in User : Drops(s, u)
    BY <1>9, Streams
  <2>2. ASSUME NEW t, GoesOn(s, t) PROVE History'
    <3>1. t.no <= commits /\ Latest(t.left \cup t.got, t.no)
      BY <1>1, <2>2 DEF GoesOn, Continues
    <3>2. \A v \in User : sub'[v].snapno = sub[v].snapno
      BY <1>0, <2>2, MishapIs DEF GoesOn
    <3> QED  BY <1>3, <2>1, <2>2, <3>1, <3>2 DEF GoesOn, Moved
  <2>3. CASE IsLost(s)
    <3>1. \A v \in User : sub'[v].snapno = sub[v].snapno
      BY <1>0, <2>3, MishapIs DEF IsLost
    <3> QED  BY <1>3, <2>1, <2>3, <3>1 DEF IsLost, Ended
  <2>4. CASE Arrives(s)
    <3>1. \A v \in User : sub'[v].snapno = sub[v].snapno
      BY <1>0, <2>4, ApplyIs DEF Arrives
    <3> QED  BY <1>3, <2>1, <2>4, <3>1 DEF Arrives, Ended
  <2>5. ASSUME NEW u \in User, Drops(s, u) PROVE History'
    <3>1. \A v \in User : sub'[v].snapno = sub[v].snapno
      BY <1>0, <2>5, MishapIs DEF Drops
    <3> QED  BY <1>3, <2>1, <2>5, <3>1 DEF Drops, Ended
  <2> QED  BY <2>1, <2>2, <2>3, <2>4, <2>5
<1> QED  BY <1>4, <1>5, <1>6, <1>7, <1>8, <1>9 DEF Next

(* A user goes on following when nothing is taken from it unnoticed.       *)
LEMMA StillFollows ==
    ASSUME NEW u, Follows(u), cfg' = cfg, conn'[u] => conn[u],
           sub[u].mishap => sub'[u].mishap,
           sub'[u].pc = sub[u].pc, sub'[u].cfg = sub[u].cfg,
           sub'[u].seen = sub[u].seen, sub'[u].snap = sub[u].snap,
           sub'[u].snapno = sub[u].snapno,
           ~sub'[u].mishap /\ sub[u].pc # "out" =>
              /\ Listed(u) => Listed(u)'
              /\ \A i \in Item : Pending(u, i) => Pending(u, i)'
    PROVE  Follows(u)'
BY DEF Follows

LEMMA NextInformed ==
    ASSUME Inv, [Next]_vars
    PROVE  Informed'
<1>0. /\ cfg \in Values /\ ntf \in [made : BOOLEAN, lst : SUBSET Change]
      /\ users \in Seq(Entry) /\ streams \subseteq Stream
      /\ sub \in [User -> Subscriber] /\ conn \in [User -> BOOLEAN]
      /\ commits \in 0 .. MaxCommits /\ MaxCommits \in Nat
      /\ \A i \in Item : cfg[i] \in 0 .. MaxCommits
      /\ "none" \notin User /\ "commit" \notin User
      /\ Typed /\ Shape /\ ListedOnce /\ \A v \in User : Follows(v)
      /\ \A k \in DOMAIN users : users[k] \in Entry
  <2>1. users \in Seq(Entry)
    BY DEF Inv, Typed
  <2>2. \A k \in DOMAIN users : users[k] \in Entry
    BY <2>1
  <2> QED  BY <2>2, BoundsAssumption, MarkAssumption
           DEF Inv, Typed, Values, Table, Informed
<1>1. ASSUME NEW us, sub' = Mishap(us), NEW v \in User
      PROVE  /\ sub'[v].pc = sub[v].pc /\ sub'[v].cfg = sub[v].cfg
             /\ sub'[v].seen = sub[v].seen /\ sub'[v].snap = sub[v].snap
             /\ sub'[v].snapno = sub[v].snapno
             /\ sub[v].mishap => sub'[v].mishap
             /\ v \in us /\ sub[v].pc # "out" => sub'[v].mishap
  BY <1>0, <1>1, MishapIs
<1>2. CASE UNCHANGED vars
  <2>1. ASSUME NEW v \in User PROVE Follows(v)'
    BY <1>0, <1>2, StillFollows DEF vars, Listed, Pending, Now
  <2> QED  BY <2>1 DEF Informed
<1>3. ASSUME NEW S \in SUBSET Item \ {{}}, Commit(S), NEW v \in User PROVE Follows(v)'
  <2>1. /\ lock = "none" /\ lock' = "commit" /\ commits' = commits + 1
        /\ UNCHANGED <<users, streams, sub, conn>>
        /\ \A i \in Item : cfg'[i] = IF i \in S THEN commits' ELSE cfg[i]
        /\ ntf.made =>
             /\ ntf'.made
             /\ ntf'.lst = ntf.lst \cup {[item |-> i, value |-> commits'] : i \in S}
    BY <1>0, <1>3 DEF Commit
  <2>2. \A i \in S : ntf.made => Pending(v, i)'
    <3>1. ASSUME NEW i \in S, ntf.made PROVE Pending(v, i)'
      <4>1. Now(i)' = [item |-> i, value |-> commits']
        BY <2>1 DEF Now
      <4> QED  BY <2>1, <3>1, <4>1 DEF Pending
    <3> QED  BY <3>1
  <2>3. \A i \in Item \ S : Now(i)' = Now(i) /\ (Pending(v, i) => Pending(v, i)')
    BY <2>1 DEF Now, Pending
  <2>4. Listed(v) => ntf.made /\ Listed(v)'
    BY <2>1 DEF Listed
  <2>5. sub[v].snapno <= commits /\ sub[v].snapno \in 0 .. MaxCommits
    BY <1>0 DEF Inv, History, Subscriber
  <2>6. \A i \in S : cfg'[i] > sub[v].snapno
    BY <1>0, <2>1, <2>5
  <2>7. \A i \in Item \ S : cfg'[i] = cfg[i]
    BY <2>1
  <2> QED  BY <1>0, <2>1, <2>2, <2>3, <2>4, <2>6, <2>7 DEF Follows
<1>4. ASSUME CommitDone, NEW v \in User PROVE Follows(v)'
  <2>1. UNCHANGED <<cfg, conn>>
    BY <1>4 DEF CommitDone
  <2>2. CASE ntf.lst = {} /\ UNCHANGED <<ntf, users, streams, sub>>
    BY <1>0, <2>1, <2>2, StillFollows DEF Listed, Pending, Now
  <2>3. ASSUME NEW es, NEW sent, Sent(es, sent), ntf' = [ntf EXCEPT !.lst = {}]
        PROVE  Follows(v)'
    <3>1. ntf'.made = ntf.made
      BY <1>0, <2>3
    <3>2. ASSUME Listed(v), ~sub'[v].mishap, sub[v].pc # "out"
          PROVE  /\ Listed(v)'
                 /\ \A i \in Item : Pending(v, i) => Pending(v, i)'
      <4>1. PICK k \in DOMAIN users : users[k].id = v /\ users[k].live
        BY <3>2 DEF Listed
      <4>2. PICK n \in DOMAIN es : es[n] = users[k]
        BY <2>3, <4>1 DEF Sent
      <4>3. Listed(v)'
        BY <2>3, <3>1, <3>2, <4>1, <4>2 DEF Listed, Sent
      <4>4. n \in sent
        <5>1. n \in DOMAIN es \ sent => v \in {es[m].id : m \in DOMAIN es \ sent}
          BY <4>1, <4>2
        <5> QED  BY <1>1, <2>3, <3>2, <5>1 DEF Sent
      <4>5. /\ NewStream(n, es) \in streams' /\ NewStream(n, es).user = v
            /\ NewStream(n, es).here /\ NewStream(n, es).left = ntf.lst
        BY <2>3, <4>1, <4>2, <4>4 DEF Sent, NewStream
      <4>6. streams \subseteq streams'
        BY <2>3 DEF Sent
      <4>7. \A i \in Item : Pending(v, i) => Pending(v, i)'
        BY <2>1, <4>5, <4>6 DEF Pending, Now
      <4> QED  BY <4>3, <4>7
    <3>3. /\ sub'[v].pc = sub[v].pc /\ sub'[v].cfg = sub[v].cfg
          /\ sub'[v].seen = sub[v].seen /\ sub'[v].snap = sub[v].snap
          /\ sub'[v].snapno = sub[v].snapno
          /\ sub[v].mishap => sub'[v].mishap
      BY <1>1, <2>3 DEF Sent
    <3> QED  BY <1>0, <2>1, <3>2, <3>3 DEF Follows
  <2> QED  BY <1>0, <1>4, <2>2, <2>3, CommitDoneIs
<1>5. ASSUME CommitLost, NEW v \in User PROVE Follows(v)'
  BY <1>0, <1>1, <1>5, StillFollows DEF CommitLost
<1>6. ASSUME NEW u \in User, UserStep(u), NEW v \in User PROVE Follows(v)'
  <2>0. sub[u] \in Subscriber /\ sub[v] \in Subscriber
    BY <1>0
  <2>1. CASE Subscribe(u)
    <3>1. /\ UNCHANGED <<cfg, streams, conn>> /\ ntf'.made /\ ntf'.lst = ntf.lst
          /\ lock = "none" /\ users' = Registered(u)
          /\ \A w \in User \ {u} : sub'[w] = sub[w]
          /\ sub'[u].pc = "getting" /\ sub'[u].snap = cfg /\ sub'[u].snapno = commits
      BY <1>0, <2>0, <2>1 DEF Subscribe, Subscriber
    <3>2. /\ \E n \in DOMAIN Registered(u) : Registered(u)[n] = [id |-> u, live |-> TRUE]
          /\ \A k \in DOMAIN users : users[k].id # u =>
                \E n \in DOMAIN Registered(u) : Registered(u)[n] = users[k]
      BY <1>0, RegisteredIs
    <3>3. CASE v = u
      <4>1. Listed(v)'
        BY <3>1, <3>2, <3>3 DEF Listed
      <4>2. \A i \in Item : cfg[i] <= commits
        BY DEF Inv, History
      <4> QED  BY <3>1, <3>3, <4>1, <4>2 DEF Follows
    <3>4. CASE v # u
      <4>1. Listed(v) => Listed(v)'
        BY <3>1, <3>2, <3>4 DEF Listed
      <4>2. \A i \in Item : Pending(v, i) => Pending(v, i)'
        BY <3>1 DEF Pending, Now
      <4> QED  BY <1>0, <3>1, <3>4, <4>1, <4>2, StillFollows
    <3> QED  BY <3>3, <3>4
  <2>2. CASE GetEnds(u)
    <3>1. /\ UNCHANGED <<cfg, ntf, users, lock, streams, conn>> /\ sub[u].pc = "getting"
          /\ \A w \in User \ {u} : sub'[w] = sub[w]
          /\ sub'[u] = [sub[u] EXCEPT !.pc = "got"]
      BY <1>0, <2>2 DEF GetEnds
    <3>2. (Listed(v) <=> Listed(v)') /\ \A i \in Item : Pending(v, i) <=> Pending(v, i)'
      BY <3>1 DEF Listed, Pending, Now
    <3>3. CASE v # u
      BY <1>0, <3>1, <3>2, <3>3, StillFollows
    <3>4. CASE v = u
      <4>1. /\ sub'[v].pc = "got" /\ sub'[v].mishap = sub[v].mishap
            /\ sub'[v].seen = sub[v].seen /\ sub'[v].snap = sub[v].snap
            /\ sub'[v].snapno = sub[v].snapno /\ sub[v].pc = "getting"
        BY <2>0, <3>1, <3>4 DEF Subscriber
      <4> QED  BY <1>0, <3>1, <3>2, <4>1 DEF Follows
    <3> QED  BY <3>3, <3>4
  <2>3. CASE GetFails(u) \/ Missed(u)
    <3>1. /\ UNCHANGED <<cfg, ntf, users, lock, streams, conn>>
          /\ \A w \in User \ {u} : sub'[w] = sub[w]
          /\ sub'[u].pc = "out"
      BY <1>0, <2>0, <2>3 DEF GetFails, Missed, Subscriber
    <3>2. CASE v # u
      BY <1>0, <3>1, <3>2, StillFollows DEF Listed, Pending, Now
    <3>3. CASE v = u
      BY <3>1, <3>3 DEF Follows
    <3> QED  BY <3>2, <3>3
  <2>4. CASE GetDone(u)
    <3>1. UNCHANGED <<cfg, ntf, users, streams, sub, conn>> /\ lock # "commit"
      BY <1>0, <2>4 DEF GetDone
    <3> QED  BY <1>0, <3>1, StillFollows DEF Listed, Pending, Now
  <2>5. CASE TakeOver(u)
    <3>1. /\ UNCHANGED <<cfg, ntf, users, lock, streams, conn>> /\ sub[u].pc = "got"
          /\ \A w \in User \ {u} : sub'[w] = sub[w]
          /\ sub'[u].pc = "in" /\ sub'[u].cfg = sub[u].snap
          /\ sub'[u].seen = sub[u].snapno
          /\ sub'[u].mishap <=> sub[u].mishap \/ sub[u].seen > sub[u].snapno
      BY <1>0, <2>0, <2>5 DEF TakeOver, Subscriber
    <3>2. (Listed(v) <=> Listed(v)') /\ \A i \in Item : Pending(v, i) <=> Pending(v, i)'
      BY <3>1 DEF Listed, Pending, Now
    <3>3. CASE v # u
      BY <1>0, <3>1, <3>2, <3>3, StillFollows
    <3>4. CASE v = u
      BY <1>0, <3>1, <3>2, <3>4 DEF Follows
    <3> QED  BY <3>3, <3>4
  <2>6. CASE Down(u)
    <3>1. /\ UNCHANGED <<cfg, ntf, sub>> /\ conn' = [conn EXCEPT ![u] = FALSE]
          /\ streams' = {s \in streams : s.user # u}
          /\ users' = [k \in DOMAIN users |->
                          IF users[k].id = u THEN [users[k] EXCEPT !.live = FALSE]
                                             ELSE users[k]]
          /\ lock = "commit" => lock' = "commit"
      BY <1>0, <2>6 DEF Down
    <3>2. CASE v # u
      <4>1. Listed(v) => Listed(v)'
        BY <3>1, <3>2 DEF Listed
      <4>2. \A i \in Item : Pending(v, i) => Pending(v, i)'
        BY <3>1, <3>2 DEF Pending, Now
      <4>3. conn'[v] = conn[v]
        BY <1>0, <3>1, <3>2
      <4> QED  BY <1>0, <3>1, <4>1, <4>2, <4>3, StillFollows
    <3>3. CASE v = u
      BY <1>0, <3>1, <3>3 DEF Follows
    <3> QED  BY <3>2, <3>3
  <2>7. CASE Up(u)
    <3>1. /\ UNCHANGED <<cfg, ntf, users, lock, streams>> /\ sub' = Mishap({u})
          /\ \A w \in User \ {u} : conn'[w] = conn[w]
      BY <1>0, <2>7 DEF Up
    <3>2. CASE v # u
      <4>1. (Listed(v) => Listed(v)') /\ \A i \in Item : Pending(v, i) => Pending(v, i)'
        BY <3>1 DEF Listed, Pending, Now
      <4>2. conn'[v] => conn[v]
        BY <3>1, <3>2
      <4> QED  BY <1>0, <1>1, <3>1, <4>1, <4>2, StillFollows
    <3>3. CASE v = u
      BY <1>1, <3>1, <3>3 DEF Follows
    <3> QED  BY <3>2, <3>3
  <2> QED  BY <1>6, <2>1, <2>2, <2>3, <2>4, <2>5, <2>6, <2>7 DEF UserStep
<1>7. ASSUME NEW s \in streams, Packet(s) \/ Trouble(s), NEW v \in User PROVE Follows(v)'
  <2>1. /\ UNCHANGED <<cfg, ntf, conn>>
        /\ \/ \E t : GoesOn(s, t)
           \/ IsLost(s) \/ Arrives(s)
           \/ \E u \in User : Drops(s, u)
    BY <1>0, <1>7, Streams
  <2>2. ASSUME UNCHANGED <<users, lock>>, streams \ {s} \subseteq streams',
               v # s.user
        PROVE  /\ Listed(v) => Listed(v)'
               /\ \A i \in Item : Pending(v, i) => Pending(v, i)'
    BY <2>1, <2>2 DEF Listed, Pending, Now
  <2>3. ASSUME sub' = Mishap({s.user}), UNCHANGED <<users, lock>>,
               streams \ {s} \subseteq streams'
        PROVE  Follows(v)'
    <3>1. CASE v # s.user
      BY <1>0, <1>1, <2>1, <2>2, <2>3, <3>1, StillFollows
    <3>2. CASE v = s.user
      BY <1>0, <1>1, <2>1, <2>3, <3>2, StillFollows
    <3> QED  BY <3>1, <3>2
  <2>4. ASSUME NEW t, GoesOn(s, t) PROVE Follows(v)'
    <3>1. UNCHANGED <<users, lock>> /\ streams' = (streams \ {s}) \cup {t}
      BY <2>4 DEF GoesOn, Moved
    <3>2. CASE sub' = sub /\ t.here = s.here
      <4>1. t.user = s.user /\ t.left \cup t.got = s.left \cup s.got
        BY <2>4 DEF GoesOn, Continues
      <4>2. Listed(v) => Listed(v)'
        BY <2>1, <3>1 DEF Listed
      <4>3. \A i \in Item : Pending(v, i) => Pending(v, i)'
        BY <2>1, <3>1, <3>2, <4>1 DEF Pending, Now
      <4> QED  BY <1>0, <2>1, <3>2, <4>2, <4>3, StillFollows
    <3> QED  BY <2>3, <2>4, <3>1, <3>2 DEF GoesOn
  <2>5. CASE IsLost(s)
    <3>1. UNCHANGED <<users, lock>> /\ streams' = streams \ {s}
      BY <2>5 DEF IsLost, Ended
    <3>2. CASE sub' = sub /\ ~s.here
      <4>1. Listed(v) => Listed(v)'
        BY <2>1, <3>1 DEF Listed
      <4>2. \A i \in Item : Pending(v, i) => Pending(v, i)'
        BY <2>1, <3>1, <3>2 DEF Pending, Now
      <4> QED  BY <1>0, <2>1, <3>2, <4>1, <4>2, StillFollows
    <3> QED  BY <2>3, <2>5, <3>1, <3>2 DEF IsLost
  <2>6. CASE Arrives(s)
    <3>1. UNCHANGED <<users, lock>> /\ streams' = streams \ {s}
      BY <2>6 DEF Arrives, Ended
    <3>2. /\ s \in Stream /\ s.user \in User
          /\ \A u \in User \ {s.user} : sub'[u] = sub[u]
          /\ sub'[s.user].cfg = Applied(sub[s.user].cfg, s)
          /\ sub'[s.user].pc = sub[s.user].pc
          /\ sub'[s.user].snap = sub[s.user].snap
          /\ sub'[s.user].snapno = sub[s.user].snapno
          /\ sub'[s.user].seen = IF sub[s.user].seen > s.no THEN sub[s.user].seen
                                 ELSE s.no
          /\ sub'[s.user].mishap <=> \/ sub[s.user].mishap
                                     \/ sub[s.user].seen > s.no \/ s.left # {}
      BY <1>0, <2>6, ApplyIs DEF Arrives
    <3>3. CASE v # s.user
      BY <1>0, <2>1, <2>2, <3>1, <3>2, <3>3, StillFollows
    <3>4. CASE v = s.user
      <4> SUFFICES ASSUME conn'[v], ~sub'[v].mishap PROVE Follows(v)'
        BY DEF Follows
      <4> DEFINE x == sub[v]
      <4>1. /\ conn[v] /\ ~x.mishap /\ ~(x.seen > s.no) /\ s.left = {}
            /\ s.no \in 0 .. MaxCommits /\ x.seen \in 0 .. MaxCommits
            /\ x.snapno \in 0 .. MaxCommits /\ s.got \subseteq Change
            /\ x.cfg \in Values
        BY <1>0, <2>1, <3>2, <3>4 DEF Stream, Subscriber
      <4>2. sub'[v].seen = s.no /\ x.seen <= s.no
        BY <3>2, <3>4, <4>1
      <4>3. Listed(v) => Listed(v)'
        BY <2>1, <3>1 DEF Listed
      <4>4. Latest(s.got, s.no)
        <5>1. Latest(s.left \cup s.got, s.no) /\ s.left \cup s.got = s.got
          BY <4>1 DEF Inv, History
        <5> QED  BY <5>1
      <4>5. \A i \in Item : Now(i) \in s.got => cfg[i] <= s.no
        <5>1. ASSUME NEW i \in Item, Now(i) \in s.got PROVE cfg[i] <= s.no
          <6>1. Now(i).value <= s.no
            BY <4>4, <5>1 DEF Latest
          <6> QED  BY <6>1 DEF Now
        <5> QED  BY <5>1
      <4>6. \A i \in Item : Pending(v, i) => Pending(v, i)' \/ Now(i) \in s.got
        BY <2>1, <3>1, <4>1 DEF Pending, Now
      <4>7. CASE x.pc \in {"getting", "got"}
        <5>1. Listed(v) /\ \A i \in Item :
                 /\ x.snap[i] <= x.snapno
                 /\ \/ x.snap[i] = cfg[i]
                    \/ /\ cfg[i] > x.snapno
                       /\ Pending(v, i) \/ x.seen > x.snapno
          BY <1>0, <4>1, <4>7 DEF Follows
        <5>2. ASSUME NEW i \in Item, cfg[i] > x.snapno,
                     Pending(v, i) \/ x.seen > x.snapno
              PROVE  Pending(v, i)' \/ s.no > x.snapno
          <6>1. CASE Now(i) \in s.got
            <7>1. cfg[i] <= s.no /\ cfg[i] \in 0 .. MaxCommits
              BY <1>0, <4>5, <6>1
            <7> QED  BY <1>0, <4>1, <5>2, <7>1
          <6>2. CASE x.seen > x.snapno
            BY <1>0, <4>1, <4>2, <6>2
          <6> QED  BY <4>6, <5>2, <6>1, <6>2
        <5> QED  BY <2>1, <3>2, <3>4, <4>2, <4>3, <4>7, <5>1, <5>2 DEF Follows
      <4>8. CASE x.pc = "in"
        <5>1. Listed(v) /\ \A i \in Item : /\ x.cfg[i] <= x.seen
                                           /\ x.cfg[i] = cfg[i] \/ Pending(v, i)
          BY <1>0, <4>1, <4>8 DEF Follows
        <5>2. ASSUME NEW i \in Item
              PROVE  /\ Applied(x.cfg, s)[i] <= s.no
                     /\ Applied(x.cfg, s)[i] = cfg[i] \/ Pending(v, i)'
          <6>1. x.cfg[i] \in 0 .. MaxCommits /\ x.cfg[i] <= s.no
            <7>1. x.cfg[i] \in 0 .. MaxCommits /\ x.cfg[i] <= x.seen
              BY <4>1, <5>1 DEF Values
            <7> QED  BY <1>0, <4>1, <4>2, <7>1
          <6>2. CASE /\ \A c \in s.got : c.item # i
                     /\ Applied(x.cfg, s)[i] = x.cfg[i]
            <7>1. Now(i) \notin s.got
              BY <6>2 DEF Now
            <7> QED  BY <4>6, <5>1, <6>1, <6>2, <7>1
          <6>3. ASSUME NEW c \in s.got, c.item = i, Applied(x.cfg, s)[i] = c.value,
                       \A d \in s.got : d.item = i => d.value <= c.value
                PROVE  /\ Applied(x.cfg, s)[i] <= s.no
                       /\ Applied(x.cfg, s)[i] = cfg[i] \/ Pending(v, i)'
            <7>1. /\ c.value \in 0 .. MaxCommits /\ c.value <= s.no /\ c.value <= cfg[i]
                  /\ Now(i) \in s.got \/ cfg[i] > s.no
              <8>1. c \in Change
                BY <4>1, <6>3
              <8> QED  BY <1>0, <4>4, <6>3, <8>1 DEF Latest, Change
            <7>2. cfg[i] \in 0 .. MaxCommits
              BY <1>0
            <7>3. CASE Now(i) \in s.got
              <8>1. cfg[i] <= c.value
                BY <6>3, <7>3 DEF Now
              <8> QED  BY <1>0, <6>3, <7>1, <7>2, <8>1
            <7>4. CASE Now(i) \notin s.got
              <8>1. cfg[i] > s.no
                BY <7>1, <7>4
              <8>2. x.cfg[i] # cfg[i]
                BY <1>0, <4>1, <6>1, <7>2, <8>1
              <8> QED  BY <4>6, <5>1, <6>3, <7>1, <7>4, <8>2
            <7> QED  BY <7>3, <7>4
          <6> QED  BY <3>2, <4>1, <6>2, <6>3, AppliedIs
        <5> QED  BY <2>1, <3>2, <3>4, <4>2, <4>3, <4>8, <5>1, <5>2 DEF Follows
      <4>9. CASE x.pc = "out"
        BY <3>2, <3>4, <4>9 DEF Follows
      <4>10. x.pc \in {"out", "getting", "got", "in"}
        BY <1>0 DEF Subscriber
      <4> QED  BY <4>7, <4>8, <4>9, <4>10
    <3> QED  BY <3>3, <3>4
  <2>7. ASSUME NEW u \in User, Drops(s, u) PROVE Follows(v)'
    <3>1. /\ streams' = streams \ {s} /\ users' = Without(u) /\ lock # "commit"
          /\ sub' = Mishap({u, s.user})
          /\ \A k \in DOMAIN users : users[k].id # u =>
               \E n \in DOMAIN Without(u) : Without(u)[n] = users[k]
      <4>1. s.user # "commit"
        BY <1>0 DEF Stream
      <4> QED  BY <1>0, <2>7, <4>1, WithoutIs DEF Drops, Ended
    <3>2. CASE v \in {u, s.user}
      BY <1>1, <3>1, <3>2 DEF Follows
    <3>3. CASE v \notin {u, s.user}
      <4>1. Listed(v) => Listed(v)'
        BY <2>1, <3>1, <3>3 DEF Listed
      <4>2. \A i \in Item : Pending(v, i) => Pending(v, i)'
        BY <2>1, <3>1, <3>3 DEF Pending, Now
      <4> QED  BY <1>0, <1>1, <2>1, <3>1, <4>1, <4>2, StillFollows
    <3> QED  BY <3>2, <3>3
  <2> QED  BY <2>1, <2>4, <2>5, <2>6, <2>7
<1>8. ASSUME NEW v \in User, Next PROVE Follows(v)'
  BY <1>3, <1>4, <1>5, <1>6, <1>7, <1>8 DEF Next
<1> QED  BY <1>2, <1>8 DEF Informed

LEMMA Inductive == Inv /\ [Next]_vars => Inv'
BY NextTyped, NextTable, NextShape, NextHistory, NextInformed DEF Inv

LEMMA InvCorrect == Spec => []Inv
<1>1. Init => Inv
  BY InitInv
<1>2. Inv /\ [Next]_vars => Inv'
  BY Inductive
<1> QED  BY <1>1, <1>2, PTL DEF Spec

-----------------------------------------------------------------------------
(* Whatever becomes of the associations, no update is sent through a client*)
(* that the session has deleted and no user is listed twice (reg_user(),   *)
(* notify_user(), ClientDown).                                             *)
THEOREM UsersCorrect == Spec => []UsersCurrent
<1>1. Inv => UsersCurrent
  <2> SUFFICES ASSUME Inv PROVE UsersCurrent
    OBVIOUS
  <2>1. users \in Seq(Entry)
    BY DEF Inv, Typed
  <2>2. \A k \in DOMAIN users : users[k] \in Entry
    BY <2>1
  <2>3. TypeOK
    BY <2>2 DEF Inv, Typed, TypeOK, Entry
  <2> QED  BY <2>3 DEF UsersCurrent, Inv, Table, NoDeadClient
<1> QED  BY <1>1, InvCorrect, PTL

(* A subscriber that none of the named mishaps has befallen has the        *)
(* committed values as soon as no update is on its way, however commits,   *)
(* requests and updates have overtaken each other.                         *)
THEOREM StaleCorrect == Spec => []StaleIsExplained
<1>1. Inv => StaleIsExplained
  <2> SUFFICES ASSUME Inv, NEW u \in User,
                      sub[u].pc = "in", conn[u], lock # "commit",
                      \A s \in streams : s.user # u, ~sub[u].mishap
               PROVE  sub[u].cfg = cfg
    BY DEF StaleIsExplained
  <2>1. \A i \in Item : ~Pending(u, i)
    BY DEF Pending
  <2>2. \A i \in Item : sub[u].cfg[i] = cfg[i]
    BY <2>1 DEF Inv, Informed, Follows
  <2>3. sub[u].cfg \in Values /\ cfg \in Values
    BY DEF Inv, Typed, Subscriber
  <2> QED  BY <2>2, <2>3 DEF Values
<1> QED  BY <1>1, InvCorrect, PTL

(* CfgUpdateStreamDone applies an update as a whole: the values of a       *)
(* subscriber change only with its answer, or when a stream ends that has  *)
(* brought all of its items or that the daemon has given up.               *)
THEOREM UpdatesWhole == Spec => WholeUpdates
<1> DEFINE Whole(u) ==
      sub'[u].cfg # sub[u].cfg =>
        \/ sub[u].pc = "got" /\ sub'[u].pc = "in"
        \/ \E s \in streams \ streams' : s.user = u /\ (s.left = {} \/ ~s.here)
<1>1. ASSUME Inv, [Next]_vars, NEW u \in User PROVE Whole(u)
  <2>0. sub \in [User -> Subscriber] /\ Typed /\ Shape /\ ListedOnce /\ sub[u] \in Subscriber
    BY <1>1 DEF Inv, Typed, Table
  <2>1. ASSUME NEW us, sub' = Mishap(us) PROVE Whole(u)
    BY <2>0, <2>1, MishapIs
  <2>2. CASE UNCHANGED vars
    BY <2>2 DEF vars
  <2>3. ASSUME NEW S \in SUBSET Item \ {{}}, Commit(S) PROVE Whole(u)
    BY <2>3 DEF Commit
  <2>4. CASE CommitDone \/ CommitLost
    BY <2>0, <2>1, <2>4, CommitDoneIs DEF CommitLost, Sent
  <2>5. ASSUME NEW v \in User, UserStep(v) PROVE Whole(u)
    <3>0. sub[v] \in Subscriber
      BY <2>0
    <3>1. CASE Subscribe(v) \/ GetEnds(v) \/ GetFails(v) \/ Missed(v)
      BY <2>0, <3>0, <3>1 DEF Subscribe, GetEnds, GetFails, Missed, Subscriber
    <3>2. CASE GetDone(v) \/ Down(v)
      BY <3>2 DEF GetDone, Down
    <3>3. CASE TakeOver(v)
      BY <2>0, <3>0, <3>3 DEF TakeOver, Subscriber
    <3>4. CASE Up(v)
      BY <2>1, <3>4 DEF Up
    <3> QED  BY <2>5, <3>1, <3>2, <3>3, <3>4 DEF UserStep
  <2>6. ASSUME NEW s \in streams, Packet(s) \/ Trouble(s) PROVE Whole(u)
    <3>1. \/ \E t : GoesOn(s, t)
          \/ IsLost(s) \/ Arrives(s)
          \/ \E v \in User : Drops(s, v)
      BY <2>0, <2>6, Streams
    <3>2. CASE Arrives(s)
      <4>1. \A v \in User \ {s.user} : sub'[v] = sub[v]
        BY <2>0, <3>2, ApplyIs DEF Arrives
      <4>2. s \in streams \ streams' /\ (s.left = {} \/ ~s.here)
        BY <3>2 DEF Arrives, Ended
      <4> QED  BY <4>1, <4>2
    <3>3. sub' = sub => Whole(u)
      OBVIOUS
    <3> QED  BY <2>1, <3>1, <3>2, <3>3 DEF GoesOn, IsLost, Drops
  <2> QED  BY <1>1, <2>2, <2>3, <2>4, <2>5, <2>6 DEF Next
<1>2. Inv /\ [Next]_vars => [\A u \in User : Whole(u)]_vars
  BY <1>1
<1> QED  BY <1>2, InvCorrect, PTL DEF Spec, WholeUpdates
=============================================================================
