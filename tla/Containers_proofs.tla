---------------------------- MODULE Containers_proofs ----------------------------
(*****************************************************************************)
(* What holds of the two containers of src/include for any size: the ring  *)
(* lockfree::SpscQ (spscq.h) and the weighted round robin WRR (mink_utils.h) *)
(* with the handlers that fill it.                                         *)
(*                                                                         *)
(* The ring, for any watermark and any items: the four indices keep their  *)
(* order, the two threads never touch one slot at the same time, the ring is *)
(* a FIFO, and push() refuses an item only when the ring is nearly full.   *)
(*                                                                         *)
(* The rotation, for any nodes, connections and weights: the table never has *)
(* a pointer to a deleted client, it is the rotation over the nodes that are *)
(* configured and connected, recalc() leaves the divisor and the maximum   *)
(* right, a cycle gives every node as many turns as its weight asks, and   *)
(* every node is served within so many lookups.                            *)
(*****************************************************************************)
EXTENDS SpscQ, WRR, FiniteSetTheorems, SequenceTheorems, WellFoundedInduction, TLAPS

-----------------------------------------------------------------------------
(* The ring.                                                               *)

(* The inductive invariant: a push under way carries an item. *)
IndInv == TypeOK /\ RingOrder /\ (push.pc = "store" => push.item \in Item)

LEMMA NextSlotType == \A i \in Slot : NextSlot(i) \in Slot
BY QSizeAssumption DEF NextSlot, Slot

(* Initially every slot but the last is free and nothing is published. *)
LEMMA InitIndInv == Init => IndInv
BY QSizeAssumption DEF Init, IndInv, TypeOK, RingOrder, Slot, PushState,
                       PopState, Ahead, NextSlot

(* Every step of push() and pop() keeps the order of the indices. *)
LEMMA NextIndInv == IndInv /\ [Next]_vars => IndInv'
<1> SUFFICES ASSUME IndInv, [Next]_vars PROVE IndInv'
  OBVIOUS
<1> USE QSizeAssumption, FlushAssumption DEF IndInv
<1>1. ASSUME NEW i \in Item, NEW f \in FlushFlags, PushCheck(i, f)
      PROVE  IndInv'
  <2>1. TypeOK'
    BY <1>1 DEF PushCheck, TypeOK, PushState, PopState
  <2>2. /\ tail' = tail /\ head' = head /\ shadow_head' = shadow_head
        /\ shadow_tail' = shadow_tail /\ pop' = pop
        /\ push'.pc = "store" /\ push'.item = i
        /\ tail # NextSlot(shadow_head)
    BY <1>1 DEF PushCheck, TypeOK, PushState
  <2> QED  BY <2>1, <2>2 DEF RingOrder, Ahead, NextSlot
<1>2. CASE PushStore
  <2>1. TypeOK'
    BY <1>2, NextSlotType DEF PushStore, TypeOK, PushState, PopState
  <2>2. RingOrder'
    BY <1>2 DEF PushStore, TypeOK, RingOrder, Slot, PushState, PopState,
                Ahead, NextSlot
  <2>3. (push.pc = "store" => push.item \in Item)'
    BY <1>2 DEF PushStore, TypeOK, PushState
  <2> QED  BY <2>1, <2>2, <2>3
<1>3. CASE PushPublish
  <2>1. TypeOK'
    BY <1>3 DEF PushPublish, TypeOK, PushState, PopState
  <2>2. /\ tail' = tail /\ head' = shadow_head /\ shadow_head' = shadow_head
        /\ shadow_tail' = shadow_tail /\ pop' = pop /\ push'.pc = "idle"
        /\ head # shadow_head
    BY <1>3 DEF PushPublish, TypeOK, PushState, RingOrder
  <2>3. /\ tail \in 0 .. QSIZE - 1 /\ shadow_tail \in 0 .. QSIZE - 1
        /\ head \in 0 .. QSIZE - 1 /\ shadow_head \in 0 .. QSIZE - 1
    BY DEF TypeOK, Slot
  <2>4. Ahead(tail, shadow_tail) < Ahead(tail, shadow_head)
    BY <2>3 DEF RingOrder, Ahead
  <2>5. pop.pc = "load" => NextSlot(shadow_tail) # shadow_head
    BY <2>2, <2>3 DEF RingOrder, Ahead, NextSlot
  <2>6. RingOrder'
    <3>1. Ahead(tail, shadow_head) <= Ahead(tail, shadow_head)
      BY <2>3 DEF Ahead
    <3> QED  BY <2>2, <2>4, <2>5, <3>1 DEF RingOrder, Ahead, NextSlot
  <2> QED  BY <2>1, <2>2, <2>6
<1>4. CASE PopCheck
  <2>1. TypeOK'
    BY <1>4 DEF PopCheck, TypeOK, PushState, PopState
  <2>2. /\ tail' = tail /\ head' = head /\ shadow_head' = shadow_head
        /\ shadow_tail' = shadow_tail /\ push' = push /\ pop'.pc = "load"
        /\ NextSlot(shadow_tail) # head
    BY <1>4 DEF PopCheck, TypeOK, PopState
  <2> QED  BY <2>1, <2>2 DEF RingOrder, Ahead, NextSlot
<1>5. CASE PopLoad
  <2>1. TypeOK'
    BY <1>5, NextSlotType DEF PopLoad, TypeOK, PushState, PopState
  <2>2. RingOrder'
    BY <1>5 DEF PopLoad, TypeOK, RingOrder, Slot, PushState, PopState,
                Ahead, NextSlot
  <2> QED  BY <1>5, <2>1, <2>2 DEF PopLoad
<1>6. CASE PopRelease
  <2>1. TypeOK'
    BY <1>6 DEF PopRelease, TypeOK, PushState, PopState
  <2>2. /\ tail' = shadow_tail /\ head' = head /\ shadow_head' = shadow_head
        /\ shadow_tail' = shadow_tail /\ push' = push /\ pop'.pc = "idle"
    BY <1>6 DEF PopRelease, TypeOK, PopState
  <2>3. /\ tail \in 0 .. QSIZE - 1 /\ shadow_tail \in 0 .. QSIZE - 1
        /\ head \in 0 .. QSIZE - 1 /\ shadow_head \in 0 .. QSIZE - 1
    BY DEF TypeOK, Slot
  <2>4. Ahead(shadow_tail, shadow_tail) < Ahead(shadow_tail, head)
    BY <2>3 DEF RingOrder, Ahead
  <2>5. Ahead(shadow_tail, head) <= Ahead(shadow_tail, shadow_head)
    BY <2>3 DEF RingOrder, Ahead
  <2>6. push.pc = "store" => shadow_tail # NextSlot(shadow_head)
    BY <2>3 DEF RingOrder, Ahead, NextSlot
  <2> QED  BY <2>1, <2>2, <2>4, <2>5, <2>6 DEF RingOrder
<1>7. CASE UNCHANGED vars
  BY <1>7 DEF vars, TypeOK, RingOrder, Slot, PushState, PopState, Ahead,
              NextSlot
<1> QED
  BY <1>1, <1>2, <1>3, <1>4, <1>5, <1>6, <1>7 DEF Next, Producer, Consumer

LEMMA Invariance == Spec => []IndInv
BY InitIndInv, NextIndInv, PTL DEF Spec

(* The indices of a ring of any size stay on the ring, and push() and      *)
(* pop() are where their program counters say.                             *)
THEOREM TypeCorrect == Spec => []TypeOK
BY Invariance, PTL DEF IndInv

(* The indices that push() and pop() maintain without a lock never pass    *)
(* one another, whatever the size of the ring and the watermark.           *)
THEOREM RingOrdered == Spec => []RingOrder
BY Invariance, PTL DEF IndInv

(* push() never writes the slot that pop() is about to read. *)
THEOREM SlotsApart == Spec => []NoSlotRace
<1>1. IndInv => NoSlotRace
  BY QSizeAssumption DEF IndInv, TypeOK, RingOrder, Slot, Ahead, NextSlot,
                         NoSlotRace
<1> QED  BY <1>1, Invariance, PTL

-----------------------------------------------------------------------------
(* tail trails shadow_tail by less than WATERMARK slots, and without going *)
(* round the ring, until pop() has come to the watermark.                  *)
Trailing ==
    /\ AtWatermark(tail) \/ tail = QSIZE - 1
    /\ pop.pc = "release" =>
         AtWatermark(shadow_tail) /\ Ahead(tail, shadow_tail) <= WATERMARK
    /\ pop.pc # "release" =>
         /\ tail <= shadow_tail /\ shadow_tail - tail < WATERMARK
         /\ ~AtWatermark(tail) => shadow_tail = tail

LEMMA WatermarkAtZero == AtWatermark(0)
BY WatermarkAssumption DEF AtWatermark

LEMMA NextWatermark ==
    ASSUME NEW i \in Nat, AtWatermark(i) PROVE AtWatermark(i + WATERMARK)
<1> DEFINE a == i \div WATERMARK  b == (i + WATERMARK) \div WATERMARK
           r == (i + WATERMARK) % WATERMARK
<1>1. i = WATERMARK * a /\ a \in Nat
  BY WatermarkAssumption DEF AtWatermark
<1>2. i + WATERMARK = WATERMARK * b + r /\ b \in Nat /\ r \in 0 .. WATERMARK - 1
  BY WatermarkAssumption
<1> HIDE DEF a, b, r
<1>3. WATERMARK * (a + 1 - b) = r
  BY <1>1, <1>2, WatermarkAssumption
<1>4. a + 1 - b <= 0 \/ a + 1 - b >= 1
  BY <1>1, <1>2
<1>5. r = 0
  BY <1>1, <1>2, <1>3, <1>4, WatermarkAssumption
<1> QED  BY <1>5 DEF r, AtWatermark

LEMMA NextTrailing == IndInv /\ Trailing /\ [Next]_vars => Trailing'
<1> SUFFICES ASSUME IndInv, Trailing, [Next]_vars PROVE Trailing'
  OBVIOUS
<1>0. /\ tail \in 0 .. QSIZE - 1 /\ shadow_tail \in 0 .. QSIZE - 1
      /\ pop \in PopState /\ QSIZE \in Nat /\ QSIZE >= 3
      /\ WATERMARK \in Nat /\ WATERMARK >= 1
  BY QSizeAssumption, WatermarkAssumption DEF IndInv, TypeOK, Slot
<1>1. ASSUME UNCHANGED <<tail, shadow_tail>>,
             pop'.pc = pop.pc \/ (pop.pc = "idle" /\ pop'.pc = "load")
      PROVE  Trailing'
  BY <1>1 DEF Trailing, AtWatermark, Ahead
<1>2. CASE PopLoad
  <2> DEFINE new == NextSlot(shadow_tail)
  <2>1. /\ tail' = tail /\ shadow_tail' = new /\ pop.pc = "load"
        /\ pop'.pc = IF AtWatermark(new) THEN "release" ELSE "idle"
    BY <1>2 DEF PopLoad
  <2>2. /\ tail <= shadow_tail /\ shadow_tail - tail < WATERMARK
        /\ AtWatermark(tail) \/ tail = QSIZE - 1
        /\ ~AtWatermark(tail) => shadow_tail = tail
    BY <2>1 DEF Trailing
  <2>3. CASE AtWatermark(new)
    <3>1. Ahead(tail, new) <= WATERMARK
      BY <1>0, <2>2 DEF Ahead, NextSlot
    <3> QED  BY <2>1, <2>2, <2>3, <3>1 DEF Trailing, AtWatermark, Ahead
  <2>4. CASE ~AtWatermark(new)
    <3>1. new = shadow_tail + 1 /\ shadow_tail # QSIZE - 1
      BY <2>4, WatermarkAtZero DEF NextSlot
    <3>2. AtWatermark(tail)
      BY <2>2, <3>1
    <3>3. new # tail + WATERMARK
      BY <1>0, <2>4, <3>2, NextWatermark
    <3>4. tail <= new /\ new - tail < WATERMARK
      BY <1>0, <2>2, <3>1, <3>3
    <3> QED  BY <2>1, <2>4, <3>2, <3>4 DEF Trailing, AtWatermark
  <2> QED  BY <2>3, <2>4
<1>3. CASE PopRelease
  <2>1. /\ tail' = shadow_tail /\ shadow_tail' = shadow_tail /\ pop.pc = "release"
        /\ pop'.pc = "idle"
    BY <1>0, <1>3 DEF PopRelease, PopState
  <2> QED  BY <1>0, <2>1 DEF Trailing, AtWatermark
<1>4. CASE PopCheck
  BY <1>0, <1>1, <1>4 DEF PopCheck, PopState
<1>5. CASE Producer \/ UNCHANGED vars
  BY <1>1, <1>5 DEF Producer, PushCheck, PushStore, PushPublish, vars
<1> QED  BY <1>2, <1>3, <1>4, <1>5 DEF Next, Consumer

(* push() reports a full ring only when at least QSIZE - 2 - WATERMARK     *)
(* items are held, for any ring and any watermark: what GDTClient takes    *)
(* for the capacity of its internal queue.                                 *)
THEOREM RefusalBounded == Spec => []RefusalBound
<1>1. Init => Trailing
  BY QSizeAssumption, WatermarkAssumption DEF Init, Trailing
<1>2. IndInv /\ Trailing => RefusalBound
  BY QSizeAssumption, WatermarkAssumption
     DEF IndInv, TypeOK, Slot, RingOrder, Trailing, RefusalBound, Held, Ahead, NextSlot
<1> QED  BY <1>1, <1>2, NextTrailing, Invariance, PTL DEF Spec

-----------------------------------------------------------------------------
(* Facts about the ring that the refinement needs. *)

LEMMA SlotAfterType == \A i \in Slot, k \in 0 .. QSIZE - 1 : SlotAfter(i, k) \in Slot
BY QSizeAssumption DEF SlotAfter, Slot

LEMMA HeldType == IndInv => Held \in 0 .. QSIZE - 2
BY QSizeAssumption DEF IndInv, TypeOK, RingOrder, Slot, Ahead, Held

LEMMA ContentsType == IndInv => /\ Contents \in Seq(Item \cup {NoItem})
                                /\ Len(Contents) = Held
                                /\ DOMAIN Contents = 1 .. Held
<1> SUFFICES ASSUME IndInv PROVE /\ Contents \in Seq(Item \cup {NoItem})
                                 /\ Len(Contents) = Held
                                 /\ DOMAIN Contents = 1 .. Held
  OBVIOUS
<1>1. Held \in Nat /\ Held <= QSIZE - 2
  BY HeldType, QSizeAssumption
<1>2. ASSUME NEW k \in 1 .. Held
      PROVE  items[SlotAfter(shadow_tail, k)] \in Item \cup {NoItem}
  <2>1. k \in 0 .. QSIZE - 1
    BY <1>1, QSizeAssumption
  <2> QED  BY <2>1, SlotAfterType DEF IndInv, TypeOK
<1>3. Contents \in [1 .. Held -> Item \cup {NoItem}]
  BY <1>2 DEF Contents
<1> QED  BY <1>1, <1>3

(* A store by push() appends its item to what the ring holds. *)
LEMMA StoreAppends ==
  ASSUME IndInv, PushStore
  PROVE  Len(Contents) < QSIZE - 2 /\ Contents' = Append(Contents, push.item)
<1> USE QSizeAssumption
<1>1. /\ shadow_tail' = shadow_tail /\ shadow_head' = NextSlot(shadow_head)
      /\ items' = [items EXCEPT ![shadow_head] = push.item]
      /\ push.pc = "store"
  BY DEF PushStore
<1>2. /\ shadow_tail \in 0 .. QSIZE - 1 /\ shadow_head \in 0 .. QSIZE - 1
      /\ head \in 0 .. QSIZE - 1 /\ tail \in 0 .. QSIZE - 1
      /\ items \in [Slot -> Item \cup {NoItem}]
  BY DEF IndInv, TypeOK, Slot
<1>3. Held < QSIZE - 2 /\ Held \in Nat
  BY <1>1, <1>2 DEF IndInv, RingOrder, Ahead, NextSlot, Held
<1>4. Held' = Held + 1
  BY <1>1, <1>2, <1>3 DEF IndInv, RingOrder, Held, Ahead, NextSlot
<1>5. SlotAfter(shadow_tail, Held + 1) = shadow_head
  BY <1>2 DEF SlotAfter, Held, Ahead
<1>6. \A k \in 1 .. Held : SlotAfter(shadow_tail, k) # shadow_head
  BY <1>2, <1>3 DEF SlotAfter, Held, Ahead
<1>7. Contents' = [k \in 1 .. Held + 1 |-> items'[SlotAfter(shadow_tail, k)]]
  BY <1>1, <1>4 DEF Contents, SlotAfter
<1>8. ASSUME NEW k \in 1 .. Held + 1
      PROVE  items'[SlotAfter(shadow_tail, k)]
               = IF k = Held + 1 THEN push.item ELSE Contents[k]
  <2>1. SlotAfter(shadow_tail, k) \in Slot
    BY <1>2, <1>3, SlotAfterType DEF Slot
  <2>2. CASE k = Held + 1
    BY <2>1, <2>2, <1>1, <1>2, <1>5
  <2>3. CASE k # Held + 1
    <3>1. k \in 1 .. Held
      BY <2>3, <1>3
    <3> QED  BY <3>1, <2>1, <2>3, <1>1, <1>2, <1>6 DEF Contents
  <2> QED  BY <2>2, <2>3
<1>9. Append(Contents, push.item)
        = [k \in 1 .. Held + 1 |-> IF k = Held + 1 THEN push.item
                                                    ELSE Contents[k]]
  BY ContentsType, <1>3
<1> QED  BY <1>3, <1>7, <1>8, <1>9, ContentsType

(* A load by pop() takes the oldest item the ring holds. *)
LEMMA LoadTakes ==
  ASSUME IndInv, PopLoad
  PROVE  /\ Contents # <<>>
         /\ pop'.item = Head(Contents)
         /\ Contents' = Tail(Contents)
<1> USE QSizeAssumption
<1>1. /\ shadow_tail' = NextSlot(shadow_tail) /\ shadow_head' = shadow_head
      /\ items' = items /\ pop'.item = items[NextSlot(shadow_tail)]
      /\ pop.pc = "load"
  BY DEF PopLoad
<1>2. /\ shadow_tail \in 0 .. QSIZE - 1 /\ shadow_head \in 0 .. QSIZE - 1
      /\ head \in 0 .. QSIZE - 1 /\ tail \in 0 .. QSIZE - 1
  BY DEF IndInv, TypeOK, Slot
<1>3. Held \in Nat /\ Held > 0
  BY <1>1, <1>2 DEF IndInv, RingOrder, Ahead, NextSlot, Held
<1>4. Held' = Held - 1
  BY <1>1, <1>2, <1>3 DEF IndInv, RingOrder, Held, Ahead, NextSlot
<1>5. SlotAfter(shadow_tail, 1) = NextSlot(shadow_tail)
  BY <1>2 DEF SlotAfter, NextSlot
<1>6. \A k \in 1 .. Held - 1 :
        SlotAfter(NextSlot(shadow_tail), k) = SlotAfter(shadow_tail, k + 1)
  BY <1>2, <1>3, HeldType DEF SlotAfter, NextSlot
<1>7. Contents' = [k \in 1 .. Held - 1 |-> Contents[k + 1]]
  <2>1. Contents' = [k \in 1 .. Held - 1 |->
                       items[SlotAfter(NextSlot(shadow_tail), k)]]
    BY <1>1, <1>4 DEF Contents, SlotAfter
  <2>2. \A k \in 1 .. Held - 1 :
          Contents[k + 1] = items[SlotAfter(shadow_tail, k + 1)]
    BY <1>3 DEF Contents
  <2> QED  BY <2>1, <2>2, <1>6
<1>8. Contents[1] = items[NextSlot(shadow_tail)]
  BY <1>3, <1>5 DEF Contents
<1>9. Contents # <<>> /\ Head(Contents) = Contents[1]
  BY <1>3, ContentsType
<1>10. Tail(Contents) = [k \in 1 .. Held - 1 |-> Contents[k + 1]]
  <2>1. /\ Tail(Contents) \in Seq(Item \cup {NoItem})
        /\ Len(Tail(Contents)) = Held - 1
        /\ \A k \in 1 .. Held - 1 : Tail(Contents)[k] = Contents[k + 1]
    BY <1>9, ContentsType, HeadTailProperties
  <2>2. Tail(Contents) \in [1 .. Held - 1 -> Item \cup {NoItem}]
    BY <2>1, LenProperties
  <2> QED  BY <2>1, <2>2
<1> QED  BY <1>1, <1>7, <1>8, <1>9, <1>10

-----------------------------------------------------------------------------
(* The ring implements the bounded FIFO: what push() accepts, pop()        *)
(* returns once each and in order, for a ring of any size.                 *)
THEOREM Implements == Spec => FifoSpec
<1>1. Init => Fifo!Init
  <2> SUFFICES ASSUME Init PROVE Fifo!Init
    OBVIOUS
  <2>1. Held = 0
    BY QSizeAssumption DEF Init, Held, Ahead
  <2>2. Contents = <<>>
    BY <2>1, InitIndInv, ContentsType
  <2> QED  BY <2>2 DEF Init, Fifo!Init
<1>2. IndInv /\ [Next]_vars => [Fifo!Next]_(Fifo!fifoVars)
  <2> SUFFICES ASSUME IndInv, [Next]_vars
               PROVE  [Fifo!Next]_(Fifo!fifoVars)
    OBVIOUS
  <2>1. CASE PushStore
    <3>1. pop'.item = pop.item /\ push.item \in Item
      BY <2>1 DEF PushStore, IndInv
    <3>2. Fifo!Put(push.item)
      BY <2>1, <3>1, StoreAppends DEF Fifo!Put
    <3> QED  BY <3>1, <3>2 DEF Fifo!Next
  <2>2. CASE PopLoad
    <3>1. Fifo!Take
      BY <2>2, LoadTakes DEF Fifo!Take
    <3> QED  BY <3>1 DEF Fifo!Next
  <2>3. ASSUME \/ \E i \in Item, f \in FlushFlags : PushCheck(i, f)
               \/ PushPublish \/ PopCheck \/ PopRelease
               \/ UNCHANGED vars
        PROVE  UNCHANGED Fifo!fifoVars
    <3>1. /\ shadow_tail' = shadow_tail /\ shadow_head' = shadow_head
          /\ items' = items /\ pop'.item = pop.item
      BY <2>3 DEF PushCheck, PushPublish, PopCheck, PopRelease, vars, IndInv,
                  TypeOK, PopState
    <3> QED  BY <3>1 DEF Fifo!fifoVars, Contents, Held, Ahead, SlotAfter
  <2> QED  BY <2>1, <2>2, <2>3 DEF Next, Producer, Consumer
<1> QED  BY <1>1, <1>2, Invariance, PTL DEF Spec, FifoSpec, Fifo!Spec

-----------------------------------------------------------------------------
(* The rotation.  First what its definitions by recursion and its folds    *)
(* are: numbers, the greatest element of a set, a fold over a sequence.    *)

LEMMA LeastNatural ==
    ASSUME NEW T \in SUBSET Nat, T # {}
    PROVE  \E x \in T : \A y \in T : x <= y
<1> DEFINE R == OpToRel(<, Nat)
<1>1. IsWellFoundedOn(R, Nat)
  BY NatLessThanWellFounded
<1>2. \A x, y \in Nat : y < x => <<y, x>> \in R
  BY DEF OpToRel
<1> HIDE DEF R
<1>3. PICK x \in T : \A y \in T : ~ (<<y, x>> \in R)
  BY <1>1, WFMin
<1>4. ASSUME NEW y \in T PROVE x <= y
  <2>1. x \in Nat /\ y \in Nat /\ ~ (y < x)
    BY <1>2, <1>3
  <2> QED  BY <2>1
<1> QED  BY <1>3, <1>4

(* Induction: a set of numbers with 0 and every successor up to n has n.   *)
LEMMA AllUpTo ==
    ASSUME NEW n \in Nat, NEW T, 0 \in T,
           \A k \in 0 .. n - 1 : k \in T => k + 1 \in T
    PROVE  \A k \in 0 .. n : k \in T
<1> SUFFICES ASSUME NEW j \in 0 .. n, j \notin T PROVE FALSE
  OBVIOUS
<1> DEFINE U == {k \in 0 .. n : k \notin T}
<1>0. U \in SUBSET Nat /\ j \in U
  OBVIOUS
<1>1. PICK k \in U : \A y \in U : k <= y
  <2> HIDE DEF U
  <2> QED  BY <1>0, LeastNatural
<1>2. k # 0 /\ k \in Nat /\ k <= n /\ k \notin T
  BY <1>1
<1>3. k - 1 \in 0 .. n - 1 /\ k - 1 \notin U /\ k - 1 \in 0 .. n
  BY <1>1, <1>2
<1>4. k - 1 \in T
  BY <1>3
<1>5. k - 1 + 1 = k
  BY <1>2
<1> QED  BY <1>2, <1>3, <1>4, <1>5

(* Max() of a set of positions. *)
LEMMA MaxIs ==
    ASSUME NEW k \in Nat, NEW S \in SUBSET (1 .. k), S # {}
    PROVE  Max(S) \in S /\ \A y \in S : y <= Max(S)
<1> DEFINE B == {j \in Nat : \A y \in S : y <= j}
<1>1. B \in SUBSET Nat /\ k \in B
  OBVIOUS
<1>2. PICK b \in B : \A c \in B : b <= c
  <2> HIDE DEF B
  <2> QED  BY <1>1, LeastNatural
<1>3. b \in Nat /\ \A y \in S : y <= b /\ y \in Nat /\ y >= 1
  BY <1>2
<1>4. b \in S
  <2> SUFFICES ASSUME b \notin S PROVE FALSE
    OBVIOUS
  <2>0. PICK x \in S : TRUE
    OBVIOUS
  <2>1. b - 1 \in Nat /\ \A y \in S : y <= b - 1
    <3>1. b >= 1
      BY <1>3, <2>0
    <3>2. \A y \in S : y # b
      OBVIOUS
    <3> QED  BY <1>3, <3>1, <3>2
  <2> QED  BY <1>2, <1>3, <2>1
<1>5. \E x \in S : \A y \in S : x >= y
  BY <1>3, <1>4
<1>6. Max(S) \in S /\ \A y \in S : Max(S) >= y
  BY <1>5 DEF Max
<1> QED  BY <1>3, <1>6

LEMMA MaxLast ==
    ASSUME NEW k \in Nat, NEW S \in SUBSET (1 .. k), k \in S
    PROVE  Max(S) = k
<1>1. Max(S) \in 1 .. k /\ k <= Max(S)
  BY MaxIs
<1> QED  BY <1>1
(* The recursive functions and folds of WRR are what their equations say. *)

(* FoldLeft() of a function op over a sequence q of length n, as a function *)
(* of the positions that have been folded.                                 *)
IsFold(f, n, q, op, base) ==
    \A S \in SUBSET (1 .. n) :
      f[S] = IF S = {} THEN base ELSE op[<<f[S \ {Max(S)}], q[Max(S)]>>]

LEMMA FoldExists ==
    ASSUME NEW n \in Nat, NEW X, NEW Y, NEW q \in [1 .. n -> Y],
           NEW op \in [X \X Y -> X], NEW base \in X
    PROVE  \E f \in [SUBSET (1 .. n) -> X] : IsFold(f, n, q, op, base)
<1> USE DEF IsFold
<1> DEFINE Is(f, k) == IsFold(f, k, q, op, base)
           T == {k \in 0 .. n : \E f \in [SUBSET (1 .. k) -> X] : Is(f, k)}
<1>1. 0 \in T
  <2> DEFINE f == [S \in SUBSET (1 .. 0) |-> base]
  <2>1. f \in [SUBSET (1 .. 0) -> X] /\ \A S \in SUBSET (1 .. 0) : S = {}
    OBVIOUS
  <2>2. Is(f, 0)
    BY <2>1
  <2>3. 0 \in 0 .. n
    OBVIOUS
  <2> HIDE DEF f, Is
  <2> QED  BY <2>1, <2>2, <2>3
<1>2. ASSUME NEW k \in 0 .. n - 1, k \in T PROVE k + 1 \in T
  <2>1. PICK f \in [SUBSET (1 .. k) -> X] : Is(f, k)
    BY <1>2
  <2> DEFINE g == [S \in SUBSET (1 .. k + 1) |->
                     IF k + 1 \in S THEN op[<<f[S \ {k + 1}], q[k + 1]>>] ELSE f[S]]
  <2>2. ASSUME NEW S \in SUBSET (1 .. k + 1)
        PROVE  g[S] \in X /\ g[S] = IF S = {} THEN base
                                    ELSE op[<<g[S \ {Max(S)}], q[Max(S)]>>]
    <3>1. CASE k + 1 \in S
      <4>1. Max(S) = k + 1
        BY <3>1, MaxLast
      <4>2. S \ {k + 1} \in SUBSET (1 .. k) /\ k + 1 \notin S \ {k + 1}
             /\ S \ {k + 1} \in SUBSET (1 .. k + 1)
        OBVIOUS
      <4>3. g[S \ {k + 1}] = f[S \ {k + 1}] /\ f[S \ {k + 1}] \in X
        BY <4>2
      <4>4. q[k + 1] \in Y
        OBVIOUS
      <4>5. g[S] = op[<<f[S \ {k + 1}], q[k + 1]>>]
        BY <3>1
      <4> QED  BY <3>1, <4>1, <4>3, <4>4, <4>5
    <3>2. CASE k + 1 \notin S
      <4>1. S \in SUBSET (1 .. k)
        BY <3>2
      <4>2. g[S] = f[S] /\ f[S] \in X
        BY <3>2, <4>1
      <4>3. CASE S # {}
        <5>1. Max(S) \in S
          <6>1. k \in Nat
            OBVIOUS
          <6> QED  BY <4>1, <4>3, <6>1, MaxIs
        <5>2. S \ {Max(S)} \in SUBSET (1 .. k) /\ k + 1 \notin S \ {Max(S)}
               /\ S \ {Max(S)} \in SUBSET (1 .. k + 1)
          BY <3>2, <4>1
        <5>3. g[S \ {Max(S)}] = f[S \ {Max(S)}]
          BY <5>2
        <5>4. f[S] = op[<<f[S \ {Max(S)}], q[Max(S)]>>]
          BY <2>1, <4>1, <4>3
        <5> QED  BY <4>2, <4>3, <5>3, <5>4
      <4>4. CASE S = {}
        BY <2>1, <4>1, <4>2, <4>4
      <4> QED  BY <4>3, <4>4
    <3> QED  BY <3>1, <3>2
  <2> HIDE DEF g
  <2>3. g \in [SUBSET (1 .. k + 1) -> X] /\ Is(g, k + 1)
    <3>1. g = [S \in SUBSET (1 .. k + 1) |-> g[S]]
      BY DEF g
    <3> QED  BY <2>2, <3>1
  <2>4. k + 1 \in 0 .. n
    OBVIOUS
  <2> HIDE DEF Is
  <2> QED  BY <2>3, <2>4
<1> HIDE DEF T
<1>3. \A k \in 0 .. n : k \in T
  BY <1>1, <1>2, AllUpTo
<1>4. n \in T
  BY <1>3
<1> QED  BY <1>4 DEF T

-----------------------------------------------------------------------------
(* The function gcd().                                                     *)

Number == Nat \ {0}

(* d divides m. *)
Divides(d, m) == m % d = 0

LEMMA DividesIs ==
    ASSUME NEW d \in Number, NEW m \in Nat
    PROVE  Divides(d, m) <=> \E a \in Nat : m = d * a
<1>1. ASSUME Divides(d, m) PROVE \E a \in Nat : m = d * a
  <2>1. m \div d \in Nat /\ m = d * (m \div d)
    BY <1>1 DEF Divides, Number
  <2> QED  BY <2>1
<1>2. ASSUME NEW a \in Nat, m = d * a PROVE Divides(d, m)
  <2> DEFINE b == m \div d  r == m % d
  <2>1. m = d * b + r /\ b \in Nat /\ r \in 0 .. d - 1
    BY DEF Number
  <2> HIDE DEF b, r
  <2>2. d * (a - b) = r
    BY <1>2, <2>1 DEF Number
  <2>3. a - b <= 0 \/ a - b >= 1
    BY <2>1
  <2>4. r = 0
    BY <2>1, <2>2, <2>3 DEF Number
  <2> QED  BY <2>4 DEF r, Divides
<1> QED  BY <1>1, <1>2

(* The step of Euclid's algorithm keeps the common divisors. *)
LEMMA DividesRest ==
    ASSUME NEW d \in Number, NEW n \in Number, NEW m \in Nat, Divides(d, n)
    PROVE  Divides(d, m) <=> Divides(d, m % n)
<1> DEFINE q == m \div n  r == m % n
<1>1. m = n * q + r /\ q \in Nat /\ r \in Nat
  BY DEF Number
<1>2. PICK a \in Nat : n = d * a
  BY DividesIs DEF Number
<1> HIDE DEF q, r
<1>3. ASSUME Divides(d, m) PROVE Divides(d, r)
  <2>1. PICK b \in Nat : m = d * b
    BY <1>3, DividesIs
  <2> DEFINE c == b - a * q
  <2>2. r = d * c /\ c \in Int
    BY <1>1, <1>2, <2>1 DEF Number
  <2> HIDE DEF c
  <2>3. c \in Nat
    BY <1>1, <2>2 DEF Number
  <2> QED  BY <1>1, <2>2, <2>3, DividesIs
<1>4. ASSUME Divides(d, r) PROVE Divides(d, m)
  <2>1. PICK c \in Nat : r = d * c
    BY <1>1, <1>4, DividesIs
  <2> DEFINE b == a * q + c
  <2>2. m = d * b /\ b \in Nat
    BY <1>1, <1>2, <2>1 DEF Number
  <2> HIDE DEF b
  <2> QED  BY <2>2, DividesIs
<1> QED  BY <1>3, <1>4 DEF r

(* A divisor is not larger, and a number is known by its divisors. *)
LEMMA DividesLess ==
    ASSUME NEW d \in Number, NEW m \in Number, Divides(d, m)
    PROVE  d <= m
<1>1. PICK a \in Nat : m = d * a
  BY DividesIs DEF Number
<1>2. a >= 1
  BY <1>1 DEF Number
<1> QED  BY <1>1, <1>2 DEF Number

LEMMA DividesSelf == \A d \in Number : Divides(d, d) /\ Divides(d, 0)
BY DEF Divides, Number

LEMMA SameDivisors ==
    ASSUME NEW m \in Nat, NEW n \in Nat,
           \A d \in Number : Divides(d, m) <=> Divides(d, n)
    PROVE  m = n
<1>1. CASE m # 0 /\ n # 0
  <2>1. m \in Number /\ n \in Number
    BY <1>1 DEF Number
  <2>2. m <= n /\ n <= m
    BY <2>1, DividesSelf, DividesLess
  <2> QED  BY <2>2
<1>2. ASSUME NEW k \in Nat, \A d \in Number : Divides(d, k) PROVE k = 0
  <2>1. k + 1 \in Number /\ Divides(k + 1, k)
    BY <1>2 DEF Number
  <2>2. k % (k + 1) = k
    OBVIOUS
  <2> QED  BY <2>1, <2>2 DEF Divides
<1>3. CASE m = 0
  BY <1>2, <1>3, DividesSelf
<1>4. CASE n = 0
  BY <1>2, <1>4, DividesSelf
<1> QED  BY <1>1, <1>3, <1>4

Common(p) == {d \in Number : Divides(d, p[1]) /\ Divides(d, p[2])}

(* The function that Euclid's equation defines exists: it is the number    *)
(* whose divisors are the common divisors.                                 *)
LEMMA EuclidEquation ==
    ASSUME NEW m \in Nat, NEW n \in Nat
    PROVE  Euclid[<<m, n>>] = IF n = 0 THEN m ELSE Euclid[<<n, m % n>>]
<1> DEFINE With(S) == CHOOSE g \in Nat : {d \in Number : Divides(d, g)} = S
           G == [p \in Nat \X Nat |-> With(Common(p))]
           F(f) == [p \in Nat \X Nat |-> IF p[2] = 0 THEN p[1]
                                         ELSE f[<<p[2], p[1] % p[2]>>]]
<1>1. ASSUME NEW p \in Nat \X Nat PROVE G[p] = F(G)[p]
  <2>1. CASE p[2] = 0
    <3>1. {d \in Number : Divides(d, p[1])} = Common(p)
      BY <2>1, DividesSelf DEF Common
    <3>2. \A g \in Nat : {d \in Number : Divides(d, g)} = Common(p) => g = p[1]
      <4> SUFFICES ASSUME NEW g \in Nat, {d \in Number : Divides(d, g)} = Common(p)
                   PROVE  g = p[1]
        OBVIOUS
      <4>1. \A d \in Number : Divides(d, g) <=> Divides(d, p[1])
        BY <3>1
      <4>2. p[1] \in Nat
        OBVIOUS
      <4> QED  BY <4>1, <4>2, SameDivisors
    <3>3. p[1] \in Nat
      OBVIOUS
    <3>4. With(Common(p)) = p[1]
      BY <3>1, <3>2, <3>3
    <3> HIDE DEF With
    <3> QED  BY <2>1, <3>4
  <2>2. CASE p[2] # 0
    <3> DEFINE q == <<p[2], p[1] % p[2]>>
    <3>1. p[1] \in Nat /\ p[2] \in Number /\ p[1] % p[2] \in Nat
      BY <2>2 DEF Number
    <3>2. q \in Nat \X Nat /\ q[1] = p[2] /\ q[2] = p[1] % p[2]
      BY <3>1 DEF Number
    <3>3. Common(q) = Common(p)
      BY <3>1, <3>2, DividesRest DEF Common
    <3> HIDE DEF With
    <3>4. G[q] = With(Common(q)) /\ G[p] = With(Common(p))
      BY <3>2
    <3>5. F(G)[p] = G[q]
      BY <2>2
    <3> QED  BY <3>3, <3>4, <3>5
  <2> QED  BY <2>1, <2>2
<1> HIDE DEF With
<1>2. G = F(G)
  BY <1>1
<1>3. \E f : f = F(f)
  <2> HIDE DEF F, G
  <2> QED  BY <1>2
<1>4. Euclid = F(Euclid)
  BY <1>3 DEF Euclid
<1> HIDE DEF F
<1>5. F(Euclid)[<<m, n>>] = IF n = 0 THEN m ELSE Euclid[<<n, m % n>>]
  BY DEF F
<1> QED  BY <1>4, <1>5

(* The function gcd() of WRR: the divisors of its value are the divisors   *)
(* of both arguments.                                                      *)
LEMMA EuclidIs ==
    ASSUME NEW m \in Nat, NEW n \in Nat
    PROVE  /\ Euclid[<<m, n>>] \in Nat
           /\ \A d \in Number : Divides(d, Euclid[<<m, n>>]) <=> Divides(d, m) /\ Divides(d, n)
<1> DEFINE Right(j, k) ==
             /\ Euclid[<<j, k>>] \in Nat
             /\ \A d \in Number : Divides(d, Euclid[<<j, k>>]) <=> Divides(d, j) /\ Divides(d, k)
           U == {k \in Nat : \E j \in Nat : ~Right(j, k)}
<1> SUFFICES ASSUME ~Right(m, n) PROVE FALSE
  OBVIOUS
<1>1. U \in SUBSET Nat /\ n \in U
  OBVIOUS
<1>2. PICK k \in U : \A y \in U : k <= y
  <2> HIDE DEF U
  <2> QED  BY <1>1, LeastNatural
<1>3. PICK j \in Nat : ~Right(j, k)
  BY <1>2
<1>4. k \in Nat
  OBVIOUS
<1>5. CASE k = 0
  <2>1. Euclid[<<j, k>>] = j
    BY <1>5, <1>4, EuclidEquation
  <2> QED  BY <1>3, <1>5, <2>1, DividesSelf
<1>6. CASE k # 0
  <2> DEFINE r == j % k
  <2>1. r \in Nat /\ r < k /\ k \in Number
    BY <1>4, <1>6 DEF Number
  <2>2. Euclid[<<j, k>>] = Euclid[<<k, r>>]
    BY <1>4, <1>6, EuclidEquation
  <2>3. \A d \in Number : Divides(d, k) => (Divides(d, j) <=> Divides(d, r))
    BY <2>1, DividesRest
  <2> HIDE DEF r
  <2>4. r \notin U
    BY <1>2, <1>4, <2>1
  <2>5. Right(k, r)
    BY <1>4, <2>1, <2>4
  <2>6. Right(j, k)
    BY <2>2, <2>3, <2>5
  <2> QED  BY <1>3, <2>6
<1> QED  BY <1>5, <1>6

-----------------------------------------------------------------------------
(* The folds of recalc().                                                  *)

(* recalc(): the divisor and the maximum of a list of weights. *)
GcdOf(q) == FoldLeft(LAMBDA m, n : Euclid[<<m, n>>], 0, q)
LargestOf(q) == FoldLeft(LAMBDA m, n : IF n > m THEN n ELSE m, 0, q)

LEMMA RecalcFolds ==
    ASSUME NEW t
    PROVE  LET weights == [p \in DOMAIN t.items |-> t.items[p].weight]
           IN  Recalc(t) = [t EXCEPT !.gcd = GcdOf(weights), !.max = LargestOf(weights)]
BY DEF Recalc, GcdOf, LargestOf, FoldLeft, MapThenFoldSet

LEMMA GcdOfIs ==
    ASSUME NEW n \in Nat, NEW q \in [1 .. n -> Nat]
    PROVE  /\ GcdOf(q) \in Nat
           /\ \A d \in Number : Divides(d, GcdOf(q)) <=> \A p \in 1 .. n : Divides(d, q[p])
<1> DEFINE F(f) == [S \in SUBSET (1 .. n) |-> IF S = {} THEN 0
                      ELSE Euclid[<<f[S \ {Max(S)}], q[Max(S)]>>]]
           f == CHOOSE f : f = F(f)
<1>1. \E g : g = F(g)
  <2> DEFINE op == [p \in Nat \X Nat |-> Euclid[p]]
  <2>1. op \in [Nat \X Nat -> Nat]
    BY EuclidIs
  <2>2. PICK g \in [SUBSET (1 .. n) -> Nat] : IsFold(g, n, q, op, 0)
    <3> HIDE DEF op, F, f
    <3>1. 0 \in Nat
      OBVIOUS
    <3> QED  BY <2>1, <3>1, FoldExists
  <2>3. ASSUME NEW S \in SUBSET (1 .. n), S # {}
        PROVE  op[<<g[S \ {Max(S)}], q[Max(S)]>>] = Euclid[<<g[S \ {Max(S)}], q[Max(S)]>>]
    <3>1. Max(S) \in 1 .. n
      BY <2>3, MaxIs
    <3>2. S \ {Max(S)} \in SUBSET (1 .. n)
      OBVIOUS
    <3>3. g[S \ {Max(S)}] \in Nat /\ q[Max(S)] \in Nat
      BY <3>1, <3>2
    <3> QED  BY <3>3
  <2> HIDE DEF op
  <2>4. g = F(g)
    BY <2>2, <2>3 DEF IsFold
  <2> QED  BY <2>4
<1>2. f = F(f)
  <2> HIDE DEF F
  <2> QED  BY <1>1
<1>3. GcdOf(q) = f[1 .. n]
  BY DEF GcdOf, FoldLeft, MapThenFoldSet
<1> HIDE DEF f
<1>4. f[{}] = 0
  BY <1>2
<1>5. ASSUME NEW k \in 0 .. n - 1
      PROVE  f[1 .. k + 1] = Euclid[<<f[1 .. k], q[k + 1]>>]
  <2>1. Max(1 .. k + 1) = k + 1
    BY MaxLast
  <2>2. (1 .. k + 1) \ {k + 1} = 1 .. k
    OBVIOUS
  <2>3. 1 .. k + 1 \in SUBSET (1 .. n) /\ k + 1 \in 1 .. k + 1
    OBVIOUS
  <2> QED  BY <1>2, <2>1, <2>2, <2>3
<1> DEFINE Right(k) == /\ f[1 .. k] \in Nat
                       /\ \A d \in Number : Divides(d, f[1 .. k])
                                              <=> \A p \in 1 .. k : Divides(d, q[p])
           T == {k \in 0 .. n : Right(k)}
<1>6. 0 \in T
  BY <1>4, DividesSelf
<1>7. ASSUME NEW k \in 0 .. n - 1, k \in T PROVE k + 1 \in T
  <2>1. Right(k) /\ q[k + 1] \in Nat /\ k + 1 \in 0 .. n
    BY <1>7
  <2>2. \A p \in 1 .. k + 1 : p \in 1 .. k \/ p = k + 1
    OBVIOUS
  <2>3. k + 1 \in 1 .. k + 1 /\ \A p \in 1 .. k : p \in 1 .. k + 1
    OBVIOUS
  <2>4. /\ f[1 .. k + 1] \in Nat
        /\ \A d \in Number : Divides(d, f[1 .. k + 1])
                                <=> Divides(d, f[1 .. k]) /\ Divides(d, q[k + 1])
    <3>1. f[1 .. k + 1] = Euclid[<<f[1 .. k], q[k + 1]>>]
      BY <1>5
    <3>2. f[1 .. k] \in Nat /\ q[k + 1] \in Nat
      BY <2>1
    <3> QED  BY <3>1, <3>2, EuclidIs
  <2>5. ASSUME NEW d \in Number
        PROVE  (\A p \in 1 .. k + 1 : Divides(d, q[p]))
                 <=> (\A p \in 1 .. k : Divides(d, q[p])) /\ Divides(d, q[k + 1])
    BY <2>2, <2>3
  <2>6. Right(k + 1)
    BY <2>1, <2>4, <2>5
  <2> QED  BY <2>1, <2>6
<1> HIDE DEF Right
<1>8. n \in T
  <2> HIDE DEF T
  <2>1. n \in Nat /\ n \in 0 .. n
    OBVIOUS
  <2> QED  BY <1>6, <1>7, <2>1, AllUpTo
<1>9. Right(n)
  BY <1>8
<1> QED  BY <1>3, <1>9 DEF Right

LEMMA LargestOfIs ==
    ASSUME NEW n \in Nat, NEW q \in [1 .. n -> Nat]
    PROVE  /\ LargestOf(q) \in Nat
           /\ \A p \in 1 .. n : q[p] <= LargestOf(q)
           /\ LargestOf(q) = 0 \/ \E p \in 1 .. n : q[p] = LargestOf(q)
<1> DEFINE F(f) == [S \in SUBSET (1 .. n) |-> IF S = {} THEN 0
                      ELSE IF q[Max(S)] > f[S \ {Max(S)}] THEN q[Max(S)]
                           ELSE f[S \ {Max(S)}]]
           f == CHOOSE f : f = F(f)
<1>1. \E g : g = F(g)
  <2> DEFINE op == [p \in Nat \X Nat |-> IF p[2] > p[1] THEN p[2] ELSE p[1]]
  <2>1. op \in [Nat \X Nat -> Nat]
    OBVIOUS
  <2>2. PICK g \in [SUBSET (1 .. n) -> Nat] : IsFold(g, n, q, op, 0)
    <3> HIDE DEF op, F, f
    <3>1. 0 \in Nat
      OBVIOUS
    <3> QED  BY <2>1, <3>1, FoldExists
  <2>3. ASSUME NEW S \in SUBSET (1 .. n), S # {}
        PROVE  op[<<g[S \ {Max(S)}], q[Max(S)]>>]
                 = IF q[Max(S)] > g[S \ {Max(S)}] THEN q[Max(S)] ELSE g[S \ {Max(S)}]
    <3>1. Max(S) \in 1 .. n
      BY <2>3, MaxIs
    <3>2. S \ {Max(S)} \in SUBSET (1 .. n)
      OBVIOUS
    <3>3. g[S \ {Max(S)}] \in Nat /\ q[Max(S)] \in Nat
      BY <3>1, <3>2
    <3> QED  BY <3>3
  <2> HIDE DEF op
  <2>4. g = F(g)
    BY <2>2, <2>3 DEF IsFold
  <2> QED  BY <2>4
<1>2. f = F(f)
  <2> HIDE DEF F
  <2> QED  BY <1>1
<1>3. LargestOf(q) = f[1 .. n]
  BY DEF LargestOf, FoldLeft, MapThenFoldSet
<1> HIDE DEF f
<1>4. f[{}] = 0
  BY <1>2
<1>5. ASSUME NEW k \in 0 .. n - 1
      PROVE  f[1 .. k + 1] = IF q[k + 1] > f[1 .. k] THEN q[k + 1] ELSE f[1 .. k]
  <2>1. Max(1 .. k + 1) = k + 1
    BY MaxLast
  <2>2. (1 .. k + 1) \ {k + 1} = 1 .. k
    OBVIOUS
  <2>3. 1 .. k + 1 \in SUBSET (1 .. n) /\ k + 1 \in 1 .. k + 1
    OBVIOUS
  <2> QED  BY <1>2, <2>1, <2>2, <2>3
<1> DEFINE Right(k) == /\ f[1 .. k] \in Nat
                       /\ \A p \in 1 .. k : q[p] <= f[1 .. k]
                       /\ f[1 .. k] = 0 \/ \E p \in 1 .. k : q[p] = f[1 .. k]
           T == {k \in 0 .. n : Right(k)}
<1>6. 0 \in T
  BY <1>4
<1>7. ASSUME NEW k \in 0 .. n - 1, k \in T PROVE k + 1 \in T
  <2>1. Right(k) /\ q[k + 1] \in Nat /\ k + 1 \in 0 .. n /\ \A p \in 1 .. k : q[p] \in Nat
    BY <1>7
  <2>2. \A p \in 1 .. k + 1 : p \in 1 .. k \/ p = k + 1
    OBVIOUS
  <2>3. k + 1 \in 1 .. k + 1 /\ \A p \in 1 .. k : p \in 1 .. k + 1
    OBVIOUS
  <2>4. Right(k + 1)
    <3>1. CASE q[k + 1] > f[1 .. k]
      BY <1>5, <2>1, <2>2, <2>3, <3>1
    <3>2. CASE ~(q[k + 1] > f[1 .. k])
      <4>1. f[1 .. k + 1] = f[1 .. k] /\ q[k + 1] <= f[1 .. k]
        BY <1>5, <2>1, <3>2
      <4> QED  BY <2>1, <2>2, <2>3, <4>1
    <3> QED  BY <3>1, <3>2
  <2> QED  BY <2>1, <2>4
<1> HIDE DEF Right
<1>8. n \in T
  <2> HIDE DEF T
  <2>1. n \in Nat /\ n \in 0 .. n
    OBVIOUS
  <2> QED  BY <1>6, <1>7, <2>1, AllUpTo
<1>9. Right(n)
  BY <1>8
<1> QED  BY <1>3, <1>9 DEF Right

-----------------------------------------------------------------------------
(* The tables that the code can have made, and what recalc() makes of them. *)

LEMMA TopIs ==
    /\ TopWeight \in Weights /\ TopWeight \in Nat \ {0}
    /\ \A w \in Weights : w \in 1 .. TopWeight
<1>1. \E top \in Weights : \A w \in Weights : w <= top
  BY WRRAssumption
<1>2. TopWeight \in Weights /\ \A w \in Weights : w <= TopWeight
  BY <1>1 DEF TopWeight
<1> QED  BY <1>2, WRRAssumption

LEMMA NodesIs == Cardinality(Node) \in Nat
BY WRRAssumption, FS_CardinalityType

(* The tables that the code can have made. *)
Entry == [id : Node, item : Client \cup {NoClient},
          weight : 0 .. TopWeight, old : 1 .. TopWeight]
Table == [present : BOOLEAN, items : Seq(Entry), gcd : 0 .. TopWeight,
          max : 0 .. TopWeight, index : -1 .. Cardinality(Node) - 1,
          cw : 0 .. TopWeight]

LEMMA TableIs ==
    ASSUME NEW t \in Table
    PROVE  /\ t.items \in Seq(Entry) /\ Len(t.items) \in Nat
           /\ DOMAIN t.items = 1 .. Len(t.items)
           /\ \A p \in DOMAIN t.items :
                /\ t.items[p] \in Entry /\ t.items[p].id \in Node
                /\ t.items[p].item \in Client \cup {NoClient}
                /\ t.items[p].weight \in 0 .. TopWeight /\ t.items[p].weight \in Nat
                /\ t.items[p].old \in 1 .. TopWeight
           /\ t.gcd \in 0 .. TopWeight /\ t.max \in 0 .. TopWeight /\ t.cw \in 0 .. TopWeight
           /\ t.index \in -1 .. Cardinality(Node) - 1
<1>1. t.items \in Seq(Entry)
  BY DEF Table
<1>2. Len(t.items) \in Nat /\ DOMAIN t.items = 1 .. Len(t.items)
  BY <1>1
<1>3. \A p \in DOMAIN t.items : t.items[p] \in Entry
  BY <1>1, <1>2
<1> QED  BY <1>1, <1>2, <1>3, TopIs DEF Table, Entry

(* Recalculated, of any table. *)
DividesAll(d, s) == \A p \in DOMAIN s : s[p].weight % d = 0
NoWeights(s) == \A p \in DOMAIN s : s[p].weight = 0

Settled(t) ==
    /\ NoWeights(t.items) => t.gcd = 0 /\ t.max = 0
    /\ ~NoWeights(t.items) =>
         /\ \E p \in DOMAIN t.items : t.items[p].weight = t.max
         /\ \A p \in DOMAIN t.items : t.items[p].weight <= t.max
         /\ DividesAll(t.gcd, t.items)
         /\ \A d \in t.gcd + 1 .. TopWeight : ~DividesAll(d, t.items)

LEMMA SettledIs == Recalculated <=> Settled(table)
<1> DEFINE W == {i.weight : i \in Items}
<1>1. W = {table.items[p].weight : p \in DOMAIN table.items}
  BY DEF Items
<1>2. W \subseteq {0} <=> NoWeights(table.items)
  BY <1>1 DEF NoWeights
<1>3. \A d : (\A w \in W : w % d = 0) <=> DividesAll(d, table.items)
  BY <1>1 DEF DividesAll
<1>4. /\ table.max \in W <=> \E p \in DOMAIN table.items : table.items[p].weight = table.max
      /\ (\A w \in W : w <= table.max)
           <=> \A p \in DOMAIN table.items : table.items[p].weight <= table.max
  BY <1>1
<1> HIDE DEF W
<1>5. Recalculated <=>
        /\ W \subseteq {0} => table.gcd = 0 /\ table.max = 0
        /\ ~(W \subseteq {0}) => /\ table.max \in W /\ \A w \in W : w <= table.max
                                 /\ \A w \in W : w % table.gcd = 0
                                 /\ \A d \in table.gcd + 1 .. TopWeight : ~ \A w \in W : w % d = 0
  BY DEF Recalculated, W
<1> QED  BY <1>2, <1>3, <1>4, <1>5, Zenon DEF Settled

(* What a table with a right divisor and maximum is. *)
LEMMA SettledGcd ==
    ASSUME NEW t \in Table, Settled(t), ~NoWeights(t.items)
    PROVE  t.gcd \in 1 .. TopWeight
<1>1. t.gcd \in 0 .. TopWeight /\ TopWeight >= 1 /\ TopWeight \in Nat
  BY TopIs DEF Table
<1>2. \A p \in DOMAIN t.items : t.items[p].weight \in Nat
  BY TableIs
<1>3. DividesAll(1, t.items)
  BY <1>2 DEF DividesAll
<1> QED  BY <1>1, <1>3 DEF Settled

(* recalc() of a table settles it and changes nothing else. *)
LEMMA RecalcIs ==
    ASSUME NEW t \in Table
    PROVE  /\ Recalc(t) \in Table /\ Settled(Recalc(t))
           /\ Recalc(t).items = t.items /\ Recalc(t).present = t.present
           /\ Recalc(t).index = t.index /\ Recalc(t).cw = t.cw
<1> DEFINE n == Len(t.items)
           q == [p \in DOMAIN t.items |-> t.items[p].weight]
           G == GcdOf(q)  L == LargestOf(q)
<1>1. t.items \in Seq(Entry) /\ n \in Nat /\ DOMAIN t.items = 1 .. n
  BY TableIs
<1>2. q \in [1 .. n -> Nat] /\ \A p \in 1 .. n : q[p] = t.items[p].weight /\ q[p] \in 0 .. TopWeight
  BY <1>1, TableIs
<1>3. Recalc(t) = [t EXCEPT !.gcd = G, !.max = L]
  BY RecalcFolds
<1> HIDE DEF q
<1>4. G \in Nat /\ \A d \in Number : Divides(d, G) <=> \A p \in 1 .. n : Divides(d, q[p])
  <2> HIDE DEF n
  <2> QED  BY <1>1, <1>2, GcdOfIs
<1>5. /\ L \in Nat /\ \A p \in 1 .. n : q[p] <= L
      /\ L = 0 \/ \E p \in 1 .. n : q[p] = L
  <2> HIDE DEF n
  <2> QED  BY <1>1, <1>2, LargestOfIs
<1> HIDE DEF G, L
<1>6. L \in 0 .. TopWeight
  BY <1>2, <1>5, TopIs
<1>7. NoWeights(t.items) <=> \A p \in 1 .. n : q[p] = 0
  BY <1>1, <1>2 DEF NoWeights
<1>8. \A d \in Number : DividesAll(d, t.items) <=> \A p \in 1 .. n : Divides(d, q[p])
  BY <1>1, <1>2 DEF DividesAll, Divides
<1>9. CASE NoWeights(t.items)
  <2>1. \A p \in 1 .. n : q[p] = 0
    BY <1>7, <1>9
  <2>2. G = 0
    <3>1. \A d \in Number : Divides(d, G) <=> Divides(d, 0)
      BY <1>4, <2>1, DividesSelf
    <3> QED  BY <1>4, <3>1, SameDivisors
  <2>3. L = 0
    BY <1>5, <2>1
  <2>4. Settled(Recalc(t))
    BY <1>3, <1>9, <2>2, <2>3 DEF Settled, Table
  <2>5. Recalc(t) = [t EXCEPT !.gcd = 0, !.max = 0] /\ 0 \in 0 .. TopWeight
    BY <1>3, <1>6, <2>2, <2>3
  <2> QED  BY <2>4, <2>5 DEF Table
<1>10. CASE ~NoWeights(t.items)
  <2>1. PICK p \in 1 .. n : q[p] # 0
    BY <1>7, <1>10
  <2>2. G # 0
    <3>1. SUFFICES ASSUME G = 0 PROVE FALSE
      OBVIOUS
    <3>2. \A d \in Number : Divides(d, q[p]) <=> Divides(d, 0)
      BY <1>4, <3>1, DividesSelf
    <3> QED  BY <1>2, <2>1, <3>2, SameDivisors
  <2>3. G \in Number
    BY <1>4, <2>2 DEF Number
  <2>4. \A r \in 1 .. n : Divides(G, q[r])
    BY <1>4, <2>3, DividesSelf
  <2>5. G \in 1 .. TopWeight
    <3>1. q[p] \in Number /\ q[p] <= TopWeight /\ q[p] \in Nat
      BY <1>2, <2>1 DEF Number
    <3>2. G <= q[p]
      BY <2>3, <2>4, <3>1, DividesLess
    <3> QED  BY <2>3, <3>1, <3>2, TopIs DEF Number
  <2>6. ASSUME NEW d \in G + 1 .. TopWeight PROVE ~DividesAll(d, t.items)
    <3>1. d \in Number /\ G < d
      BY <2>5, TopIs DEF Number
    <3>2. ~Divides(d, G)
      BY <2>3, <3>1, DividesLess DEF Number
    <3> QED  BY <1>4, <1>8, <3>1, <3>2
  <2>7. \E r \in 1 .. n : q[r] = L
    BY <1>2, <1>5, <2>1
  <2>8. DividesAll(G, t.items)
    BY <1>8, <2>3, <2>4
  <2>9. /\ \E r \in DOMAIN t.items : t.items[r].weight = L
        /\ \A r \in DOMAIN t.items : t.items[r].weight <= L
    BY <1>1, <1>2, <1>5, <2>7
  <2>10. Settled(Recalc(t))
    <3>1. Recalc(t).items = t.items /\ Recalc(t).gcd = G /\ Recalc(t).max = L
      BY <1>3 DEF Table
    <3> QED  BY <1>10, <2>6, <2>8, <2>9, <3>1 DEF Settled
  <2>11. G \in 0 .. TopWeight
    BY <2>5
  <2> QED  BY <1>3, <1>6, <2>10, <2>11 DEF Table
<1> QED  BY <1>9, <1>10

-----------------------------------------------------------------------------
(* The operations on a table.                                              *)

(* Table u is t with entry e at position p and, perhaps, another divisor   *)
(* and maximum.                                                            *)
Replaced(t, u, p, e) ==
    /\ u \in Table
    /\ u.items = [t.items EXCEPT ![p] = e]
    /\ u.present = t.present /\ u.index = t.index /\ u.cw = t.cw

LEMMA ReplaceIs ==
    ASSUME NEW t \in Table, NEW p \in DOMAIN t.items, NEW e \in Entry
    PROVE  Replaced(t, [t EXCEPT !.items = [t.items EXCEPT ![p] = e]], p, e)
<1>1. [t.items EXCEPT ![p] = e] \in Seq(Entry)
  BY TableIs
<1> QED  BY <1>1 DEF Replaced, Table

(* The entry i as enable() and disable() leave it. *)
On(i) == [i EXCEPT !.weight = i.old]
Off(i) == [i EXCEPT !.weight = 0, !.old = i.weight]

LEMMA EntryIs ==
    ASSUME NEW i \in Entry
    PROVE  /\ On(i) \in Entry /\ On(i).id = i.id /\ On(i).item = i.item
           /\ On(i).weight = i.old /\ i.old > 0
           /\ i.weight # 0 => /\ Off(i) \in Entry /\ Off(i).id = i.id
                              /\ Off(i).item = i.item /\ Off(i).weight = 0
<1>1. /\ i.weight \in 0 .. TopWeight /\ i.old \in 1 .. TopWeight
      /\ i.id \in Node /\ i.item \in Client \cup {NoClient}
  BY DEF Entry
<1>2. i.old > 0 /\ i.old \in 0 .. TopWeight /\ 0 \in 0 .. TopWeight
  BY <1>1, TopIs
<1>3. /\ On(i) \in Entry /\ On(i).id = i.id /\ On(i).item = i.item
      /\ On(i).weight = i.old
  BY <1>1, <1>2 DEF On, Entry
<1>4. i.weight # 0 => i.weight \in 1 .. TopWeight
  BY <1>1, TopIs
<1>5. Off(i).id = i.id /\ Off(i).item = i.item /\ Off(i).weight = 0
  BY DEF Off, Entry
<1>6. ASSUME i.weight # 0 PROVE Off(i) \in Entry
  BY <1>2, <1>4, <1>6 DEF Off, Entry
<1> QED  BY <1>2, <1>3, <1>5, <1>6

LEMMA EnableIs ==
    ASSUME NEW t \in Table, NEW p \in DOMAIN t.items
    PROVE  \E e \in Entry :
             /\ Replaced(t, Enable(t, p), p, e)
             /\ e.id = t.items[p].id /\ e.item = t.items[p].item /\ e.weight > 0
             /\ Settled(t) => Settled(Enable(t, p))
<1> DEFINE i == t.items[p]
<1>1. /\ i \in Entry /\ i.weight \in Nat /\ i.old \in 1 .. TopWeight
      /\ t.items \in Seq(Entry) /\ DOMAIN t.items = 1 .. Len(t.items)
  BY TableIs
<1>2. CASE i.weight > 0
  <2>1. Enable(t, p) = t
    BY <1>2 DEF Enable
  <2>2. [t.items EXCEPT ![p] = i] = t.items
    BY <1>1
  <2>3. Replaced(t, t, p, i)
    BY <2>2 DEF Replaced
  <2> QED  BY <1>1, <1>2, <2>1, <2>3
<1>3. CASE ~(i.weight > 0)
  <2> DEFINE e == On(i)
             u == [t EXCEPT !.items = [t.items EXCEPT ![p] = e]]
  <2>1. e \in Entry /\ e.id = i.id /\ e.item = i.item /\ e.weight > 0
    BY <1>1, EntryIs
  <2>2. Enable(t, p) = Recalc(u)
    BY <1>1, <1>3 DEF Enable, Table, On
  <2>3. Replaced(t, u, p, e)
    BY <2>1, ReplaceIs
  <2> HIDE DEF e, u
  <2>4. u \in Table
    BY <2>3 DEF Replaced
  <2>5. Replaced(t, Recalc(u), p, e) /\ Settled(Recalc(u))
    BY <2>3, <2>4, RecalcIs DEF Replaced
  <2> QED  BY <2>1, <2>2, <2>5
<1> QED  BY <1>2, <1>3

LEMMA DisableIs ==
    ASSUME NEW t \in Table, NEW p \in DOMAIN t.items
    PROVE  \E e \in Entry :
             /\ Replaced(t, Disable(t, p), p, e)
             /\ e.id = t.items[p].id /\ e.item = t.items[p].item /\ e.weight = 0
             /\ Settled(t) => Settled(Disable(t, p))
<1> DEFINE i == t.items[p]
<1>1. /\ i \in Entry /\ i.weight \in Nat /\ i.weight <= TopWeight
      /\ t.items \in Seq(Entry) /\ DOMAIN t.items = 1 .. Len(t.items)
  BY TableIs, TopIs
<1>2. CASE i.weight = 0
  <2>1. Disable(t, p) = t
    BY <1>2 DEF Disable
  <2>2. [t.items EXCEPT ![p] = i] = t.items
    BY <1>1
  <2>3. Replaced(t, t, p, i)
    BY <2>2 DEF Replaced
  <2> QED  BY <1>1, <1>2, <2>1, <2>3
<1>3. CASE i.weight # 0
  <2> DEFINE e == Off(i)
             u == [t EXCEPT !.items = [t.items EXCEPT ![p] = e]]
  <2>1. e \in Entry /\ e.id = i.id /\ e.item = i.item /\ e.weight = 0
    BY <1>1, <1>3, EntryIs
  <2>2. Disable(t, p) = Recalc(u)
    BY <1>1, <1>3 DEF Disable, Table, Entry, Off
  <2>3. Replaced(t, u, p, e)
    BY <2>1, ReplaceIs
  <2> HIDE DEF e, u
  <2>4. u \in Table
    BY <2>3 DEF Replaced
  <2>5. Replaced(t, Recalc(u), p, e) /\ Settled(Recalc(u))
    BY <2>3, <2>4, RecalcIs DEF Replaced
  <2> QED  BY <2>1, <2>2, <2>5
<1> QED  BY <1>2, <1>3

(* The table whose entries have the same weights is as settled. *)
LEMMA SettledSame ==
    ASSUME NEW t \in Table, NEW u \in Table, u.gcd = t.gcd, u.max = t.max,
           DOMAIN u.items = DOMAIN t.items,
           \A p \in DOMAIN t.items : u.items[p].weight = t.items[p].weight
    PROVE  Settled(t) <=> Settled(u)
BY DEF Settled, NoWeights, DividesAll

(* update_client(): the entry of node n, if there is one, has client c,    *)
(* and takes part in the rotation if c is a client.                        *)
LEMMA UpdateIs ==
    ASSUME NEW t \in Table, NEW n \in Node, NEW c \in Client \cup {NoClient},
           Position(t, n) # {}
    PROVE  \E p \in Position(t, n), e \in Entry :
             /\ Replaced(t, Update(t, n, c), p, e)
             /\ e.id = n /\ e.item = c /\ (e.weight > 0 <=> c # NoClient)
             /\ Settled(t) => Settled(Update(t, n, c))
<1> DEFINE p == CHOOSE q \in Position(t, n) : TRUE
           i == t.items[p]
           e == [i EXCEPT !.item = c]
           set == [t EXCEPT !.items = [t.items EXCEPT ![p] = e]]
<1>1. p \in Position(t, n)
  OBVIOUS
<1>2. Update(t, n, c) = IF c = NoClient THEN Disable([t EXCEPT !.items[p].item = c], p)
                        ELSE Enable([t EXCEPT !.items[p].item = c], p)
  BY DEF Update
<1> HIDE DEF p
<1>3. p \in DOMAIN t.items /\ i.id = n
  BY <1>1 DEF Position
<1>4. i \in Entry /\ t.items \in Seq(Entry) /\ DOMAIN t.items = 1 .. Len(t.items)
  BY <1>3, TableIs
<1>5. e \in Entry /\ e.id = n /\ e.item = c /\ e.weight = i.weight
  BY <1>3, <1>4 DEF Entry
<1>6. [t EXCEPT !.items[p].item = c] = set
  BY <1>3, <1>4 DEF Table
<1>7. Replaced(t, set, p, e)
  BY <1>3, <1>5, ReplaceIs
<1>8. set \in Table /\ set.items = [t.items EXCEPT ![p] = e]
  BY <1>7 DEF Replaced
<1>9. set.gcd = t.gcd /\ set.max = t.max
  BY DEF Table
<1> HIDE DEF e, set
<1>10. p \in DOMAIN set.items /\ set.items[p] = e /\ DOMAIN set.items = DOMAIN t.items
  BY <1>3, <1>8
<1>11. Settled(t) => Settled(set)
  BY <1>5, <1>8, <1>9, <1>10, SettledSame
<1>12. PICK f \in Entry : /\ Replaced(set, Update(t, n, c), p, f)
                          /\ f.id = n /\ f.item = c /\ (f.weight > 0 <=> c # NoClient)
                          /\ Settled(set) => Settled(Update(t, n, c))
  <2>1. CASE c = NoClient
    BY <1>2, <1>5, <1>6, <1>8, <1>10, <2>1, DisableIs
  <2>2. CASE c # NoClient
    BY <1>2, <1>5, <1>6, <1>8, <1>10, <2>2, EnableIs
  <2> QED  BY <2>1, <2>2
<1>13. [set.items EXCEPT ![p] = f] = [t.items EXCEPT ![p] = f]
  BY <1>8, <1>4
<1>14. Replaced(t, Update(t, n, c), p, f)
  BY <1>7, <1>12, <1>13 DEF Replaced
<1> QED  BY <1>1, <1>11, <1>12, <1>14

SetAt(s, k, f) == [s EXCEPT ![k] = f]

LEMMA AppendLast ==
    ASSUME NEW S, NEW s \in Seq(S), NEW e \in S, NEW f \in S,
           NEW k, k = Len(s) + 1
    PROVE  SetAt(Append(s, e), k, f) = Append(s, f)
<1> USE k = Len(s) + 1
<1> DEFINE a == Append(s, e)  b == Append(s, f)  c == [a EXCEPT ![k] = f]
<1>1. /\ a \in Seq(S) /\ Len(a) = Len(s) + 1
      /\ \A q \in 1 .. Len(s) : a[q] = s[q]
  OBVIOUS
<1>2. /\ b \in Seq(S) /\ Len(b) = Len(s) + 1 /\ b[Len(s) + 1] = f
      /\ \A q \in 1 .. Len(s) : b[q] = s[q]
  OBVIOUS
<1> HIDE DEF a, b
<1>3. c \in Seq(S) /\ Len(c) = Len(s) + 1
  BY <1>1
<1>4. \A q \in 1 .. Len(s) + 1 : c[q] = b[q]
  <2>1. \A q \in 1 .. Len(s) + 1 : q \in 1 .. Len(s) \/ q = Len(s) + 1
    OBVIOUS
  <2>2. \A q \in 1 .. Len(s) : q # Len(s) + 1 /\ q \in DOMAIN a
    BY <1>1
  <2>3. Len(s) + 1 \in DOMAIN a
    BY <1>1
  <2> QED  BY <1>1, <1>2, <2>1, <2>2, <2>3
<1> HIDE DEF c
<1>5. c = b
  BY <1>2, <1>3, <1>4, SeqEqual
<1> QED  BY <1>5 DEF a, b, c, SetAt

(* add_node(): the new entry is the last one, and is disabled if it has no *)
(* client.                                                                 *)
LEMMA AddIs ==
    ASSUME NEW t \in Table, NEW n \in Node, NEW w \in 1 .. TopWeight,
           NEW c \in Client \cup {NoClient}
    PROVE  LET u == Add(t, n, w, c)
               k == Len(t.items) + 1
           IN  /\ u \in Table /\ Settled(u) /\ u.present /\ Len(u.items) = k
               /\ \A q \in 1 .. Len(t.items) : u.items[q] = t.items[q]
               /\ u.items[k].id = n /\ u.items[k].item = c
               /\ u.items[k].weight > 0 <=> c # NoClient
<1> DEFINE e == [id |-> n, item |-> c, weight |-> w, old |-> w]
           u == [t EXCEPT !.present = TRUE, !.items = Append(t.items, e)]
           k == Len(t.items) + 1
           s == Recalc(u)
<1>1. Add(t, n, w, c) = IF c = NoClient THEN Disable(s, Len(s.items)) ELSE s
  BY DEF Add, Table
<1>2. e \in Entry /\ w \in Nat /\ w > 0
  BY TopIs DEF Entry
<1>3. t.items \in Seq(Entry) /\ DOMAIN t.items = 1 .. Len(t.items) /\ Len(t.items) \in Nat
  BY TableIs
<1>4. Append(t.items, e) \in Seq(Entry) /\ Len(Append(t.items, e)) = k
  BY <1>2, <1>3
<1>5. u \in Table /\ u.items = Append(t.items, e) /\ u.present = TRUE
  <2> HIDE DEF e
  <2> QED  BY <1>4 DEF Table
<1>6. e.id = n /\ e.item = c /\ e.weight = w
  OBVIOUS
<1> HIDE DEF e, u
<1>7. s \in Table /\ s.items = Append(t.items, e) /\ s.present = TRUE /\ Settled(s)
  BY <1>5, RecalcIs
<1> HIDE DEF s
<1>8. CASE c # NoClient
  <2>1. Add(t, n, w, c) = s /\ s.items[k] = e
    BY <1>1, <1>2, <1>3, <1>7, <1>8
  <2>2. \A q \in 1 .. Len(t.items) : s.items[q] = t.items[q]
    BY <1>2, <1>3, <1>7
  <2> HIDE DEF k
  <2> QED  BY <1>2, <1>4, <1>6, <1>7, <1>8, <2>1, <2>2 DEF k
<1>9. CASE c = NoClient
  <2>1. Len(s.items) = k /\ k \in DOMAIN s.items /\ s.items[k] = e
    BY <1>2, <1>3, <1>4, <1>7
  <2>2. PICK f \in Entry : /\ Replaced(s, Disable(s, k), k, f)
                           /\ f.id = n /\ f.item = c /\ f.weight = 0
                           /\ Settled(Disable(s, k))
    BY <1>6, <1>7, <2>1, DisableIs
  <2>3. [Append(t.items, e) EXCEPT ![k] = f] = Append(t.items, f)
    <3>1. k = Len(t.items) + 1
      OBVIOUS
    <3> HIDE DEF k
    <3>2. e \in Entry /\ f \in Entry /\ t.items \in Seq(Entry)
      BY <1>2, <1>3
    <3>3. SetAt(Append(t.items, e), k, f) = Append(t.items, f)
      BY <3>1, <3>2, AppendLast
    <3> QED  BY <3>3 DEF SetAt
  <2>4. /\ Disable(s, k) \in Table /\ Disable(s, k).items = Append(t.items, f)
        /\ Disable(s, k).present = TRUE
    BY <1>7, <2>2, <2>3 DEF Replaced
  <2>5. Add(t, n, w, c) = Disable(s, k)
    BY <1>1, <1>9, <2>1
  <2>6. f \in Entry
    OBVIOUS
  <2>7. /\ Len(Append(t.items, f)) = k /\ Append(t.items, f)[k] = f
        /\ \A q \in 1 .. Len(t.items) : Append(t.items, f)[q] = t.items[q]
    BY <1>3, <2>6
  <2> HIDE DEF k
  <2> QED  BY <1>9, <2>2, <2>4, <2>5, <2>7 DEF k
<1> QED  BY <1>8, <1>9

(* RemoveAt() leaves out one position of a sequence. *)
LEMMA RemoveAtIs ==
    ASSUME NEW S, NEW s \in Seq(S), NEW p \in 1 .. Len(s)
    PROVE  /\ RemoveAt(s, p) \in Seq(S)
           /\ Len(RemoveAt(s, p)) = Len(s) - 1
           /\ \A q \in 1 .. Len(s) - 1 :
                RemoveAt(s, p)[q] = IF q < p THEN s[q] ELSE s[q + 1]
<1> DEFINE a == SubSeq(s, 1, p - 1)  b == SubSeq(s, p + 1, Len(s))
<1>1. /\ a \in Seq(S) /\ Len(a) = p - 1
      /\ \A q \in 1 .. p - 1 : a[q] = s[q]
  OBVIOUS
<1>2. /\ b \in Seq(S) /\ Len(b) = Len(s) - p
      /\ \A q \in 1 .. Len(s) - p : b[q] = s[q + p]
  OBVIOUS
<1>3. RemoveAt(s, p) = a \o b
  BY DEF RemoveAt
<1> HIDE DEF a, b
<1>4. /\ a \o b \in Seq(S) /\ Len(a \o b) = Len(s) - 1
      /\ \A q \in 1 .. Len(s) - 1 :
           (a \o b)[q] = IF q < p THEN a[q] ELSE b[q - (p - 1)]
  <2>1. a \o b \in Seq(S) /\ Len(a \o b) = Len(a) + Len(b)
    BY <1>1, <1>2, ConcatProperties
  <2>2. \A q \in 1 .. Len(a) + Len(b) : (a \o b)[q] = IF q <= Len(a) THEN a[q] ELSE b[q - Len(a)]
    BY <1>1, <1>2, ConcatProperties
  <2>3. Len(a) + Len(b) = Len(s) - 1 /\ Len(s) \in Nat
    BY <1>1, <1>2
  <2> QED  BY <1>1, <2>1, <2>2, <2>3
<1>5. ASSUME NEW q \in 1 .. Len(s) - 1
      PROVE  (a \o b)[q] = IF q < p THEN s[q] ELSE s[q + 1]
  <2>1. CASE q < p
    <3>1. q \in 1 .. p - 1
      BY <2>1
    <3> QED  BY <1>1, <1>4, <2>1, <3>1
  <2>2. CASE ~(q < p)
    <3>1. q - (p - 1) \in 1 .. Len(s) - p /\ q - (p - 1) + p = q + 1
      BY <2>2
    <3> QED  BY <1>2, <1>4, <2>2, <3>1
  <2> QED  BY <2>1, <2>2
<1> QED  BY <1>3, <1>4, <1>5

LEMMA RemoveItemIs ==
    ASSUME NEW t \in Table, NEW n \in Node, Position(t, n) # {}
    PROVE  \E p \in Position(t, n) :
             /\ RemoveItem(t, n) \in Table /\ Settled(RemoveItem(t, n))
             /\ RemoveItem(t, n).items = RemoveAt(t.items, p)
             /\ RemoveItem(t, n).present = t.present
<1> DEFINE p == CHOOSE q \in Position(t, n) : TRUE
           u == [t EXCEPT !.items = RemoveAt(t.items, p)]
<1>1. p \in Position(t, n)
  OBVIOUS
<1>2. RemoveItem(t, n) = Recalc(u)
  BY DEF RemoveItem, Table
<1> HIDE DEF p
<1>3. p \in 1 .. Len(t.items) /\ t.items \in Seq(Entry)
  BY <1>1, TableIs DEF Position
<1>4. RemoveAt(t.items, p) \in Seq(Entry)
  BY <1>3, RemoveAtIs
<1>5. u \in Table /\ u.items = RemoveAt(t.items, p) /\ u.present = t.present
  BY <1>4 DEF Table
<1> HIDE DEF u
<1> QED  BY <1>1, <1>2, <1>5, RecalcIs

-----------------------------------------------------------------------------
(* The lookup, run().                                                      *)

LEMMA RestIs ==
    ASSUME NEW n \in Number, NEW q \in Int, NEW r \in 0 .. n - 1, NEW x \in Int,
           x = n * q + r
    PROVE  x % n = r
<1> DEFINE a == x \div n  s == x % n
<1>1. x = n * a + s /\ a \in Int /\ s \in 0 .. n - 1
  BY DEF Number
<1> HIDE DEF a, s
<1>2. n * (q - a) = s - r
  BY <1>1 DEF Number
<1>3. q - a = 0 \/ q - a >= 1 \/ q - a <= -1
  BY <1>1
<1>4. q - a >= 1 => n * (q - a) >= n
  BY <1>1 DEF Number
<1>5. q - a <= -1 => n * (q - a) <= -n
  BY <1>1 DEF Number
<1>6. q - a = 0
  BY <1>1, <1>2, <1>3, <1>4, <1>5 DEF Number
<1>7. s = r
  BY <1>1, <1>2, <1>6 DEF Number
<1> QED  BY <1>7 DEF s

LEMMA RestRange ==
    ASSUME NEW n \in Number, NEW x \in Int
    PROVE  x % n \in 0 .. n - 1 /\ x \div n \in Int /\ x = n * (x \div n) + (x % n)
BY DEF Number

(* The remainder of the k-th next number. *)
LEMMA RestNext ==
    ASSUME NEW n \in Number, NEW i \in Int, NEW b, b = (i + 1) % n, NEW k \in 1 .. n
    PROVE  (i + k) % n = IF b + k - 1 < n THEN b + k - 1 ELSE b + k - 1 - n
<1>0. i + 1 \in Int
  OBVIOUS
<1>1. PICK q \in Int : i + 1 = n * q + b /\ b \in 0 .. n - 1
  BY <1>0, RestRange
<1>2. n \in Nat /\ i + k \in Int /\ b \in Int
  BY <1>1 DEF Number
<1>3. PICK p \in Int : p = n * q
  BY <1>2
<1>4. n * (q + 1) = p + n
  BY <1>2, <1>3
<1>5. \A x \in Int, r \in 0 .. n - 1 : x = p + r \/ x = p + n + r => x % n = r
  <2> SUFFICES ASSUME NEW x \in Int, NEW r \in 0 .. n - 1, x = p + r \/ x = p + n + r
               PROVE  x % n = r
    OBVIOUS
  <2>1. CASE x = p + r
    BY <1>3, <2>1, RestIs
  <2>2. CASE x = p + n + r
    <3>1. q + 1 \in Int
      OBVIOUS
    <3> QED  BY <1>4, <2>2, <3>1, RestIs
  <2> QED  BY <2>1, <2>2
<1>6. i + k = p + (b + k - 1)
  BY <1>1, <1>2, <1>3
<1>7. CASE b + k - 1 < n
  <2>1. b + k - 1 \in 0 .. n - 1
    BY <1>1, <1>2, <1>7
  <2> QED  BY <1>2, <1>5, <1>6, <1>7, <2>1
<1>8. CASE ~(b + k - 1 < n)
  <2>1. b + k - 1 - n \in 0 .. n - 1 /\ i + k = p + n + (b + k - 1 - n)
    BY <1>1, <1>2, <1>6, <1>8
  <2> QED  BY <1>2, <1>5, <1>8, <2>1
<1> QED  BY <1>7, <1>8

(* run(): the positions it looks at are those from the one after index to  *)
(* the last one and then those from the first one on.                      *)
Base(t) == (t.index + 1) % Len(t.items)
At(t, k) == (t.index + k) % Len(t.items)
Wrapped(t, k) == \E j \in 1 .. k : At(t, j) = 0
Cw(t, k) == IF Wrapped(t, k) THEN Lowered(t) ELSE t.cw
NoWeight(t, k) == At(t, k) = 0 /\ Cw(t, k) = 0
Matches(t, k) == t.items[At(t, k) + 1].weight > 0 /\ t.items[At(t, k) + 1].weight >= Cw(t, k)

LEMMA AtIs ==
    ASSUME NEW t \in Table, t.items # <<>>
    PROVE  /\ Len(t.items) \in Number /\ Base(t) \in 0 .. Len(t.items) - 1
           /\ t.index \in 0 .. Len(t.items) - 2 => Base(t) = t.index + 1
           /\ t.index = Len(t.items) - 1 => Base(t) = 0
           /\ \A k \in 1 .. Len(t.items) :
                /\ At(t, k) = IF Base(t) + k - 1 < Len(t.items) THEN Base(t) + k - 1
                              ELSE Base(t) + k - 1 - Len(t.items)
                /\ At(t, k) \in 0 .. Len(t.items) - 1
                /\ Wrapped(t, k) <=> (Base(t) = 0 \/ Base(t) + k - 1 >= Len(t.items))
<1>1. PICK n \in Number, i \in Int : n = Len(t.items) /\ i = t.index
  <2>1. Len(t.items) \in Nat /\ Len(t.items) # 0
    BY TableIs, EmptySeq
  <2>2. t.index \in Int
    BY TableIs, NodesIs
  <2> QED  BY <2>1, <2>2 DEF Number
<1>2. PICK b \in 0 .. n - 1 : b = (i + 1) % n
  <2>1. i + 1 \in Int
    OBVIOUS
  <2> QED  BY <2>1, RestRange
<1>3. Base(t) = b /\ \A k : At(t, k) = (i + k) % n
  BY <1>1, <1>2 DEF Base, At
<1>4. n \in Nat /\ n >= 1
  BY DEF Number
<1>5. /\ i \in 0 .. n - 2 => b = i + 1
      /\ i = n - 1 => b = 0
  <2>1. ASSUME i \in 0 .. n - 2 PROVE b = i + 1
    <3>1. i + 1 = n * 0 + (i + 1) /\ i + 1 \in 0 .. n - 1 /\ i + 1 \in Int
      BY <1>4, <2>1
    <3> QED  BY <1>2, <3>1, RestIs
  <2>2. ASSUME i = n - 1 PROVE b = 0
    <3>1. i + 1 = n * 1 + 0 /\ 0 \in 0 .. n - 1 /\ i + 1 \in Int
      BY <1>4, <2>2
    <3> QED  BY <1>2, <3>1, RestIs
  <2> QED  BY <2>1, <2>2
<1>6. ASSUME NEW k \in 1 .. n
      PROVE  At(t, k) = IF b + k - 1 < n THEN b + k - 1 ELSE b + k - 1 - n
  BY <1>2, <1>3, RestNext
<1>7. \A k \in 1 .. n : At(t, k) \in 0 .. n - 1
  <2> SUFFICES ASSUME NEW k \in 1 .. n PROVE At(t, k) \in 0 .. n - 1
    OBVIOUS
  <2>1. At(t, k) = IF b + k - 1 < n THEN b + k - 1 ELSE b + k - 1 - n
    BY <1>6
  <2> QED  BY <1>4, <2>1
<1>8. ASSUME NEW k \in 1 .. n PROVE Wrapped(t, k) <=> (b = 0 \/ b + k - 1 >= n)
  <2>1. ASSUME NEW j \in 1 .. k, At(t, j) = 0 PROVE b = 0 \/ b + k - 1 >= n
    <3>1. j \in 1 .. n
      BY <1>4
    <3>2. At(t, j) = IF b + j - 1 < n THEN b + j - 1 ELSE b + j - 1 - n
      BY <1>6, <3>1
    <3> QED  BY <1>4, <2>1, <3>2
  <2>2. ASSUME b = 0 PROVE Wrapped(t, k)
    <3>1. 1 \in 1 .. k /\ 1 \in 1 .. n
      BY <1>4
    <3>2. At(t, 1) = IF b + 1 - 1 < n THEN b + 1 - 1 ELSE b + 1 - 1 - n
      BY <1>6, <3>1
    <3>3. At(t, 1) = 0
      BY <1>4, <2>2, <3>2
    <3> QED  BY <3>1, <3>3 DEF Wrapped
  <2>3. ASSUME b # 0, b + k - 1 >= n PROVE Wrapped(t, k)
    <3> DEFINE j == n + 1 - b
    <3>1. j \in 1 .. k /\ j \in 1 .. n /\ b + j - 1 = n
      BY <1>4, <2>3
    <3> HIDE DEF j
    <3>2. At(t, j) = IF b + j - 1 < n THEN b + j - 1 ELSE b + j - 1 - n
      BY <1>6, <3>1
    <3>3. At(t, j) = 0
      BY <1>4, <3>1, <3>2
    <3> QED  BY <3>1, <3>3 DEF Wrapped
  <2> QED  BY <2>1, <2>2, <2>3 DEF Wrapped
<1> QED  BY <1>1, <1>3, <1>5, <1>6, <1>7, <1>8

(* run(): it stops at the first position that matches, and without one at  *)
(* the first position if all weights are 0 or else after n positions.      *)
Stops(t, k) ==
    LET s == Select(t)
    IN  /\ \A j \in 1 .. k - 1 : ~NoWeight(t, j) /\ ~Matches(t, j)
        /\ s.index = At(t, k) /\ s.cw = Cw(t, k)
        /\ s.restarted <=> Wrapped(t, k) /\ Lowered(t) = t.max
        /\ s.found <=> Matches(t, k) /\ ~NoWeight(t, k)
        /\ s.item = t.items[At(t, k) + 1]
        /\ Matches(t, k) \/ NoWeight(t, k) \/ k = Len(t.items)

LEMMA SelectStops ==
    ASSUME NEW t \in Table, t.items # <<>>
    PROVE  \E k \in 1 .. Len(t.items) : Stops(t, k)
<1> DEFINE n == Len(t.items)
           stops == {k \in 1 .. n : NoWeight(t, k) \/ Matches(t, k)}
           last == IF stops = {} THEN n ELSE CHOOSE k \in stops : \A j \in stops : k <= j
           found == stops # {} /\ ~NoWeight(t, last)
<1>1. n \in Nat /\ n # 0
  BY TableIs, EmptySeq
<1>2. Select(t) = [index |-> At(t, last), cw |-> Cw(t, last),
                   restarted |-> Wrapped(t, last) /\ Lowered(t) = t.max,
                   found |-> found, item |-> t.items[At(t, last) + 1]]
  BY DEF Select, At, Wrapped, Cw, NoWeight, Matches
<1> DEFINE s == Select(t)
<1>3. /\ s.index = At(t, last) /\ s.cw = Cw(t, last)
      /\ s.restarted = (Wrapped(t, last) /\ Lowered(t) = t.max)
      /\ s.found = found /\ s.item = t.items[At(t, last) + 1]
  <2> HIDE DEF last, found
  <2> QED  BY <1>2
<1> HIDE DEF s
<1>4. CASE stops = {}
  <2>1. last = n /\ n \in 1 .. n /\ ~found
    BY <1>1, <1>4
  <2>2. \A j \in 1 .. n : ~NoWeight(t, j) /\ ~Matches(t, j)
    BY <1>4
  <2> HIDE DEF last, found
  <2>3. Stops(t, n)
    <3>1. \A j \in 1 .. n - 1 : j \in 1 .. n
      BY <1>1
    <3> QED  BY <1>3, <2>1, <2>2, <3>1 DEF Stops, s
  <2> QED  BY <2>1, <2>3
<1>5. CASE stops # {}
  <2>1. stops \in SUBSET Nat
    OBVIOUS
  <2>2. \E k \in stops : \A j \in stops : k <= j
    <3> HIDE DEF stops
    <3> QED  BY <1>5, <2>1, LeastNatural
  <2>3. last \in stops /\ \A j \in stops : last <= j
    BY <1>5, <2>2
  <2>4. found <=> ~NoWeight(t, last)
    BY <1>5
  <2> HIDE DEF last, found
  <2>5. \A j \in 1 .. last - 1 : j \in 1 .. n /\ ~(last <= j)
    BY <1>1, <2>3
  <2>6. \A j \in 1 .. last - 1 : ~NoWeight(t, j) /\ ~Matches(t, j)
    BY <2>3, <2>5
  <2>7. last \in 1 .. n /\ (NoWeight(t, last) \/ Matches(t, last))
    BY <2>3
  <2> HIDE DEF stops
  <2>8. Stops(t, last)
    BY <1>3, <2>4, <2>6, <2>7 DEF Stops, s
  <2> QED  BY <2>7, <2>8
<1> QED  BY <1>4, <1>5

(* run() keeps index and cw in their ranges. *)
LEMMA LoweredIs ==
    ASSUME NEW t \in Table
    PROVE  Lowered(t) \in 0 .. TopWeight
BY TableIs, TopIs DEF Lowered

LEMMA SelectRange ==
    ASSUME NEW t \in Table, t.items # <<>>, Len(t.items) <= Cardinality(Node)
    PROVE  /\ Select(t).index \in 0 .. Len(t.items) - 1
           /\ Select(t).cw \in 0 .. TopWeight
           /\ Select(t).item = t.items[Select(t).index + 1]
           /\ [t EXCEPT !.index = Select(t).index, !.cw = Select(t).cw] \in Table
<1>1. PICK k \in 1 .. Len(t.items) : Stops(t, k)
  BY SelectStops
<1>2. At(t, k) \in 0 .. Len(t.items) - 1
  BY AtIs
<1>3. Cw(t, k) \in 0 .. TopWeight
  BY LoweredIs, TableIs DEF Cw
<1>4. /\ Select(t).index \in 0 .. Len(t.items) - 1
      /\ Select(t).cw \in 0 .. TopWeight
      /\ Select(t).item = t.items[Select(t).index + 1]
  BY <1>1, <1>2, <1>3 DEF Stops
<1> DEFINE x == Select(t).index  c == Select(t).cw
<1>5. x \in -1 .. Cardinality(Node) - 1 /\ c \in 0 .. TopWeight
  BY <1>4, TableIs, NodesIs
<1> HIDE DEF x, c
<1>6. [t EXCEPT !.index = x, !.cw = c] \in Table
  BY <1>5 DEF Table
<1> QED  BY <1>4, <1>6 DEF x, c

-----------------------------------------------------------------------------
(* The invariant of the list of clients and the table, and what each       *)
(* operation on a table keeps of it.                                       *)

(* The list of clients and the table agree with each other.                *)
Distinct(s) == \A p, q \in DOMAIN s : s[p].id = s[q].id => p = q
Named(s, D) == /\ \A p \in DOMAIN s : s[p].id \in D
               /\ \A n \in D : \E p \in DOMAIN s : s[p].id = n
Listed(t, D) == /\ t \in Table /\ (t.present \/ t.items = <<>>)
                /\ Distinct(t.items) /\ Named(t.items, D)

Sound(s, C) == \A p \in DOMAIN s :
    /\ s[p].item # NoClient => s[p].item \in C /\ NodeOf[s[p].item] = s[p].id
    /\ s[p].weight > 0 <=> s[p].item # NoClient

ListInv == /\ clients \in Seq(Client) /\ IsInjective(clients)
           /\ routed \subseteq Range(clients) /\ active \subseteq Range(clients)
ConfInv == \A n \in DOMAIN conf : n \in Node /\ conf[n] \in 0 .. TopWeight
TableInv == Listed(table, DOMAIN conf) /\ Sound(table.items, Range(clients))
RouteInv == ListInv /\ ConfInv /\ TableInv

LEMMA ReplacedListed ==
    ASSUME NEW t, NEW D, Listed(t, D), NEW u, NEW p \in DOMAIN t.items, NEW e \in Entry,
           Replaced(t, u, p, e), e.id = t.items[p].id
    PROVE  /\ Listed(u, D) /\ DOMAIN u.items = DOMAIN t.items
           /\ \A q \in DOMAIN t.items : u.items[q] = IF q = p THEN e ELSE t.items[q]
<1>1. /\ t \in Table /\ t.items \in Seq(Entry)
      /\ Len(t.items) \in Nat /\ DOMAIN t.items = 1 .. Len(t.items)
  BY TableIs DEF Listed
<1>2. /\ u \in Table /\ u.items = [t.items EXCEPT ![p] = e] /\ u.present = t.present
  BY DEF Replaced
<1>3. /\ DOMAIN u.items = DOMAIN t.items
      /\ \A q \in DOMAIN t.items : u.items[q] = IF q = p THEN e ELSE t.items[q]
  BY <1>1, <1>2
<1>4. \A q \in DOMAIN t.items : u.items[q].id = t.items[q].id
  BY <1>3
<1>5. Distinct(u.items) /\ Named(u.items, D)
  BY <1>3, <1>4 DEF Listed, Distinct, Named
<1>6. t.items # <<>>
  BY <1>1
<1>7. u.present
  BY <1>2, <1>6 DEF Listed
<1> QED  BY <1>2, <1>3, <1>5, <1>7 DEF Listed

LEMMA Updated ==
    ASSUME NEW t, NEW D, Listed(t, D), NEW n \in Node, NEW c \in Client \cup {NoClient}
    PROVE  LET u == Update(t, n, c)
           IN  /\ Listed(u, D) /\ DOMAIN u.items = DOMAIN t.items
               /\ \A q \in DOMAIN t.items :
                    /\ u.items[q].id = t.items[q].id
                    /\ t.items[q].id # n => u.items[q] = t.items[q]
                    /\ t.items[q].id = n => /\ u.items[q].item = c
                                            /\ u.items[q].weight > 0 <=> c # NoClient
               /\ Settled(t) => Settled(u)
<1> DEFINE u == Update(t, n, c)
<1>1. t \in Table
  BY DEF Listed
<1>2. CASE Position(t, n) = {}
  <2>1. u = t
    BY <1>2 DEF Update
  <2>2. \A q \in DOMAIN t.items : t.items[q].id # n
    BY <1>2 DEF Position
  <2> HIDE DEF u
  <2> QED  BY <2>1, <2>2 DEF u
<1>3. CASE Position(t, n) # {}
  <2>1. PICK p \in Position(t, n), e \in Entry :
             /\ Replaced(t, u, p, e)
             /\ e.id = n /\ e.item = c /\ (e.weight > 0 <=> c # NoClient)
             /\ Settled(t) => Settled(u)
    BY <1>1, <1>3, UpdateIs
  <2> HIDE DEF u
  <2>2. p \in DOMAIN t.items /\ t.items[p].id = n /\ e.id = t.items[p].id
    BY <2>1 DEF Position
  <2>3. /\ Listed(u, D) /\ DOMAIN u.items = DOMAIN t.items
        /\ \A q \in DOMAIN t.items : u.items[q] = IF q = p THEN e ELSE t.items[q]
    BY <2>1, <2>2, ReplacedListed
  <2>4. \A q \in DOMAIN t.items : t.items[q].id = n => q = p
    BY <2>2 DEF Listed, Distinct
  <2> QED  BY <2>1, <2>2, <2>3, <2>4 DEF u
<1> QED  BY <1>2, <1>3

(* Table u is t and one more entry. *)
Longer(t, u, n, c) ==
    /\ Len(t.items) \in Nat /\ DOMAIN t.items = 1 .. Len(t.items)
    /\ DOMAIN u.items = 1 .. Len(t.items) + 1
    /\ \A q \in DOMAIN t.items : u.items[q] = t.items[q]
    /\ u.items[Len(t.items) + 1].id = n /\ u.items[Len(t.items) + 1].item = c
    /\ u.items[Len(t.items) + 1].weight > 0 <=> c # NoClient

LEMMA Added ==
    ASSUME NEW t, NEW D, Listed(t, D), NEW n \in Node, n \notin D, NEW w \in 1 .. TopWeight,
           NEW c \in Client \cup {NoClient}
    PROVE  /\ Listed(Add(t, n, w, c), D \cup {n}) /\ Settled(Add(t, n, w, c))
           /\ Longer(t, Add(t, n, w, c), n, c)
<1> DEFINE u == Add(t, n, w, c)  k == Len(t.items) + 1
<1>1. /\ t \in Table /\ t.items \in Seq(Entry)
      /\ Len(t.items) \in Nat /\ DOMAIN t.items = 1 .. k - 1
  BY TableIs DEF Listed
<1>2. /\ u \in Table /\ Settled(u) /\ u.present /\ Len(u.items) = k
      /\ \A q \in 1 .. k - 1 : u.items[q] = t.items[q]
      /\ u.items[k].id = n /\ u.items[k].item = c
      /\ u.items[k].weight > 0 <=> c # NoClient
  BY <1>1, AddIs
<1> HIDE DEF u
<1>3. DOMAIN u.items = 1 .. k
  BY <1>2, TableIs
<1>4. \A q \in DOMAIN u.items : q \in DOMAIN t.items \/ q = k
  BY <1>1, <1>3
<1>5. \A q \in DOMAIN t.items : t.items[q].id \in D /\ t.items[q].id # n /\ q \in DOMAIN u.items
  BY <1>1, <1>3 DEF Listed, Named
<1>6. k \in DOMAIN u.items /\ k \in Nat \ {0}
  BY <1>1, <1>3
<1> HIDE DEF k
<1>7. Distinct(u.items)
  <2> SUFFICES ASSUME NEW p \in DOMAIN u.items, NEW q \in DOMAIN u.items,
                      u.items[p].id = u.items[q].id
               PROVE  p = q
    BY DEF Distinct
  <2>1. CASE p \in DOMAIN t.items /\ q \in DOMAIN t.items
    <3>1. u.items[p] = t.items[p] /\ u.items[q] = t.items[q]
      BY <1>1, <1>2, <2>1
    <3> QED  BY <2>1, <3>1 DEF Distinct, Listed
  <2>2. \A r \in DOMAIN t.items : u.items[r].id # n
    BY <1>1, <1>2, <1>5
  <2> QED  BY <1>2, <1>4, <2>1, <2>2
<1>8. Named(u.items, D \cup {n})
  <2>1. \A q \in DOMAIN u.items : u.items[q].id \in D \cup {n}
    BY <1>1, <1>2, <1>4, <1>5
  <2>2. \A m \in D : \E q \in DOMAIN u.items : u.items[q].id = m
    BY <1>1, <1>2, <1>5 DEF Listed, Named
  <2>3. \E q \in DOMAIN u.items : u.items[q].id = n
    BY <1>2, <1>6
  <2> QED  BY <2>1, <2>2, <2>3 DEF Named
<1>9. Listed(u, D \cup {n})
  BY <1>2, <1>7, <1>8 DEF Listed
<1>10. Longer(t, u, n, c)
  BY <1>1, <1>2, <1>3 DEF Longer, k
<1> QED  BY <1>2, <1>9, <1>10 DEF u

LEMMA Removed ==
    ASSUME NEW t, NEW D, Listed(t, D), NEW n \in Node, n \in D
    PROVE  LET u == RemoveItem(t, n)
           IN  /\ Listed(u, D \ {n}) /\ Settled(u)
               /\ \A q \in DOMAIN u.items : \E r \in DOMAIN t.items : u.items[q] = t.items[r]
               /\ \A r \in DOMAIN t.items : t.items[r].id # n =>
                    \E q \in DOMAIN u.items : u.items[q] = t.items[r]
<1> DEFINE u == RemoveItem(t, n)
<1>1. /\ t \in Table /\ t.items \in Seq(Entry)
      /\ Len(t.items) \in Nat /\ DOMAIN t.items = 1 .. Len(t.items)
  BY TableIs DEF Listed
<1>2. Position(t, n) # {}
  BY DEF Listed, Named, Position
<1>3. PICK p \in Position(t, n) : /\ u \in Table /\ Settled(u) /\ u.present = t.present
                                  /\ u.items = RemoveAt(t.items, p)
  BY <1>1, <1>2, RemoveItemIs
<1> HIDE DEF u
<1>4. p \in 1 .. Len(t.items) /\ t.items[p].id = n
  BY <1>1 DEF Position
<1>5. /\ u.items \in Seq(Entry) /\ Len(u.items) = Len(t.items) - 1
      /\ \A q \in 1 .. Len(t.items) - 1 :
           u.items[q] = IF q < p THEN t.items[q] ELSE t.items[q + 1]
  BY <1>1, <1>3, <1>4, RemoveAtIs
<1>6. DOMAIN u.items = 1 .. Len(t.items) - 1
  BY <1>1, <1>5
<1> DEFINE From(q) == IF q < p THEN q ELSE q + 1
<1>7. \A q \in DOMAIN u.items :
        From(q) \in DOMAIN t.items /\ From(q) # p /\ u.items[q] = t.items[From(q)]
  <2> SUFFICES ASSUME NEW q \in 1 .. Len(t.items) - 1
               PROVE  From(q) \in DOMAIN t.items /\ From(q) # p /\ u.items[q] = t.items[From(q)]
    BY <1>6
  <2>1. u.items[q] = IF q < p THEN t.items[q] ELSE t.items[q + 1]
    BY <1>5
  <2>2. u.items[q] = t.items[From(q)]
    BY <2>1
  <2>3. From(q) \in DOMAIN t.items /\ From(q) # p
    BY <1>1, <1>4
  <2> QED  BY <2>2, <2>3
<1>8. \A r \in DOMAIN t.items : r # p => \E q \in DOMAIN u.items : u.items[q] = t.items[r]
  <2> SUFFICES ASSUME NEW r \in DOMAIN t.items, r # p
               PROVE  \E q \in DOMAIN u.items : u.items[q] = t.items[r]
    OBVIOUS
  <2>1. CASE r < p
    BY <1>1, <1>4, <1>5, <1>6, <2>1
  <2>2. CASE r > p
    <3>1. r - 1 \in DOMAIN u.items /\ ~(r - 1 < p) /\ r - 1 + 1 = r
      BY <1>1, <1>4, <1>6, <2>2
    <3> QED  BY <1>5, <1>6, <3>1
  <2> QED  BY <1>1, <1>4, <2>1, <2>2
<1>9. \A q, r \in DOMAIN u.items : From(q) = From(r) => q = r
  BY <1>1, <1>4, <1>6
<1> HIDE DEF From
<1>10. \A r \in DOMAIN t.items : t.items[r].id = n => r = p
  BY <1>1, <1>4 DEF Listed, Distinct
<1>11. Distinct(u.items)
  BY <1>7, <1>9 DEF Listed, Distinct
<1>12. Named(u.items, D \ {n})
  <2>1. \A q \in DOMAIN u.items : u.items[q].id \in D \ {n}
    BY <1>7, <1>10 DEF Listed, Named
  <2>2. \A m \in D \ {n} : \E q \in DOMAIN u.items : u.items[q].id = m
    <3> SUFFICES ASSUME NEW m \in D \ {n} PROVE \E q \in DOMAIN u.items : u.items[q].id = m
      OBVIOUS
    <3>1. PICK r \in DOMAIN t.items : t.items[r].id = m
      BY DEF Listed, Named
    <3> QED  BY <1>4, <1>8, <3>1
  <2> QED  BY <2>1, <2>2 DEF Named
<1>13. u.present
  BY <1>1, <1>3, <1>4 DEF Listed
<1>14. Listed(u, D \ {n})
  BY <1>3, <1>11, <1>12, <1>13 DEF Listed
<1> QED  BY <1>3, <1>4, <1>7, <1>8, <1>14 DEF u

-----------------------------------------------------------------------------
(* Every step keeps the invariant.                                         *)

LEMMA AppendRange ==
    ASSUME NEW S, NEW s \in Seq(S), IsInjective(s), NEW e \in S, e \notin Range(s)
    PROVE  /\ Append(s, e) \in Seq(S) /\ IsInjective(Append(s, e))
           /\ Range(Append(s, e)) = Range(s) \cup {e}
<1> DEFINE a == Append(s, e)  k == Len(s) + 1
<1>1. /\ a \in Seq(S) /\ DOMAIN a = 1 .. k /\ a[k] = e /\ DOMAIN s = 1 .. k - 1 /\ k \in Nat \ {0}
      /\ \A q \in 1 .. k - 1 : a[q] = s[q]
  OBVIOUS
<1>2. \A q \in 1 .. k - 1 : s[q] # e
  BY <1>1 DEF Range
<1> HIDE DEF a, k
<1>3. /\ \A q \in DOMAIN a : q \in DOMAIN s \/ q = k
      /\ \A q \in DOMAIN s : q \in DOMAIN a /\ a[q] = s[q]
      /\ k \in DOMAIN a
  BY <1>1
<1>4. IsInjective(a)
  BY <1>1, <1>2, <1>3 DEF IsInjective
<1>5. Range(a) = Range(s) \cup {e}
  BY <1>1, <1>3 DEF Range
<1> QED  BY <1>1, <1>4, <1>5 DEF a

LEMMA RemoveRange ==
    ASSUME NEW S, NEW s \in Seq(S), IsInjective(s), NEW p \in DOMAIN s
    PROVE  /\ RemoveAt(s, p) \in Seq(S) /\ IsInjective(RemoveAt(s, p))
           /\ Range(RemoveAt(s, p)) = Range(s) \ {s[p]}
<1> DEFINE r == RemoveAt(s, p)
           From(q) == IF q < p THEN q ELSE q + 1
<1>1. p \in 1 .. Len(s) /\ DOMAIN s = 1 .. Len(s) /\ Len(s) \in Nat
  OBVIOUS
<1>2. /\ r \in Seq(S) /\ Len(r) = Len(s) - 1
      /\ \A q \in 1 .. Len(s) - 1 : r[q] = IF q < p THEN s[q] ELSE s[q + 1]
  BY <1>1, RemoveAtIs
<1> HIDE DEF r
<1>3. DOMAIN r = 1 .. Len(s) - 1
  BY <1>2
<1>4. ASSUME NEW q \in DOMAIN r
      PROVE  From(q) \in DOMAIN s /\ From(q) # p /\ r[q] = s[From(q)]
  <2>1. r[q] = s[From(q)]
    BY <1>2, <1>3
  <2>2. From(q) \in DOMAIN s /\ From(q) # p
    BY <1>1, <1>3
  <2> QED  BY <2>1, <2>2
<1>5. \A q, j \in DOMAIN r : From(q) = From(j) => q = j
  BY <1>1, <1>3
<1>6. ASSUME NEW j \in DOMAIN s, j # p PROVE \E q \in DOMAIN r : r[q] = s[j]
  <2>1. CASE j < p
    BY <1>1, <1>2, <1>3, <2>1
  <2>2. CASE j > p
    <3>1. j - 1 \in DOMAIN r /\ ~(j - 1 < p) /\ j - 1 + 1 = j
      BY <1>1, <1>3, <2>2
    <3> QED  BY <1>2, <1>3, <3>1
  <2> QED  BY <1>1, <1>6, <2>1, <2>2
<1> HIDE DEF From
<1>7. IsInjective(r)
  BY <1>4, <1>5 DEF IsInjective
<1>8. Range(r) = Range(s) \ {s[p]}
  <2>1. \A x \in Range(r) : x \in Range(s) /\ x # s[p]
    BY <1>4 DEF Range, IsInjective
  <2>2. \A x \in Range(s) : x # s[p] => x \in Range(r)
    BY <1>6 DEF Range
  <2> QED  BY <2>1, <2>2
<1> QED  BY <1>2, <1>7, <1>8 DEF r

(* FirstOf() is one of the clients at the positions it is given. *)
LEMMA FirstIs ==
    ASSUME ListInv, NEW P \in SUBSET DOMAIN clients
    PROVE  IF P = {} THEN FirstOf(P) = NoClient
           ELSE \E p \in P : FirstOf(P) = clients[p] /\ clients[p] \in Range(clients)
<1>1. CASE P = {}
  BY <1>1 DEF FirstOf
<1>2. CASE P # {}
  <2>1. P \in SUBSET Nat
    BY DEF ListInv
  <2>2. \E x \in P : \A y \in P : x <= y
    BY <1>2, <2>1, LeastNatural
  <2>3. Min(P) \in P
    BY <2>2 DEF Min
  <2> QED  BY <1>2, <2>3 DEF FirstOf, Range
<1> QED  BY <1>1, <1>2

LEMMA RangeIsClients == ListInv => Range(clients) \subseteq Client
BY DEF ListInv, Range
(* The table after update_client() for client c of its node, or for no     *)
(* client of node n.                                                       *)
LEMMA UpdateSound ==
    ASSUME NEW t, NEW D, NEW C \in SUBSET Client, Listed(t, D), Sound(t.items, C),
           NEW n \in Node, NEW c \in Client \cup {NoClient},
           c # NoClient => c \in C /\ NodeOf[c] = n
    PROVE  Sound(Update(t, n, c).items, C)
<1> DEFINE u == Update(t, n, c)
<1>1. /\ DOMAIN u.items = DOMAIN t.items
      /\ \A q \in DOMAIN t.items :
           /\ u.items[q].id = t.items[q].id
           /\ t.items[q].id # n => u.items[q] = t.items[q]
           /\ t.items[q].id = n => /\ u.items[q].item = c
                                   /\ u.items[q].weight > 0 <=> c # NoClient
  BY Updated
<1> HIDE DEF u
<1>2. ASSUME NEW q \in DOMAIN u.items
      PROVE  /\ u.items[q].item # NoClient => /\ u.items[q].item \in C
                                              /\ NodeOf[u.items[q].item] = u.items[q].id
             /\ u.items[q].weight > 0 <=> u.items[q].item # NoClient
  <2>1. CASE t.items[q].id = n
    BY <1>1, <2>1
  <2>2. CASE t.items[q].id # n
    BY <1>1, <2>2 DEF Sound
  <2> QED  BY <2>1, <2>2
<1>3. Sound(u.items, C)
  BY <1>2 DEF Sound
<1> QED  BY <1>3 DEF u

LEMMA NextRegister ==
    ASSUME RouteInv, NEW c \in Client, Register(c)
    PROVE  RouteInv'
<1>1. ListInv'
  BY AppendRange DEF RouteInv, ListInv, Register
<1>2. Range(clients) \subseteq Range(clients')
  BY AppendRange DEF RouteInv, ListInv, Register
<1>3. TableInv' /\ ConfInv'
  BY <1>2 DEF RouteInv, TableInv, ConfInv, Register, Sound
<1> QED  BY <1>1, <1>3 DEF RouteInv

LEMMA NextRouted ==
    ASSUME RouteInv, NEW c \in Client, Routed(c)
    PROVE  RouteInv'
<1>1. ListInv' /\ ConfInv'
  BY DEF RouteInv, ListInv, ConfInv, Routed
<1>2. /\ Listed(table, DOMAIN conf) /\ Sound(table.items, Range(clients))
      /\ Range(clients) \in SUBSET Client /\ c \in Range(clients)
      /\ NodeOf[c] \in Node /\ c # NoClient
  BY RangeIsClients, WRRAssumption DEF RouteInv, TableInv, Routed
<1>3. table' = Update(table, NodeOf[c], c)
  BY DEF Routed, Change
<1>4. Listed(table', DOMAIN conf) /\ Sound(table'.items, Range(clients))
  BY <1>2, <1>3, Updated, UpdateSound
<1>5. conf' = conf /\ clients' = clients
  BY DEF Routed
<1> QED  BY <1>1, <1>4, <1>5 DEF RouteInv, TableInv

LEMMA NextLost ==
    ASSUME RouteInv, NEW c \in Client, Lost(c)
    PROVE  RouteInv'
BY DEF RouteInv, ListInv, TableInv, ConfInv, Lost

LEMMA NextRemoveClient ==
    ASSUME RouteInv, NEW c \in Client, RemoveClient(c)
    PROVE  RouteInv' /\ Range(clients') = Range(clients) \ {c}
<1> DEFINE n == NodeOf[c]  u == Update(table, n, NoClient)
<1>1. /\ Listed(table, DOMAIN conf) /\ Sound(table.items, Range(clients))
      /\ Range(clients) \in SUBSET Client /\ c \in Range(clients)
      /\ n \in Node /\ ListInv
  BY RangeIsClients, WRRAssumption DEF RouteInv, TableInv, RemoveClient, ListInv
<1>2. PICK p \in DOMAIN clients : clients[p] = c /\ clients' = RemoveAt(clients, p)
  <2>1. \E p \in DOMAIN clients : clients[p] = c
    BY <1>1 DEF Range
  <2> QED  BY <2>1 DEF RemoveClient
<1>3. /\ clients' \in Seq(Client) /\ IsInjective(clients')
      /\ Range(clients') = Range(clients) \ {c}
  BY <1>1, <1>2, RemoveRange DEF ListInv
<1>4. ListInv' /\ ConfInv'
  BY <1>3 DEF RouteInv, ListInv, ConfInv, RemoveClient
<1>5. /\ Listed(u, DOMAIN conf) /\ DOMAIN u.items = DOMAIN table.items
      /\ \A q \in DOMAIN table.items :
           /\ u.items[q].id = table.items[q].id
           /\ table.items[q].id # n => u.items[q] = table.items[q]
           /\ table.items[q].id = n => u.items[q].item = NoClient
  BY <1>1, Updated
<1>6. Sound(u.items, Range(clients))
  BY <1>1, UpdateSound
<1>7. table' = u /\ conf' = conf
  BY DEF RemoveClient, Change
<1> HIDE DEF u, n
<1>8. \A q \in DOMAIN u.items : u.items[q].item # NoClient => u.items[q].item # c
  BY <1>5, <1>6 DEF Sound, n
<1>9. Sound(u.items, Range(clients'))
  BY <1>3, <1>6, <1>8 DEF Sound
<1> QED  BY <1>3, <1>4, <1>5, <1>7, <1>9 DEF RouteInv, TableInv

LEMMA FreshIs ==
    /\ Fresh \in Table /\ Gone \in Table /\ Fresh.items = <<>> /\ Gone.items = <<>>
    /\ Settled(Fresh) /\ Settled(Gone) /\ Listed(Fresh, {}) /\ Listed(Gone, {})
    /\ \A C : Sound(Fresh.items, C) /\ Sound(Gone.items, C)
<1>1. /\ Fresh.items = <<>> /\ Fresh.gcd = 0 /\ Fresh.max = 0 /\ Fresh.cw = 0 /\ Fresh.index = -1
      /\ Gone.items = <<>> /\ Gone.gcd = 0 /\ Gone.max = 0 /\ Gone.cw = 0 /\ Gone.index = -1
  BY DEF Fresh, Gone
<1>2. <<>> \in Seq(Entry) /\ DOMAIN <<>> = {}
  OBVIOUS
<1>3. 0 \in 0 .. TopWeight /\ -1 \in -1 .. Cardinality(Node) - 1
  BY TopIs, NodesIs
<1>4. Fresh \in Table /\ Gone \in Table
  BY <1>2, <1>3 DEF Fresh, Gone, Table
<1>5. Settled(Fresh) /\ Settled(Gone)
  BY <1>1, <1>2 DEF Settled, NoWeights
<1>6. Listed(Fresh, {}) /\ Listed(Gone, {})
  BY <1>1, <1>2, <1>4 DEF Listed, Distinct, Named
<1>7. \A C : Sound(Fresh.items, C) /\ Sound(Gone.items, C)
  BY <1>1, <1>2 DEF Sound
<1> QED  BY <1>1, <1>4, <1>5, <1>6, <1>7

LEMMA NextRemoveType ==
    ASSUME RouteInv, RemoveType
    PROVE  RouteInv'
<1>1. table' = Gone /\ DOMAIN conf' = {} /\ clients' = clients
  BY DEF RemoveType, Change
<1>2. ListInv' /\ ConfInv'
  BY <1>1 DEF RouteInv, ListInv, ConfInv, RemoveType
<1>3. TableInv'
  BY <1>1, FreshIs DEF TableInv
<1> QED  BY <1>2, <1>3 DEF RouteInv

LEMMA NextRemoveNode ==
    ASSUME RouteInv, NEW n \in Node, RemoveNode(n)
    PROVE  RouteInv'
<1> DEFINE u == RemoveItem(table, n)
<1>1. table' = u /\ DOMAIN conf' = DOMAIN conf \ {n} /\ clients' = clients /\ n \in DOMAIN conf
  BY DEF RemoveNode, Change
<1>2. ListInv' /\ ConfInv'
  BY <1>1 DEF RouteInv, ListInv, ConfInv, RemoveNode
<1>3. /\ Listed(u, DOMAIN conf \ {n})
      /\ \A q \in DOMAIN u.items : \E r \in DOMAIN table.items : u.items[q] = table.items[r]
  BY <1>1, Removed DEF RouteInv, TableInv
<1> HIDE DEF u
<1>4. Sound(u.items, Range(clients))
  BY <1>3 DEF RouteInv, TableInv, Sound
<1> QED  BY <1>1, <1>2, <1>3, <1>4 DEF RouteInv, TableInv

LEMMA RegisteredIs ==
    ASSUME ListInv, NEW n \in Node
    PROVE  LET c == FirstOf(Registered(n))
           IN  /\ c \in Client \cup {NoClient}
               /\ c # NoClient => c \in Range(clients) /\ NodeOf[c] = n
               /\ (\E d \in Range(clients) : NodeOf[d] = n) => c # NoClient
<1> DEFINE P == Registered(n)
<1>1. P \in SUBSET DOMAIN clients /\ \A p \in P : NodeOf[clients[p]] = n
  BY DEF Registered
<1>2. Range(clients) \subseteq Client /\ NoClient \notin Client
  BY RangeIsClients, WRRAssumption
<1>3. IF P = {} THEN FirstOf(P) = NoClient
      ELSE \E p \in P : FirstOf(P) = clients[p] /\ clients[p] \in Range(clients)
  BY <1>1, FirstIs
<1>4. (\E d \in Range(clients) : NodeOf[d] = n) => P # {}
  BY DEF Range, Registered
<1> HIDE DEF P
<1> QED  BY <1>1, <1>2, <1>3, <1>4 DEF P

LEMMA NextAddNode ==
    ASSUME RouteInv, NEW n \in Node, AddNode(n)
    PROVE  RouteInv'
<1>1. PICK w \in Weights :
        /\ n \notin DOMAIN conf
        /\ conf' = [m \in DOMAIN conf \cup {n} |-> IF m = n THEN w ELSE conf[m]]
        /\ Change(Add(table, n, w, FirstOf(Registered(n))))
        /\ UNCHANGED <<clients, routed, active>>
  BY DEF AddNode
<1>2. w \in 1 .. TopWeight /\ w \in 0 .. TopWeight
  BY TopIs
<1>3. ListInv' /\ ConfInv'
  BY <1>1, <1>2 DEF RouteInv, ListInv, ConfInv
<1> DEFINE c == FirstOf(Registered(n))  u == Add(table, n, w, c)
<1>4. /\ c \in Client \cup {NoClient}
      /\ c # NoClient => c \in Range(clients) /\ NodeOf[c] = n
  BY RegisteredIs DEF RouteInv
<1>5. table' = u /\ DOMAIN conf' = DOMAIN conf \cup {n} /\ clients' = clients
  BY <1>1 DEF Change
<1> HIDE DEF c
<1>6. Listed(u, DOMAIN conf \cup {n}) /\ Longer(table, u, n, c)
  <2>1. Listed(table, DOMAIN conf) /\ n \notin DOMAIN conf
    BY <1>1 DEF RouteInv, TableInv
  <2>2. c \in Client \cup {NoClient}
    BY <1>4
  <2> QED  BY <1>2, <2>1, <2>2, Added
<1> HIDE DEF u
<1> DEFINE k == Len(table.items) + 1
<1>7. \A q \in DOMAIN u.items : q \in DOMAIN table.items \/ q = k
  BY <1>6 DEF Longer
<1>8. u.items[k].id = n /\ u.items[k].item = c /\ (u.items[k].weight > 0 <=> c # NoClient)
  BY <1>6 DEF Longer
<1> HIDE DEF k
<1>9. Sound(u.items, Range(clients))
  BY <1>4, <1>6, <1>7, <1>8 DEF RouteInv, TableInv, Sound, Longer
<1> QED  BY <1>3, <1>5, <1>6, <1>9 DEF RouteInv, TableInv

(* An edit changes at most the entry of its node, and keeps its client. *)
LEMMA EditIs ==
    ASSUME RouteInv, NEW n \in Node, NEW w \in 0 .. TopWeight, EditWeight(n, w)
    PROVE  /\ Listed(table', DOMAIN conf) /\ Sound(table'.items, Range(clients))
           /\ DOMAIN table'.items = DOMAIN table.items
           /\ \A q \in DOMAIN table.items : /\ table'.items[q].id = table.items[q].id
                                            /\ table'.items[q].item = table.items[q].item
<1>1. /\ Listed(table, DOMAIN conf) /\ Sound(table.items, Range(clients))
      /\ Range(clients) \in SUBSET Client /\ n \in DOMAIN conf
  BY RangeIsClients DEF RouteInv, TableInv, EditWeight
<1> DEFINE p == CHOOSE q \in Position(table, n) : TRUE
           c == table.items[p].item
           i == table.items[p]
           e == [i EXCEPT !.weight = w]
           t == [table EXCEPT !.items = [table.items EXCEPT ![p] = e]]
<1>2. table' = IF c = NoClient THEN table
               ELSE Update([table EXCEPT !.items[p].weight = w], NodeOf[c], c)
  BY DEF EditWeight, Change
<1>3. p \in Position(table, n)
  <2>1. Position(table, n) # {}
    BY <1>1 DEF Listed, Named, Position
  <2> QED  BY <2>1
<1> HIDE DEF p
<1>4. /\ p \in DOMAIN table.items /\ i.id = n /\ table \in Table /\ i \in Entry
      /\ table.items \in Seq(Entry)
  BY <1>1, <1>3, TableIs DEF Position, Listed
<1>5. CASE c = NoClient
  BY <1>1, <1>2, <1>5
<1>6. CASE c # NoClient
  <2>1. e \in Entry /\ e.id = i.id /\ e.item = c
    BY <1>4 DEF Entry
  <2>2. [table EXCEPT !.items[p].weight = w] = t
    BY <1>4 DEF Table
  <2>3. Replaced(table, t, p, e)
    BY <1>4, <2>1, ReplaceIs
  <2> HIDE DEF e, t
  <2>4. c \in Range(clients) /\ NodeOf[c] = n /\ c \in Client
    BY <1>1, <1>4, <1>6 DEF Sound
  <2>5. table' = Update(t, n, c)
    BY <1>2, <1>6, <2>2, <2>4
  <2>6. /\ Listed(t, DOMAIN conf) /\ DOMAIN t.items = DOMAIN table.items
        /\ \A q \in DOMAIN table.items : t.items[q] = IF q = p THEN e ELSE table.items[q]
    BY <1>1, <1>4, <2>1, <2>3, ReplacedListed
  <2> DEFINE u == Update(t, n, c)
  <2>7. /\ Listed(u, DOMAIN conf) /\ DOMAIN u.items = DOMAIN t.items
        /\ \A q \in DOMAIN t.items :
             /\ u.items[q].id = t.items[q].id
             /\ t.items[q].id # n => u.items[q] = t.items[q]
             /\ t.items[q].id = n => /\ u.items[q].item = c
                                     /\ u.items[q].weight > 0 <=> c # NoClient
    BY <2>4, <2>6, Updated
  <2> HIDE DEF u
  <2>8. \A q \in DOMAIN table.items : table.items[q].id = n => q = p
    BY <1>1, <1>4 DEF Listed, Distinct
  <2>9. ASSUME NEW q \in DOMAIN table.items
        PROVE  /\ u.items[q].id = table.items[q].id /\ u.items[q].item = table.items[q].item
               /\ u.items[q].item # NoClient =>
                    u.items[q].item \in Range(clients) /\ NodeOf[u.items[q].item] = u.items[q].id
               /\ u.items[q].weight > 0 <=> u.items[q].item # NoClient
    <3>1. CASE q = p
      BY <1>4, <2>1, <2>4, <2>6, <2>7, <3>1
    <3>2. CASE q # p
      BY <1>1, <2>6, <2>7, <2>8, <3>2 DEF Sound
    <3> QED  BY <3>1, <3>2
  <2>10. Sound(u.items, Range(clients))
    BY <2>6, <2>7, <2>9 DEF Sound
  <2> QED  BY <2>5, <2>6, <2>7, <2>9, <2>10 DEF u
<1> QED  BY <1>5, <1>6

LEMMA NextEditWeight ==
    ASSUME RouteInv, NEW n \in Node, NEW w \in 0 .. TopWeight, EditWeight(n, w)
    PROVE  RouteInv'
<1>1. ListInv' /\ ConfInv' /\ DOMAIN conf' = DOMAIN conf /\ clients' = clients
  BY DEF RouteInv, ListInv, ConfInv, EditWeight
<1>2. TableInv'
  BY <1>1, EditIs DEF TableInv
<1> QED  BY <1>1, <1>2 DEF RouteInv

-----------------------------------------------------------------------------
(* The lookup and the table that was read first.                           *)

LEMMA SegmentCard ==
    ASSUME NEW n \in Nat
    PROVE  IsFiniteSet(1 .. n) /\ Cardinality(1 .. n) = n
<1>1. /\ IsFiniteSet(1 .. n)
      /\ Cardinality(1 .. n) = IF 1 > n THEN 0 ELSE n - 1 + 1
  BY FS_Interval
<1> QED  BY <1>1

(* The table has as many entries as there are configured nodes. *)
LEMMA LengthIs ==
    ASSUME NEW t, NEW D \in SUBSET Node, Listed(t, D)
    PROVE  /\ Len(t.items) = Cardinality(D)
           /\ Len(t.items) \in Nat /\ Len(t.items) <= Cardinality(Node)
<1> DEFINE n == Len(t.items)  f == [p \in 1 .. n |-> t.items[p].id]
<1>1. n \in Nat /\ DOMAIN t.items = 1 .. n
  BY TableIs DEF Listed
<1>2. f \in [1 .. n -> D] /\ \A p \in 1 .. n : f[p] = t.items[p].id
  BY <1>1 DEF Listed, Named
<1> HIDE DEF f
<1>3. f \in Injection(1 .. n, D)
  BY <1>1, <1>2 DEF Injection, IsInjective, Listed, Distinct
<1>4. f \in Surjection(1 .. n, D)
  BY <1>1, <1>2 DEF Surjection, Listed, Named
<1>5. IsFiniteSet(1 .. n) /\ Cardinality(1 .. n) = n
  BY <1>1, SegmentCard
<1> HIDE DEF n
<1>6. IsFiniteSet(D) /\ Cardinality(D) <= Cardinality(Node)
  BY WRRAssumption, FS_Subset
<1>7. Cardinality(1 .. n) = Cardinality(D)
  BY <1>3, <1>4, <1>6, FS_Injection
<1> QED  BY <1>1, <1>5, <1>6, <1>7 DEF n

LEMMA ClientCount ==
    ASSUME ListInv
    PROVE  Len(clients) <= Cardinality(Client)
<1> DEFINE n == Len(clients)
<1>1. n \in Nat /\ DOMAIN clients = 1 .. n /\ clients \in [1 .. n -> Client]
  BY DEF ListInv
<1>2. clients \in Injection(1 .. n, Client)
  BY <1>1 DEF Injection, ListInv, IsInjective
<1> HIDE DEF n
<1>3. Cardinality(1 .. n) <= Cardinality(Client)
  BY <1>2, WRRAssumption, FS_Injection
<1> QED  BY <1>1, <1>3, SegmentCard DEF n

LEMMA NextFindRoute ==
    ASSUME RouteInv, FindRoute
    PROVE  RouteInv' /\ (Settled(table) => Settled(table'))
<1>1. CASE RouteFirst \/ RouteNone
  BY <1>1 DEF RouteInv, ListInv, ConfInv, TableInv, RouteFirst, RouteNone
<1>2. CASE RouteWeighted
  <2> DEFINE x == Select(table).index  c == Select(table).cw
  <2>1. table' = [table EXCEPT !.index = x, !.cw = c]
    BY <1>2 DEF RouteWeighted
  <2>2. /\ table \in Table /\ table.items # <<>> /\ Len(table.items) <= Cardinality(Node)
        /\ Listed(table, DOMAIN conf)
    BY <1>2, LengthIs DEF RouteWeighted, RouteInv, TableInv, ConfInv, Listed
  <2>3. table' \in Table
    BY <2>1, <2>2, SelectRange
  <2> HIDE DEF x, c
  <2>4. /\ table'.items = table.items /\ table'.present = table.present
        /\ table'.gcd = table.gcd /\ table'.max = table.max
    BY <2>1, <2>2 DEF Table
  <2>5. Listed(table', DOMAIN conf)
    BY <2>2, <2>3, <2>4 DEF Listed
  <2>6. Settled(table) <=> Settled(table')
    BY <2>2, <2>3, <2>4, SettledSame
  <2>7. conf' = conf /\ clients' = clients /\ routed' = routed /\ active' = active
    BY <1>2 DEF RouteWeighted
  <2>8. RouteInv'
    BY <2>4, <2>5, <2>7 DEF RouteInv, ListInv, ConfInv, TableInv
  <2> QED  BY <2>6, <2>8
<1> QED  BY <1>1, <1>2 DEF FindRoute

(* The order in which the configured nodes are read. *)
LEMMA OrderIs ==
    ASSUME NEW D \in SUBSET Node, NEW order \in SetToSeqs(D)
    PROVE  \E n \in Nat : /\ order \in [1 .. n -> D]
                          /\ \A p, q \in 1 .. n : order[p] = order[q] => p = q
                          /\ \A d \in D : \E p \in 1 .. n : order[p] = d
<1> DEFINE n == Cardinality(D)
<1>1. IsFiniteSet(D) /\ n \in Nat
  BY WRRAssumption, FS_Subset, FS_CardinalityType
<1>2. /\ order \in [1 .. n -> D]
      /\ \A p, q \in 1 .. n : order[p] = order[q] => p = q
  BY DEF SetToSeqs
<1>3. order \in Injection(1 .. n, D)
  BY <1>2 DEF Injection, IsInjective
<1>4. Cardinality(1 .. n) = n
  BY <1>1, SegmentCard
<1>5. order \in Surjection(1 .. n, D)
  BY <1>1, <1>3, <1>4, FS_Injection
<1> HIDE DEF n
<1>6. \A d \in D : \E p \in 1 .. n : order[p] = d
  BY <1>5 DEF Surjection
<1> QED  BY <1>1, <1>2, <1>6

(* The table after the nodes of order were added to an empty one.          *)
AddAll(w, order) == FoldLeft(LAMBDA u, n : Add(u, n, w[n], NoClient), Fresh, order)

LEMMA ReadTable ==
    ASSUME NEW D \in SUBSET Node, NEW w \in [D -> Weights], NEW order \in SetToSeqs(D),
           NEW t, t = IF order = <<>> THEN Gone ELSE AddAll(w, order)
    PROVE  Listed(t, D) /\ Sound(t.items, {}) /\ Settled(t)
<1>1. PICK n \in Nat : /\ order \in [1 .. n -> D]
                       /\ \A p, q \in 1 .. n : order[p] = order[q] => p = q
                       /\ \A d \in D : \E p \in 1 .. n : order[p] = d
  BY OrderIs
<1>2. CASE order = <<>>
  <2>1. D = {}
    <3>1. 1 .. n = {}
      BY <1>1, <1>2
    <3> QED  BY <1>1, <3>1
  <2> QED  BY <1>2, <2>1, FreshIs
<1>3. CASE order # <<>>
  <2> DEFINE F(f) == [S \in SUBSET (1 .. n) |-> IF S = {} THEN Fresh
                        ELSE Add(f[S \ {Max(S)}], order[Max(S)], w[order[Max(S)]], NoClient)]
             f == CHOOSE f : f = F(f)
             op == [p \in Table \X D |-> Add(p[1], p[2], w[p[2]], NoClient)]
  <2>1. \A d \in D : d \in Node /\ w[d] \in 1 .. TopWeight
    BY TopIs
  <2>2. op \in [Table \X D -> Table]
    <3>1. ASSUME NEW u \in Table, NEW d \in D
          PROVE  Add(u, d, w[d], NoClient) \in Table
      BY <2>1, AddIs
    <3>2. \A p \in Table \X D : p[1] \in Table /\ p[2] \in D
      OBVIOUS
    <3> QED  BY <3>1, <3>2
  <2>3. \E g : g = F(g)
    <3>1. PICK g \in [SUBSET (1 .. n) -> Table] : IsFold(g, n, order, op, Fresh)
      <4> HIDE DEF op
      <4> QED  BY <1>1, <2>2, FreshIs, FoldExists
    <3>2. ASSUME NEW S \in SUBSET (1 .. n), S # {}
          PROVE  op[<<g[S \ {Max(S)}], order[Max(S)]>>]
                   = Add(g[S \ {Max(S)}], order[Max(S)], w[order[Max(S)]], NoClient)
      <4>1. Max(S) \in 1 .. n
        BY <3>2, MaxIs
      <4>2. S \ {Max(S)} \in SUBSET (1 .. n)
        OBVIOUS
      <4>3. g[S \ {Max(S)}] \in Table /\ order[Max(S)] \in D
        BY <1>1, <4>1, <4>2
      <4> QED  BY <4>3
    <3> HIDE DEF op
    <3>3. g = F(g)
      BY <3>1, <3>2 DEF IsFold
    <3> HIDE DEF F
    <3> QED  BY <3>3
  <2>4. f = F(f)
    <3> HIDE DEF F
    <3> QED  BY <2>3
  <2>5. t = f[1 .. n]
    <3>1. DOMAIN order = 1 .. n
      BY <1>1
    <3>2. t = AddAll(w, order)
      BY <1>3
    <3>3. AddAll(w, order) = f[1 .. n]
      BY <3>1 DEF AddAll, FoldLeft, MapThenFoldSet
    <3> QED  BY <3>2, <3>3
  <2> HIDE DEF f, op
  <2>6. f[{}] = Fresh
    BY <2>4
  <2>7. ASSUME NEW k \in 0 .. n - 1
        PROVE  f[1 .. k + 1] = Add(f[1 .. k], order[k + 1], w[order[k + 1]], NoClient)
    <3>1. Max(1 .. k + 1) = k + 1
      BY MaxLast
    <3>2. (1 .. k + 1) \ {k + 1} = 1 .. k
      OBVIOUS
    <3>3. 1 .. k + 1 \in SUBSET (1 .. n) /\ k + 1 \in 1 .. k + 1
      OBVIOUS
    <3> QED  BY <2>4, <3>1, <3>2, <3>3
  <2> HIDE DEF F
  <2> DEFINE Seen(k) == {order[p] : p \in 1 .. k}
             Right(k) == /\ Listed(f[1 .. k], Seen(k)) /\ Sound(f[1 .. k].items, {})
                         /\ Settled(f[1 .. k])
             T == {k \in 0 .. n : Right(k)}
  <2>8. 0 \in T
    <3>1. 1 .. 0 = {} /\ Seen(0) = {}
      OBVIOUS
    <3>2. Right(0)
      BY <2>6, <3>1, FreshIs
    <3> QED  BY <3>2
  <2>9. ASSUME NEW k \in 0 .. n - 1, k \in T PROVE k + 1 \in T
    <3> DEFINE u == f[1 .. k]  v == f[1 .. k + 1]  d == order[k + 1]
    <3>1. k + 1 \in 1 .. n /\ k + 1 \in 0 .. n /\ \A p \in 1 .. k : p \in 1 .. n /\ p # k + 1
      OBVIOUS
    <3>2. d \in D /\ d \in Node /\ w[d] \in 1 .. TopWeight /\ NoClient \in Client \cup {NoClient}
      BY <1>1, <2>1, <3>1
    <3>3. d \notin Seen(k)
      BY <1>1, <3>1
    <3>4. Listed(u, Seen(k)) /\ Sound(u.items, {})
      BY <2>9
    <3>5. v = Add(u, d, w[d], NoClient)
      BY <2>7
    <3> HIDE DEF u, v
    <3>6. Listed(v, Seen(k) \cup {d}) /\ Settled(v) /\ Longer(u, v, d, NoClient)
      <4> HIDE DEF Seen, d
      <4> QED  BY <3>2, <3>3, <3>4, <3>5, Added
    <3>7. Seen(k + 1) = Seen(k) \cup {d}
      <4>1. \A p : p \in 1 .. k + 1 <=> p \in 1 .. k \/ p = k + 1
        OBVIOUS
      <4> QED  BY <4>1
    <3>8. Sound(v.items, {})
      <4> DEFINE j == Len(u.items) + 1
      <4>1. \A q \in DOMAIN v.items : q \in DOMAIN u.items \/ q = j
        BY <3>6 DEF Longer
      <4>2. v.items[j].item = NoClient /\ ~(v.items[j].weight > 0)
        BY <3>6 DEF Longer
      <4> HIDE DEF j
      <4> QED  BY <3>4, <3>6, <4>1, <4>2 DEF Sound, Longer
    <3>9. Right(k + 1)
      BY <3>6, <3>7, <3>8 DEF v
    <3> QED  BY <3>1, <3>9
  <2> HIDE DEF Right
  <2>10. n \in T
    <3> HIDE DEF T
    <3>1. n \in Nat /\ n \in 0 .. n
      OBVIOUS
    <3> QED  BY <2>8, <2>9, <3>1, AllUpTo
  <2>11. Seen(n) = D
    BY <1>1
  <2>12. Right(n)
    BY <2>10
  <2> HIDE DEF Seen
  <2> QED  BY <2>5, <2>11, <2>12 DEF Right
<1> QED  BY <1>2, <1>3

-----------------------------------------------------------------------------
(* What follows of the table.                                              *)

(* One connection for each node, as every daemon opens one.                *)
OneClient == \A c, d \in Client : NodeOf[c] = NodeOf[d] => c = d

Taken(t, n) == \E p \in DOMAIN t.items : t.items[p].id = n /\ t.items[p].item # NoClient
TakenInv == \A c \in routed \cap active :
              NodeOf[c] \in DOMAIN conf => Taken(table, NodeOf[c])

LEMMA InitRouteInv == WRRInit => RouteInv /\ TakenInv
<1> SUFFICES ASSUME WRRInit PROVE RouteInv /\ TakenInv
  OBVIOUS
<1>1. PICK S \in SUBSET Node : conf \in [S -> Weights]
  BY DEF WRRInit
<1>2. PICK order \in SetToSeqs(DOMAIN conf) :
        table = IF order = <<>> THEN Gone ELSE AddAll(conf, order)
  BY DEF WRRInit, AddAll
<1>3. DOMAIN conf = S /\ \A n \in S : conf[n] \in 0 .. TopWeight
  <2>1. \A n \in S : conf[n] \in Weights
    BY <1>1
  <2>2. \A w \in Weights : w \in 0 .. TopWeight
    BY TopIs
  <2> QED  BY <1>1, <2>1, <2>2
<1>4. Listed(table, DOMAIN conf) /\ Sound(table.items, {})
  BY <1>1, <1>2, <1>3, ReadTable
<1>5. clients = <<>> /\ routed = {} /\ active = {} /\ Range(clients) = {}
  <2>1. clients = <<>> /\ routed = {} /\ active = {}
    BY DEF WRRInit
  <2> QED  BY <2>1 DEF Range
<1>6. ListInv /\ ConfInv /\ TakenInv
  BY <1>1, <1>3, <1>5 DEF ListInv, ConfInv, IsInjective, TakenInv
<1> QED  BY <1>4, <1>5, <1>6 DEF RouteInv, TableInv

LEMMA NextRouteInv == RouteInv /\ [WRRNext]_WRRvars => RouteInv'
<1> SUFFICES ASSUME RouteInv, [WRRNext]_WRRvars PROVE RouteInv'
  OBVIOUS
<1>1. ASSUME NEW c \in Client, Register(c) \/ Routed(c) \/ Lost(c) \/ RemoveClient(c)
      PROVE  RouteInv'
  BY <1>1, NextRegister, NextRouted, NextLost, NextRemoveClient
<1>2. CASE RemoveType
  BY <1>2, NextRemoveType
<1>3. ASSUME NEW n \in Node, RemoveNode(n) \/ AddNode(n)
      PROVE  RouteInv'
  BY <1>3, NextRemoveNode, NextAddNode
<1>4. ASSUME NEW n \in Node, ModifyWeight(n) \/ DeleteWeight(n)
      PROVE  RouteInv'
  <2>1. PICK w \in 0 .. TopWeight : EditWeight(n, w)
    BY <1>4, TopIs DEF ModifyWeight, DeleteWeight
  <2> QED  BY <2>1, NextEditWeight
<1>5. CASE FindRoute
  BY <1>5, NextFindRoute
<1>6. CASE UNCHANGED WRRvars
  BY <1>6 DEF WRRvars, RouteInv, ListInv, ConfInv, TableInv
<1> QED  BY <1>1, <1>2, <1>3, <1>4, <1>5, <1>6 DEF WRRNext

LEMMA RouteInvariance == WRRSpec => []RouteInv
<1>1. WRRInit => RouteInv
  BY InitRouteInv
<1> QED  BY <1>1, NextRouteInv, PTL DEF WRRSpec

(* What the properties say follows from the invariant.                     *)
LEMMA ItemsAre ==
    ASSUME TableInv
    PROVE  /\ Items \subseteq WRRItem
           /\ {i.id : i \in Items} = DOMAIN conf
<1>1. table \in Table /\ TopWeight \in Nat
  BY TopIs DEF TableInv, Listed
<1>2. ASSUME NEW i \in Items PROVE i \in WRRItem
  <2>1. i \in Entry
    BY <1>1, TableIs DEF Items
  <2> QED  BY <1>1, <2>1 DEF Entry, WRRItem
<1>3. {i.id : i \in Items} = DOMAIN conf
  BY DEF Items, TableInv, Listed, Named
<1> QED  BY <1>2, <1>3

LEMMA RouteInvIs == RouteInv => WRRTypeOK /\ NoStaleClient
<1> SUFFICES ASSUME RouteInv PROVE WRRTypeOK /\ NoStaleClient
  OBVIOUS
<1> USE DEF RouteInv
<1>1. Range(clients) \subseteq Client /\ Len(clients) <= Cardinality(Client)
  BY RangeIsClients, ClientCount
<1>2. routed \subseteq Range(clients) /\ active \subseteq Range(clients)
  BY DEF ListInv
<1>3. Len(table.items) = Cardinality(DOMAIN conf)
  BY LengthIs DEF TableInv, ConfInv
<1>4. Items \subseteq WRRItem /\ {i.id : i \in Items} = DOMAIN conf
  BY ItemsAre
<1>5. table \in Table /\ (table.present \/ table.items = <<>>)
  BY DEF TableInv, Listed
<1>6. /\ table.gcd \in 0 .. TopWeight /\ table.max \in 0 .. TopWeight
      /\ table.index \in -1 .. Cardinality(Node) - 1 /\ table.cw \in 0 .. TopWeight
  BY <1>5, TableIs
<1>7. \A n \in DOMAIN conf : n \in Node /\ conf[n] \in 0 .. TopWeight
  BY DEF ConfInv
<1>8. NoStaleClient
  BY DEF NoStaleClient, Items, TableInv, Sound
<1> QED  BY <1>1, <1>2, <1>3, <1>4, <1>5, <1>6, <1>7, <1>8 DEF WRRTypeOK

LEMMA TakenInvIs == RouteInv /\ TakenInv => ConnectedTakesPart
BY DEF RouteInv, TableInv, Sound, TakenInv, Taken, ConnectedTakesPart, Items
(* Which nodes of a table have a client after each step.                   *)
LEMMA TakenUpdate ==
    ASSUME NEW t, NEW D, Listed(t, D), NEW n \in Node, NEW c \in Client \cup {NoClient}
    PROVE  /\ \A m : m # n /\ Taken(t, m) => Taken(Update(t, n, c), m)
           /\ c # NoClient /\ n \in D => Taken(Update(t, n, c), n)
<1> DEFINE u == Update(t, n, c)
<1>1. /\ DOMAIN u.items = DOMAIN t.items
      /\ \A q \in DOMAIN t.items :
           /\ u.items[q].id = t.items[q].id
           /\ t.items[q].id # n => u.items[q] = t.items[q]
           /\ t.items[q].id = n => u.items[q].item = c
  BY Updated
<1> HIDE DEF u
<1>2. \A m : m # n /\ Taken(t, m) => Taken(u, m)
  BY <1>1 DEF Taken
<1>3. c # NoClient /\ n \in D => Taken(u, n)
  BY <1>1 DEF Taken, Listed, Named
<1> QED  BY <1>2, <1>3 DEF u

LEMMA NextTakenInv ==
    OneClient /\ RouteInv /\ TakenInv /\ [WRRNext]_WRRvars => TakenInv'
<1> SUFFICES ASSUME OneClient, RouteInv, TakenInv, [WRRNext]_WRRvars PROVE TakenInv'
  OBVIOUS
<1>0. /\ Listed(table, DOMAIN conf) /\ ListInv /\ Range(clients) \subseteq Client
      /\ routed \subseteq Range(clients)
      /\ \A c \in Client : NodeOf[c] \in Node /\ c # NoClient
  BY RangeIsClients, WRRAssumption DEF RouteInv, TableInv, ListInv
<1>1. ASSUME NEW c \in Client, Register(c) PROVE TakenInv'
  <2>1. c \notin routed
    BY <1>0, <1>1 DEF Register
  <2> QED  BY <1>1, <2>1 DEF Register, TakenInv
<1>2. ASSUME NEW c \in Client, Routed(c) PROVE TakenInv'
  <2>1. /\ table' = Update(table, NodeOf[c], c) /\ conf' = conf /\ active' = active
        /\ routed' = routed \cup {c}
    BY <1>2 DEF Routed, Change
  <2>2. ASSUME NEW d \in routed' \cap active', NodeOf[d] \in DOMAIN conf'
        PROVE  Taken(table', NodeOf[d])
    <3>1. CASE NodeOf[d] = NodeOf[c]
      BY <1>0, <2>1, <2>2, <3>1, TakenUpdate
    <3>2. CASE NodeOf[d] # NodeOf[c]
      <4>1. d \in routed \cap active /\ Taken(table, NodeOf[d])
        BY <2>1, <2>2, <3>2 DEF TakenInv
      <4> QED  BY <1>0, <2>1, <3>2, <4>1, TakenUpdate
    <3> QED  BY <3>1, <3>2
  <2> QED  BY <2>2 DEF TakenInv
<1>3. ASSUME NEW c \in Client, Lost(c) PROVE TakenInv'
  BY <1>3 DEF Lost, TakenInv
<1>4. ASSUME NEW c \in Client, RemoveClient(c) PROVE TakenInv'
  <2>1. /\ table' = Update(table, NodeOf[c], NoClient) /\ conf' = conf /\ active' = active
        /\ routed' = routed \ {c}
    BY <1>4 DEF RemoveClient, Change
  <2>2. ASSUME NEW d \in routed' \cap active', NodeOf[d] \in DOMAIN conf'
        PROVE  Taken(table', NodeOf[d])
    <3>1. d \in routed \cap active /\ Taken(table, NodeOf[d]) /\ d # c /\ d \in Client
      BY <1>0, <2>1, <2>2 DEF TakenInv
    <3>2. NodeOf[d] # NodeOf[c]
      BY <3>1 DEF OneClient
    <3> QED  BY <1>0, <2>1, <3>1, <3>2, TakenUpdate
  <2> QED  BY <2>2 DEF TakenInv
<1>5. CASE RemoveType
  BY <1>5 DEF RemoveType, TakenInv
<1>6. ASSUME NEW n \in Node, RemoveNode(n) PROVE TakenInv'
  <2>1. /\ table' = RemoveItem(table, n) /\ DOMAIN conf' = DOMAIN conf \ {n}
        /\ routed' = routed /\ active' = active /\ n \in DOMAIN conf
    BY <1>6 DEF RemoveNode, Change
  <2>2. \A r \in DOMAIN table.items : table.items[r].id # n =>
          \E q \in DOMAIN table'.items : table'.items[q] = table.items[r]
    BY <1>0, <2>1, Removed
  <2> QED  BY <2>1, <2>2 DEF TakenInv, Taken
<1>7. ASSUME NEW n \in Node, AddNode(n) PROVE TakenInv'
  <2> DEFINE c == FirstOf(Registered(n))
  <2>1. PICK w \in Weights :
          /\ n \notin DOMAIN conf
          /\ conf' = [m \in DOMAIN conf \cup {n} |-> IF m = n THEN w ELSE conf[m]]
          /\ Change(Add(table, n, w, c))
          /\ UNCHANGED <<clients, routed, active>>
    BY <1>7 DEF AddNode
  <2>2. /\ c \in Client \cup {NoClient}
        /\ (\E d \in Range(clients) : NodeOf[d] = n) => c # NoClient
    BY <1>0, RegisteredIs
  <2> HIDE DEF c
  <2>3. table' = Add(table, n, w, c) /\ DOMAIN conf' = DOMAIN conf \cup {n}
        /\ routed' = routed /\ active' = active
    BY <2>1 DEF Change
  <2>4. Longer(table, table', n, c)
    BY <1>0, <2>1, <2>2, <2>3, Added, TopIs
  <2>5. \A m : Taken(table, m) => Taken(table', m)
    BY <2>4 DEF Taken, Longer
  <2>6. c # NoClient => Taken(table', n)
    BY <2>4 DEF Taken, Longer
  <2>7. ASSUME NEW d \in routed' \cap active', NodeOf[d] \in DOMAIN conf'
        PROVE  Taken(table', NodeOf[d])
    <3>1. CASE NodeOf[d] = n
      BY <1>0, <2>2, <2>3, <2>6, <3>1
    <3>2. CASE NodeOf[d] # n
      BY <2>3, <2>5, <2>7, <3>2 DEF TakenInv
    <3> QED  BY <3>1, <3>2
  <2> QED  BY <2>7 DEF TakenInv
<1>8. ASSUME NEW n \in Node, ModifyWeight(n) \/ DeleteWeight(n) PROVE TakenInv'
  <2>1. PICK w \in 0 .. TopWeight : EditWeight(n, w)
    BY <1>8, TopIs DEF ModifyWeight, DeleteWeight
  <2>2. /\ DOMAIN table'.items = DOMAIN table.items
        /\ \A q \in DOMAIN table.items : /\ table'.items[q].id = table.items[q].id
                                         /\ table'.items[q].item = table.items[q].item
    BY <2>1, EditIs
  <2>3. DOMAIN conf' = DOMAIN conf /\ routed' = routed /\ active' = active
    BY <2>1 DEF EditWeight
  <2> QED  BY <2>2, <2>3 DEF TakenInv, Taken
<1>9. CASE FindRoute
  <2>1. conf' = conf /\ routed' = routed /\ active' = active
    BY <1>9 DEF FindRoute, RouteFirst, RouteNone, RouteWeighted
  <2>2. table'.items = table.items
    BY <1>0, <1>9 DEF FindRoute, RouteFirst, RouteNone, RouteWeighted, Listed, Table
  <2> QED  BY <2>1, <2>2 DEF TakenInv, Taken
<1>10. CASE UNCHANGED WRRvars
  BY <1>10 DEF WRRvars, TakenInv
<1> QED  BY <1>1, <1>2, <1>3, <1>4, <1>5, <1>6, <1>7, <1>8, <1>9, <1>10 DEF WRRNext

(* find_route() never follows a dangling or a null pointer: the table has  *)
(* one item for every configured node, and every item that run() may       *)
(* choose has a client of that node that is still registered.              *)
THEOREM Pointers == WRRSpec => [](WRRTypeOK /\ NoStaleClient)
BY RouteInvariance, RouteInvIs, PTL

(* The table is a rotation over the nodes that are configured and          *)
(* connected (find_route(), update_client(), WRRConfigMod), when each node *)
(* has one connection: with two, the removal of the older one disables the *)
(* node that the newer one still serves.                                   *)
THEOREM CurrentTable == OneClient => (WRRSpec => []TableIsCurrent)
<1>1. OneClient /\ RouteInv /\ TakenInv /\ [WRRNext]_WRRvars => (RouteInv /\ TakenInv)'
  BY NextRouteInv, NextTakenInv
<1>2. RouteInv /\ TakenInv => TableIsCurrent
  BY RouteInvIs, TakenInvIs DEF TableIsCurrent
<1>3. OneClient => (WRRSpec => [](RouteInv /\ TakenInv))
  <2> SUFFICES ASSUME OneClient PROVE WRRSpec => [](RouteInv /\ TakenInv)
    OBVIOUS
  <2>1. RouteInv /\ TakenInv /\ [WRRNext]_WRRvars => (RouteInv /\ TakenInv)'
    BY <1>1
  <2> QED  BY <2>1, InitRouteInv, PTL DEF WRRSpec
<1> QED  BY <1>2, <1>3, PTL

(* Only the edit of a weight leaves the divisor and the maximum behind     *)
(* (cfg_events.cpp:128): every other step that changes the table ends in   *)
(* recalc() or changes no weight.                                          *)
THEOREM EditsUnsettle == WRRSpec => OnlyEditsUnsettle
<1>1. ASSUME RouteInv, [WRRNext]_WRRvars, Recalculated, ~Recalculated'
      PROVE  \E n \in Node : ModifyWeight(n) \/ DeleteWeight(n)
  <2>1. Settled(table) /\ ~Settled(table')
    <3>1. Settled(table)
      BY <1>1, SettledIs
    <3>2. Recalculated' <=> Settled(table)'
      BY SettledIs, PTL
    <3> QED  BY <1>1, <3>1, <3>2
  <2>2. Listed(table, DOMAIN conf) /\ Range(clients) \subseteq Client
    BY <1>1, RangeIsClients DEF RouteInv, TableInv
  <2>3. \A c \in Client : NodeOf[c] \in Node
    BY WRRAssumption
  <2>4. ASSUME NEW c \in Client, Register(c) \/ Lost(c) PROVE FALSE
    BY <2>1, <2>4 DEF Register, Lost
  <2>5. ASSUME NEW c \in Client, Routed(c) PROVE FALSE
    <3>1. table' = Update(table, NodeOf[c], c)
      BY <2>5 DEF Routed, Change
    <3> QED  BY <2>1, <2>2, <2>3, <3>1, Updated
  <2>6. ASSUME NEW c \in Client, RemoveClient(c) PROVE FALSE
    <3>1. table' = Update(table, NodeOf[c], NoClient)
      BY <2>6 DEF RemoveClient, Change
    <3> QED  BY <2>1, <2>2, <2>3, <3>1, Updated
  <2>7. ASSUME RemoveType PROVE FALSE
    BY <2>1, <2>7, FreshIs DEF RemoveType, Change
  <2>8. ASSUME NEW n \in Node, RemoveNode(n) PROVE FALSE
    BY <2>1, <2>2, <2>8, Removed DEF RemoveNode, Change
  <2>9. ASSUME NEW n \in Node, AddNode(n) PROVE FALSE
    <3> DEFINE c == FirstOf(Registered(n))
    <3>1. PICK w \in Weights : n \notin DOMAIN conf /\ table' = Add(table, n, w, c)
      BY <2>9 DEF AddNode, Change
    <3>2. c \in Client \cup {NoClient}
      BY <1>1, RegisteredIs DEF RouteInv
    <3> HIDE DEF c
    <3> QED  BY <2>1, <2>2, <3>1, <3>2, Added, TopIs
  <2>10. ~FindRoute
    BY <1>1, <2>1, NextFindRoute
  <2>11. ~UNCHANGED WRRvars
    BY <2>1 DEF WRRvars
  <2> QED
    BY <1>1, <2>4, <2>5, <2>6, <2>7, <2>8, <2>9, <2>10, <2>11 DEF WRRNext
<1>2. RouteInv /\ [WRRNext]_WRRvars =>
        [Recalculated /\ ~Recalculated' => \E n \in Node : ModifyWeight(n) \/ DeleteWeight(n)]_WRRvars
  BY <1>1
<1> QED  BY <1>2, RouteInvariance, PTL DEF WRRSpec, OnlyEditsUnsettle

-----------------------------------------------------------------------------
(* What one lookup does, without remainders.                               *)

(* The item at index q has a weight, and at least c.                       *)
Hit(t, q, c) == t.items[q + 1].weight > 0 /\ t.items[q + 1].weight >= c

(* A lookup that ends in the pass in which it starts ...                   *)
Straight(t) ==
    LET s == Select(t)
    IN  /\ Base(t) >= 1 /\ s.index \in Base(t) .. Len(t.items) - 1
        /\ s.cw = t.cw /\ s.found /\ ~s.restarted
        /\ Hit(t, s.index, t.cw)
        /\ \A q \in Base(t) .. s.index - 1 : ~Hit(t, q, t.cw)

(* ... and one that starts the next pass, with a lowered current weight.   *)
Around(t) ==
    LET s == Select(t)
    IN  /\ s.index \in 0 .. Len(t.items) - 1 /\ s.cw = Lowered(t)
        /\ s.restarted <=> Lowered(t) = t.max
        /\ Base(t) >= 1 => \A q \in Base(t) .. Len(t.items) - 1 : ~Hit(t, q, t.cw)
        /\ \A q \in 0 .. s.index - 1 : ~Hit(t, q, Lowered(t))
        /\ s.found => Hit(t, s.index, Lowered(t))
        /\ ~s.found => \/ s.index = 0 /\ Lowered(t) = 0
                       \/ /\ ~Hit(t, s.index, Lowered(t))
                          /\ s.index = IF Base(t) = 0 THEN Len(t.items) - 1 ELSE Base(t) - 1

LEMMA SelectIs ==
    ASSUME NEW t \in Table, t.items # <<>>
    PROVE  Straight(t) \/ Around(t)
<1>1. PICK n \in Number : n = Len(t.items)
  BY AtIs
<1>2. PICK b \in 0 .. n - 1 : b = Base(t)
  BY <1>1, AtIs
<1>3. \A k \in 1 .. n :
        /\ At(t, k) = IF b + k - 1 < n THEN b + k - 1 ELSE b + k - 1 - n
        /\ At(t, k) \in 0 .. n - 1
        /\ Wrapped(t, k) <=> (b = 0 \/ b + k - 1 >= n)
  BY <1>1, <1>2, AtIs
<1>4. PICK k \in 1 .. n : Stops(t, k)
  BY <1>1, SelectStops
<1>5. n \in Nat /\ n >= 1
  BY DEF Number
<1> DEFINE s == Select(t)  L == Lowered(t)
<1>6. /\ \A j \in 1 .. k - 1 : ~NoWeight(t, j) /\ ~Matches(t, j)
      /\ s.index = At(t, k) /\ s.cw = Cw(t, k)
      /\ s.restarted <=> Wrapped(t, k) /\ L = t.max
      /\ s.found <=> Matches(t, k) /\ ~NoWeight(t, k)
      /\ Matches(t, k) \/ NoWeight(t, k) \/ k = n
  BY <1>1, <1>4 DEF Stops
<1>7. \A j : Matches(t, j) <=> Hit(t, At(t, j), Cw(t, j))
  BY DEF Matches, Hit
<1> HIDE DEF s, L
<1>8. \A j \in 1 .. k - 1 : j \in 1 .. n
  BY <1>5
<1>9. CASE ~Wrapped(t, k)
  <2>1. b >= 1 /\ b + k - 1 < n
    BY <1>3, <1>5, <1>9
  <2>2. At(t, k) = b + k - 1 /\ Cw(t, k) = t.cw /\ At(t, k) \in b .. n - 1
    BY <1>3, <1>5, <1>9, <2>1 DEF Cw
  <2>3. ~NoWeight(t, k) /\ k # n
    BY <1>5, <2>1, <2>2 DEF NoWeight
  <2>4. Matches(t, k)
    BY <1>6, <2>3
  <2>5. ASSUME NEW q \in b .. b + k - 2 PROVE ~Hit(t, q, t.cw)
    <3> DEFINE j == q - b + 1
    <3>1. j \in 1 .. k - 1 /\ b + j - 1 = q /\ b + j - 1 < n /\ j \in 1 .. n
      BY <1>5, <2>1
    <3> HIDE DEF j
    <3>2. At(t, j) = q /\ ~Wrapped(t, j)
      BY <1>3, <1>5, <2>1, <3>1
    <3> QED  BY <1>6, <1>7, <3>1, <3>2 DEF Cw
  <2>6. s.index = b + k - 1 /\ s.index - 1 = b + k - 2
    BY <1>5, <1>6, <2>2
  <2>7. Straight(t)
    BY <1>1, <1>2, <1>6, <1>7, <1>9, <2>1, <2>2, <2>3, <2>4, <2>5, <2>6 DEF Straight, s
  <2> QED  BY <2>7
<1>10. CASE Wrapped(t, k)
  <2>1. b = 0 \/ b + k - 1 >= n
    BY <1>3, <1>10
  <2> DEFINE i == IF b = 0 THEN k - 1 ELSE b + k - 1 - n
  <2>2. i \in 0 .. n - 1 /\ At(t, k) = i
    BY <1>3, <1>5, <2>1
  <2>3. Cw(t, k) = L
    BY <1>10 DEF Cw, L
  <2>4. ASSUME b >= 1, NEW q \in b .. n - 1 PROVE ~Hit(t, q, t.cw)
    <3> DEFINE j == q - b + 1
    <3>1. j \in 1 .. k - 1 /\ b + j - 1 = q /\ b + j - 1 < n /\ j \in 1 .. n
      BY <1>5, <2>1, <2>4
    <3> HIDE DEF j
    <3>2. At(t, j) = q /\ ~Wrapped(t, j)
      BY <1>3, <1>5, <2>4, <3>1
    <3> QED  BY <1>6, <1>7, <3>1, <3>2 DEF Cw
  <2>5. ASSUME NEW q \in 0 .. i - 1 PROVE ~Hit(t, q, L)
    <3> DEFINE j == IF b = 0 THEN q + 1 ELSE q + n - b + 1
    <3>1. j \in 1 .. k - 1 /\ j \in 1 .. n
      BY <1>5, <2>1, <2>2
    <3>2. At(t, j) = q /\ Wrapped(t, j)
      <4>1. IF b = 0 THEN b + j - 1 = q /\ b + j - 1 < n ELSE b + j - 1 = q + n /\ b + j - 1 >= n
        BY <1>5, <2>2
      <4> HIDE DEF j, i
      <4> QED  BY <1>3, <1>5, <3>1, <4>1
    <3> HIDE DEF j
    <3> QED  BY <1>6, <1>7, <3>1, <3>2 DEF Cw, L
  <2>6. k = n => i = IF b = 0 THEN n - 1 ELSE b - 1
    BY <1>5
  <2> HIDE DEF i
  <2>7. s.index = i
    BY <1>6, <2>2
  <2>8. NoWeight(t, k) <=> i = 0 /\ L = 0
    BY <2>2, <2>3 DEF NoWeight
  <2>9. Matches(t, k) <=> Hit(t, i, L)
    BY <1>7, <2>2, <2>3
  <2>10. ~s.found => \/ i = 0 /\ L = 0
                     \/ ~Hit(t, i, L) /\ i = IF b = 0 THEN n - 1 ELSE b - 1
    BY <1>6, <2>6, <2>8, <2>9
  <2>11. s.found => Hit(t, i, L)
    BY <1>6, <2>9
  <2>12. /\ s.index \in 0 .. n - 1 /\ s.cw = L
         /\ s.restarted <=> L = t.max
    BY <1>6, <1>10, <2>2, <2>3, <2>7
  <2>13. Around(t)
    BY <1>1, <1>2, <2>4, <2>5, <2>7, <2>10, <2>11, <2>12 DEF Around, s, L
  <2> QED  BY <2>13
<1> QED  BY <1>9, <1>10

-----------------------------------------------------------------------------
(* The turns that are counted in a cycle.                                  *)

(* Multiples of g differ by at least g. *)
LEMMA Multiples ==
    ASSUME NEW g \in Number, NEW a \in Nat, NEW b \in Nat, Divides(g, a), Divides(g, b)
    PROVE  /\ a > b => a >= b + g /\ Divides(g, a - b)
           /\ a > 0 => a >= g
<1>1. PICK p \in Nat : a = g * p
  BY DividesIs
<1>2. PICK q \in Nat : b = g * q
  BY DividesIs
<1>3. g \in Nat /\ g >= 1
  BY DEF Number
<1>4. a - b = g * (p - q)
  BY <1>1, <1>2, <1>3
<1>5. ASSUME a > b PROVE a >= b + g /\ Divides(g, a - b)
  <2>1. p - q >= 1
    <3>1. p - q <= 0 => g * (p - q) <= 0
      BY <1>3
    <3> QED  BY <1>4, <1>5, <3>1
  <2>2. g * (p - q) >= g
    BY <1>3, <2>1
  <2>3. a - b \in Nat /\ p - q \in Nat
    BY <1>5, <2>1
  <2>4. Divides(g, a - b)
    BY <1>4, <2>3, DividesIs
  <2> QED  BY <1>3, <1>4, <2>2, <2>4
<1>6. a > 0 => a >= g
  <2>1. p = 0 => g * p = 0
    BY <1>3
  <2>2. p >= 1 => g * p >= g
    BY <1>3
  <2> QED  BY <1>1, <2>1, <2>2
<1> QED  BY <1>5, <1>6

(* What the turns of an item of weight w amount to so far in a cycle, when *)
(* the current weight is c: the pass has yet to reach it, or had it.       *)
Yet(w, c) == IF w > c THEN w - c ELSE 0
Had(w, c, g) == IF w >= c THEN w - c + g ELSE 0

(* f counts the turns of a cycle in which the pass of current weight c has *)
(* reached the b-th item.                                                  *)
Tally(t, f, c, b) == \A p \in DOMAIN t.items :
    f[t.items[p].id] * t.gcd = IF p <= b THEN Had(t.items[p].weight, c, t.gcd)
                               ELSE Yet(t.items[p].weight, c)

(* The pass goes on from the b-th item to the item at index i, or to the   *)
(* last item, of which none is hit.                                        *)
LEMMA TallyNext ==
    ASSUME NEW t \in Table, Distinct(t.items), NEW f \in [Node -> Nat],
           NEW c \in Nat, c # 0, NEW b \in Nat, NEW i \in Nat,
           b <= i, i < Len(t.items), Tally(t, f, c, b),
           \A q \in b .. i - 1 : ~Hit(t, q, c),
           NEW h, h = IF Hit(t, i, c) THEN [f EXCEPT ![t.items[i + 1].id] = @ + 1] ELSE f
    PROVE  h \in [Node -> Nat] /\ Tally(t, h, c, i + 1)
<1>1. /\ DOMAIN t.items = 1 .. Len(t.items) /\ Len(t.items) \in Nat
      /\ t.gcd \in Nat
      /\ \A p \in DOMAIN t.items : t.items[p].id \in Node /\ t.items[p].weight \in Nat
  BY TableIs, TopIs
<1>2. i + 1 \in DOMAIN t.items
  BY <1>1
<1>3. t.items[i + 1].id \in Node
  BY <1>1, <1>2
<1>4. h \in [Node -> Nat]
  BY <1>3
<1>5. ASSUME NEW p \in DOMAIN t.items
      PROVE  h[t.items[p].id] * t.gcd = IF p <= i + 1 THEN Had(t.items[p].weight, c, t.gcd)
                                        ELSE Yet(t.items[p].weight, c)
  <2> DEFINE w == t.items[p].weight
  <2>1. w \in Nat /\ p \in Nat /\ p >= 1
    BY <1>1
  <2>2. f[t.items[p].id] * t.gcd = IF p <= b THEN Had(w, c, t.gcd) ELSE Yet(w, c)
    BY DEF Tally
  <2>3. CASE p = i + 1
    <3>1. f[t.items[p].id] * t.gcd = Yet(w, c)
      BY <2>1, <2>2, <2>3
    <3>2. CASE Hit(t, i, c)
      <4>1. w >= c
        BY <2>3, <3>2 DEF Hit
      <4>2. h[t.items[p].id] = f[t.items[p].id] + 1 /\ f[t.items[p].id] \in Nat
        BY <1>3, <2>3, <3>2
      <4>3. h[t.items[p].id] * t.gcd = f[t.items[p].id] * t.gcd + t.gcd
        <5>1. \A x, y \in Nat : (x + 1) * y = x * y + y
          OBVIOUS
        <5> QED  BY <1>1, <4>2, <5>1
      <4>4. Yet(w, c) = w - c
        BY <2>1, <4>1 DEF Yet
      <4>5. Had(w, c, t.gcd) = w - c + t.gcd
        BY <4>1 DEF Had
      <4> QED  BY <1>1, <2>3, <3>1, <4>3, <4>4, <4>5
    <3>3. CASE ~Hit(t, i, c)
      <4>1. w < c
        BY <2>1, <2>3, <3>3 DEF Hit
      <4>2. h[t.items[p].id] = f[t.items[p].id]
        BY <3>3
      <4>3. Yet(w, c) = 0 /\ Had(w, c, t.gcd) = 0
        BY <2>1, <4>1 DEF Yet, Had
      <4> QED  BY <2>3, <3>1, <4>2, <4>3
    <3> QED  BY <3>2, <3>3
  <2>4. CASE p # i + 1
    <3>1. t.items[p].id # t.items[i + 1].id
      BY <1>2, <2>4 DEF Distinct
    <3>2. h[t.items[p].id] = f[t.items[p].id]
      BY <3>1
    <3>3. CASE p <= b
      BY <2>1, <2>2, <3>2, <3>3
    <3>4. CASE p > b /\ p <= i + 1
      <4>1. p - 1 \in b .. i - 1 /\ p - 1 + 1 = p
        BY <2>1, <2>4, <3>4
      <4>2. ~Hit(t, p - 1, c)
        BY <4>1
      <4>3. w < c
        BY <2>1, <4>1, <4>2 DEF Hit
      <4>4. Yet(w, c) = 0 /\ Had(w, c, t.gcd) = 0
        BY <2>1, <4>3 DEF Yet, Had
      <4> QED  BY <2>1, <2>2, <3>2, <3>4, <4>4
    <3>5. CASE p > i + 1
      <4>1. ~(p <= b) /\ ~(p <= i + 1)
        BY <2>1, <3>5
      <4> QED  BY <2>2, <3>2, <4>1
    <3> QED  BY <2>1, <3>3, <3>4, <3>5
  <2> QED  BY <2>3, <2>4
<1> QED  BY <1>4, <1>5 DEF Tally

(* The end of a pass: all items were reached. *)
LEMMA TallyEnd ==
    ASSUME NEW t \in Table, NEW f, NEW c \in Nat, NEW b \in Nat, Tally(t, f, c, b),
           c # 0, \A q \in b .. Len(t.items) - 1 : ~Hit(t, q, c)
    PROVE  \A p \in DOMAIN t.items :
             f[t.items[p].id] * t.gcd = Had(t.items[p].weight, c, t.gcd)
<1> SUFFICES ASSUME NEW p \in DOMAIN t.items
             PROVE  f[t.items[p].id] * t.gcd = Had(t.items[p].weight, c, t.gcd)
  OBVIOUS
<1> DEFINE w == t.items[p].weight
<1>1. w \in Nat /\ p \in Nat /\ p >= 1 /\ p <= Len(t.items) /\ Len(t.items) \in Nat
  BY TableIs
<1>2. f[t.items[p].id] * t.gcd = IF p <= b THEN Had(w, c, t.gcd) ELSE Yet(w, c)
  BY DEF Tally
<1>3. CASE p <= b
  BY <1>2, <1>3
<1>4. CASE ~(p <= b)
  <2>1. p - 1 \in b .. Len(t.items) - 1 /\ p - 1 + 1 = p
    BY <1>1, <1>4
  <2>2. w < c
    BY <1>1, <2>1 DEF Hit
  <2>3. Yet(w, c) = 0 /\ Had(w, c, t.gcd) = 0
    BY <1>1, <2>2 DEF Yet, Had
  <2> QED  BY <1>2, <1>4, <2>3
<1> QED  BY <1>3, <1>4

(* Turns that count a cycle of a settled table. *)
Counting(t, f) ==
    /\ t.index \in 0 .. Len(t.items) - 1 /\ t.cw \in 1 .. t.max /\ Divides(t.gcd, t.cw)
    /\ Tally(t, f, t.cw, t.index + 1)

Turned(t) == [t EXCEPT !.index = Select(t).index, !.cw = Select(t).cw]

LEMMA TurnedIs ==
    ASSUME NEW t \in Table
    PROVE  /\ Turned(t).items = t.items /\ Turned(t).gcd = t.gcd /\ Turned(t).max = t.max
           /\ Turned(t).index = Select(t).index /\ Turned(t).cw = Select(t).cw
BY DEF Table, Turned

LEMMA WeightsAre ==
    ASSUME NEW t \in Table, Settled(t), ~NoWeights(t.items)
    PROVE  /\ t.gcd \in Number /\ t.max \in Number /\ Divides(t.gcd, t.max)
           /\ \A p \in DOMAIN t.items :
                /\ t.items[p].weight \in Nat /\ t.items[p].weight <= t.max
                /\ Divides(t.gcd, t.items[p].weight)
<1>1. t.gcd \in Number
  BY SettledGcd, TopIs DEF Number
<1>2. /\ \E p \in DOMAIN t.items : t.items[p].weight = t.max
      /\ \A p \in DOMAIN t.items : /\ t.items[p].weight <= t.max
                                   /\ t.items[p].weight \in Nat
                                   /\ Divides(t.gcd, t.items[p].weight)
  BY TableIs DEF Settled, DividesAll, Divides
<1>3. PICK p \in DOMAIN t.items : t.items[p].weight # 0
  BY DEF NoWeights
<1>4. t.max \in Nat /\ t.max # 0
  BY <1>2, <1>3
<1> QED  BY <1>1, <1>2, <1>4 DEF Number

(* The current weight is a multiple of the divisor and comes down by it    *)
(* until it starts again: what an item had in one pass and what it has yet *)
(* to have in the next are the same, and in the last pass it is the weight.*)
LEMMA LoweredBy ==
    ASSUME NEW t \in Table, Settled(t), ~NoWeights(t.items),
           t.cw \in 1 .. t.max, Divides(t.gcd, t.cw)
    PROVE  /\ Lowered(t) \in 1 .. t.max /\ Divides(t.gcd, Lowered(t))
           /\ \A p \in DOMAIN t.items :
                Had(t.items[p].weight, t.cw, t.gcd)
                  = IF Lowered(t) = t.max THEN t.items[p].weight
                    ELSE Yet(t.items[p].weight, Lowered(t))
<1> DEFINE g == t.gcd  M == t.max  c == t.cw  L == Lowered(t)
<1>1. /\ g \in Number /\ M \in Number /\ Divides(g, M) /\ Divides(g, c) /\ c \in Nat
      /\ \A p \in DOMAIN t.items :
           /\ t.items[p].weight \in Nat /\ t.items[p].weight <= t.max
           /\ Divides(t.gcd, t.items[p].weight)
  BY WeightsAre, TableIs, TopIs
<1>2. L = IF c - g <= 0 THEN M ELSE c - g
  BY DEF Lowered
<1>3. g \in Nat /\ g >= 1 /\ M \in Nat /\ M >= 1 /\ c >= 1 /\ c <= M
  BY <1>1 DEF Number
<1>4. Divides(g, g)
  BY <1>1, DividesSelf
<1> HIDE DEF g, M, c, L
<1>5. L \in 1 .. M
  BY <1>1, <1>2, <1>3
<1>6. c >= g
  BY <1>1, <1>3, Multiples
<1>7. c > g => Divides(g, c - g)
  BY <1>1, <1>3, <1>4, Multiples
<1>8. Divides(g, L)
  BY <1>1, <1>2, <1>3, <1>6, <1>7
<1>9. L = M => c = g
  BY <1>1, <1>2, <1>3, <1>6
<1>10. L # M => L = c - g
  BY <1>2
<1>11. ASSUME NEW p \in DOMAIN t.items
       PROVE  Had(t.items[p].weight, c, g)
                = IF L = M THEN t.items[p].weight ELSE Yet(t.items[p].weight, L)
  <2> DEFINE w == t.items[p].weight
  <2>1. w \in Nat /\ Divides(g, w)
    BY <1>1 DEF g
  <2> HIDE DEF w
  <2>2. CASE L = M
    <3>1. w > 0 => w >= g
      BY <1>1, <2>1, <1>3, Multiples
    <3>2. Had(w, c, g) = w
      BY <1>3, <1>9, <2>1, <2>2, <3>1 DEF Had
    <3> QED  BY <2>2, <3>2 DEF w
  <2>3. CASE L # M
    <3>1. L = c - g /\ L \in Nat
      BY <1>3, <1>5, <1>10, <2>3
    <3>2. w > L => w >= L + g
      BY <1>1, <1>8, <2>1, <3>1, Multiples
    <3>3. w >= c <=> w > L
      BY <1>1, <1>3, <2>1, <3>1, <3>2
    <3>4. Had(w, c, g) = Yet(w, L)
      BY <1>1, <1>3, <2>1, <3>1, <3>3 DEF Had, Yet
    <3> QED  BY <2>3, <3>4 DEF w
  <2> QED  BY <2>2, <2>3
<1> QED  BY <1>5, <1>8, <1>11 DEF g, M, c, L

Chosen(t, b) == IF Select(t).found THEN [b EXCEPT ![Select(t).item.id] = @ + 1] ELSE b

(* A pass from the first item on ... *)
LEMMA NewPass ==
    ASSUME NEW t \in Table, Distinct(t.items), t.items # <<>>, Settled(t), ~NoWeights(t.items),
           Len(t.items) <= Cardinality(Node), Around(t),
           Lowered(t) \in 1 .. t.max, Divides(t.gcd, Lowered(t)),
           NEW b \in [Node -> Nat], Tally(t, b, Lowered(t), 0)
    PROVE  Chosen(t, b) \in [Node -> Nat] /\ Counting(Turned(t), Chosen(t, b))
<1> DEFINE s == Select(t)  L == Lowered(t)  i == s.index
           h == IF Hit(t, i, L) THEN [b EXCEPT ![t.items[i + 1].id] = @ + 1] ELSE b
<1>1. /\ i \in 0 .. Len(t.items) - 1 /\ s.cw = L
      /\ \A q \in 0 .. i - 1 : ~Hit(t, q, L)
      /\ s.found <=> Hit(t, i, L)
      /\ s.item = t.items[i + 1]
  <2>1. L # 0
    OBVIOUS
  <2> QED  BY <2>1, SelectRange DEF Around
<1>2. Chosen(t, b) = h
  BY <1>1 DEF Chosen
<1>3. L \in Nat /\ L # 0 /\ 0 \in Nat /\ i \in Nat /\ 0 <= i /\ i < Len(t.items)
  BY <1>1, TableIs, TopIs
<1>7. Tally(t, b, L, 0) /\ h = IF Hit(t, i, L) THEN [b EXCEPT ![t.items[i + 1].id] = @ + 1] ELSE b
  OBVIOUS
<1> HIDE DEF L, i, h
<1>4. h \in [Node -> Nat] /\ Tally(t, h, L, i + 1)
  BY <1>1, <1>3, <1>7, TallyNext
<1>5. /\ Turned(t).items = t.items /\ Turned(t).gcd = t.gcd /\ Turned(t).max = t.max
      /\ Turned(t).index = i /\ Turned(t).cw = L
  BY <1>1, TurnedIs DEF i
<1>6. Counting(Turned(t), h)
  BY <1>1, <1>4, <1>5 DEF Counting, Tally, L
<1> QED  BY <1>2, <1>4, <1>6

(* ... the first one of a cycle, from any state of the rotation; ... *)
LEMMA FirstPass ==
    ASSUME NEW t \in Table, Distinct(t.items), t.items # <<>>, Settled(t), ~NoWeights(t.items),
           Len(t.items) <= Cardinality(Node), Select(t).restarted,
           NEW b, b = [n \in Node |-> 0]
    PROVE  Chosen(t, b) \in [Node -> Nat] /\ Counting(Turned(t), Chosen(t, b))
<1>1. Around(t) /\ Lowered(t) = t.max
  BY SelectIs DEF Straight, Around
<1>2. /\ t.max \in Number /\ Divides(t.gcd, t.max) /\ t.gcd \in Nat
      /\ \A p \in DOMAIN t.items : t.items[p].weight \in Nat /\ t.items[p].weight <= t.max
  BY WeightsAre, TableIs, TopIs
<1>3. Lowered(t) \in 1 .. t.max
  BY <1>1, <1>2 DEF Number
<1>4. b \in [Node -> Nat]
  OBVIOUS
<1>5. ASSUME NEW p \in DOMAIN t.items
      PROVE  b[t.items[p].id] * t.gcd = IF p <= 0 THEN Had(t.items[p].weight, t.max, t.gcd)
                                        ELSE Yet(t.items[p].weight, t.max)
  <2>1. t.items[p].id \in Node /\ p >= 1 /\ p \in Nat
    BY TableIs
  <2>2. b[t.items[p].id] * t.gcd = 0
    BY <1>2, <2>1
  <2>3. Yet(t.items[p].weight, t.max) = 0
    BY <1>2 DEF Yet, Number
  <2> QED  BY <2>1, <2>2, <2>3
<1>6. Tally(t, b, Lowered(t), 0)
  BY <1>1, <1>5 DEF Tally
<1> QED  BY <1>1, <1>2, <1>3, <1>4, <1>6, NewPass

(* ... and every lookup that is counted.  When a cycle ends, each item had *)
(* its weight.                                                             *)
LEMMA CountingNext ==
    ASSUME NEW t \in Table, Distinct(t.items), t.items # <<>>, Settled(t), ~NoWeights(t.items),
           Len(t.items) <= Cardinality(Node),
           NEW f \in [Node -> Nat], Counting(t, f)
    PROVE  /\ Select(t).restarted =>
                \A p \in DOMAIN t.items : f[t.items[p].id] * t.gcd = t.items[p].weight
           /\ ~Select(t).restarted =>
                Chosen(t, f) \in [Node -> Nat] /\ Counting(Turned(t), Chosen(t, f))
<1> DEFINE n == Len(t.items)  c == t.cw  L == Lowered(t)
<1>1. /\ t.index \in 0 .. n - 1 /\ c \in 1 .. t.max /\ Divides(t.gcd, c)
      /\ Tally(t, f, c, t.index + 1)
      /\ n \in Nat /\ c \in Nat /\ c # 0 /\ t.index \in Nat
  BY TableIs, TopIs DEF Counting
<1>2. /\ L \in 1 .. t.max /\ Divides(t.gcd, L)
      /\ \A p \in DOMAIN t.items :
           Had(t.items[p].weight, c, t.gcd) = IF L = t.max THEN t.items[p].weight
                                              ELSE Yet(t.items[p].weight, L)
  BY <1>1, LoweredBy
<1>3. /\ t.index = n - 1 => Base(t) = 0
      /\ t.index \in 0 .. n - 2 => Base(t) = t.index + 1
  BY AtIs
<1>4. CASE Straight(t)
  <2> DEFINE i == Select(t).index
             h == IF Hit(t, i, c) THEN [f EXCEPT ![t.items[i + 1].id] = @ + 1] ELSE f
  <2>1. /\ Base(t) >= 1 /\ i \in Base(t) .. n - 1 /\ Select(t).cw = c
        /\ Select(t).found /\ ~Select(t).restarted /\ Hit(t, i, c)
        /\ \A q \in Base(t) .. i - 1 : ~Hit(t, q, c)
        /\ Select(t).item = t.items[i + 1]
    BY <1>4, SelectRange DEF Straight
  <2>2. Base(t) = t.index + 1
    BY <1>1, <1>3, <2>1
  <2> HIDE DEF i
  <2>3. Chosen(t, f) = h
    BY <2>1 DEF Chosen
  <2>4. i \in Nat /\ i < n /\ t.index + 1 \in Nat /\ t.index + 1 <= i /\ i \in 0 .. n - 1
    BY <1>1, <2>1, <2>2
  <2>5. h \in [Node -> Nat] /\ Tally(t, h, c, i + 1)
    BY <1>1, <2>1, <2>2, <2>4, TallyNext
  <2> HIDE DEF h
  <2>6. /\ Turned(t).items = t.items /\ Turned(t).gcd = t.gcd /\ Turned(t).max = t.max
        /\ Turned(t).index = i /\ Turned(t).cw = c
    BY <2>1, TurnedIs DEF i
  <2>7. Counting(Turned(t), h)
    BY <1>1, <2>4, <2>5, <2>6 DEF Counting, Tally
  <2> QED  BY <2>1, <2>3, <2>5, <2>7
<1>5. CASE Around(t)
  <2>1. /\ Select(t).restarted <=> L = t.max
        /\ Base(t) >= 1 => \A q \in Base(t) .. n - 1 : ~Hit(t, q, c)
    BY <1>5 DEF Around
  <2>2. \A q \in t.index + 1 .. n - 1 : ~Hit(t, q, c)
    BY <1>1, <1>3, <2>1
  <2>3. \A p \in DOMAIN t.items :
          f[t.items[p].id] * t.gcd = Had(t.items[p].weight, c, t.gcd)
    <3>1. t.index + 1 \in Nat
      BY <1>1
    <3> QED  BY <1>1, <2>2, <3>1, TallyEnd
  <2>4. CASE L = t.max
    BY <1>2, <2>1, <2>3, <2>4
  <2>5. CASE L # t.max
    <3>1. ASSUME NEW p \in DOMAIN t.items
          PROVE  f[t.items[p].id] * t.gcd = IF p <= 0 THEN Had(t.items[p].weight, L, t.gcd)
                                            ELSE Yet(t.items[p].weight, L)
      <4>1. p \in Nat /\ ~(p <= 0)
        BY TableIs
      <4> QED  BY <1>2, <2>3, <2>5, <4>1
    <3>2. Tally(t, f, L, 0)
      BY <3>1 DEF Tally
    <3>3. Chosen(t, f) \in [Node -> Nat] /\ Counting(Turned(t), Chosen(t, f))
      BY <1>2, <1>5, <3>2, NewPass
    <3> QED  BY <2>1, <2>5, <3>3
  <2> QED  BY <2>4, <2>5
<1> QED  BY <1>4, <1>5, SelectIs

-----------------------------------------------------------------------------
(* A cycle is fair.                                                        *)

(* Turns are counted from the start of a cycle of a settled table.         *)
TurnsInv == turns # Unknown =>
    /\ turns \in [Node -> Nat]
    /\ Settled(table) /\ ~NoWeights(table.items) => Counting(table, turns)

LEMMA ChangedTurns == ASSUME TurnsInv, NEW t, Change(t) PROVE TurnsInv'
<1>1. table' = t /\ turns' = IF t = table THEN turns ELSE Unknown
  BY DEF Change
<1>2. CASE t = table
  BY <1>1, <1>2 DEF TurnsInv
<1>3. CASE t # table
  BY <1>1, <1>3 DEF TurnsInv
<1> QED  BY <1>2, <1>3

LEMMA TurnsOfTable == ASSUME RouteInv
                      PROVE  /\ table \in Table /\ Distinct(table.items)
                             /\ Len(table.items) <= Cardinality(Node)
<1>1. table \in Table /\ Distinct(table.items)
  BY DEF RouteInv, TableInv, Listed
<1>2. WRRTypeOK
  BY RouteInvIs
<1>3. Len(table.items) \in Nat /\ Len(table.items) = Cardinality(DOMAIN conf)
  BY <1>1, <1>2, TableIs DEF WRRTypeOK
<1>4. Cardinality(DOMAIN conf) <= Cardinality(Node)
  <2>1. DOMAIN conf \subseteq Node
    BY DEF RouteInv, ConfInv
  <2> QED  BY <2>1, FS_Subset, WRRAssumption
<1> QED  BY <1>1, <1>3, <1>4

LEMMA WeightedTurns ==
    ASSUME RouteInv, TurnsInv, RouteWeighted
    PROVE  TurnsInv'
<1>1. /\ table \in Table /\ Distinct(table.items) /\ table.items # <<>>
      /\ Len(table.items) <= Cardinality(Node)
  BY TurnsOfTable DEF RouteWeighted
<1>2. table' = Turned(table) /\ turns' = Counted(Select(table))
  BY DEF RouteWeighted, Turned
<1>3. /\ table'.items = table.items /\ table'.gcd = table.gcd /\ table'.max = table.max
  BY <1>1, <1>2, TurnedIs
<1>4. Settled(table') <=> Settled(table)
  BY <1>3 DEF Settled
<1> DEFINE b == IF Select(table).restarted THEN [n \in Node |-> 0] ELSE turns
<1>5. b = Unknown => turns' = Unknown
  BY <1>2 DEF Counted
<1>6. b # Unknown => turns' = Chosen(table, b)
  BY <1>2 DEF Counted, Chosen
<1>7. CASE b = Unknown
  BY <1>5, <1>7 DEF TurnsInv
<1>8. CASE b # Unknown
  <2>1. b \in [Node -> Nat]
    BY <1>8 DEF TurnsInv
  <2>2. Select(table).item.id \in Node
    <3>1. /\ Select(table).index \in 0 .. Len(table.items) - 1
          /\ Select(table).item = table.items[Select(table).index + 1]
      BY <1>1, SelectRange
    <3>2. Select(table).index + 1 \in DOMAIN table.items
      BY <1>1, <3>1, TableIs
    <3> QED  BY <1>1, <3>1, <3>2, TableIs
  <2>3. turns' \in [Node -> Nat]
    <3>1. turns' = Chosen(table, b)
      BY <1>6, <1>8
    <3> HIDE DEF b
    <3>2. b[Select(table).item.id] + 1 \in Nat
      BY <2>1, <2>2
    <3> QED  BY <2>1, <2>2, <3>1, <3>2 DEF Chosen
  <2>4. ASSUME Settled(table), ~NoWeights(table.items)
        PROVE  Counting(table', turns')
    <3>1. CASE Select(table).restarted
      BY <1>1, <1>2, <1>6, <1>8, <2>4, <3>1, FirstPass
    <3>2. CASE ~Select(table).restarted
      <4>1. b = turns /\ Counting(table, turns)
        BY <1>8, <2>4, <3>2 DEF TurnsInv
      <4> HIDE DEF b
      <4> QED  BY <1>1, <1>2, <1>6, <1>8, <2>1, <2>4, <3>2, <4>1, CountingNext
    <3> QED  BY <3>1, <3>2
  <2> QED  BY <1>3, <1>4, <2>3, <2>4 DEF TurnsInv
<1> QED  BY <1>7, <1>8

LEMMA NextTurnsInv == RouteInv /\ TurnsInv /\ [WRRNext]_WRRvars => TurnsInv'
<1> SUFFICES ASSUME RouteInv, TurnsInv, [WRRNext]_WRRvars PROVE TurnsInv'
  OBVIOUS
<1>1. ASSUME UNCHANGED <<table, turns>> PROVE TurnsInv'
  BY <1>1 DEF TurnsInv
<1>2. ASSUME NEW c \in Client, Register(c) \/ Routed(c) \/ Lost(c) \/ RemoveClient(c)
      PROVE  TurnsInv'
  BY <1>1, <1>2, ChangedTurns DEF Register, Routed, Lost, RemoveClient
<1>3. CASE RemoveType
  BY <1>3, ChangedTurns DEF RemoveType
<1>4. ASSUME NEW n \in Node, RemoveNode(n) PROVE TurnsInv'
  BY <1>4, ChangedTurns DEF RemoveNode
<1>5. ASSUME NEW n \in Node, AddNode(n) PROVE TurnsInv'
  BY <1>5, ChangedTurns DEF AddNode
<1>6. ASSUME NEW n \in Node, ModifyWeight(n) \/ DeleteWeight(n) PROVE TurnsInv'
  <2>1. PICK w : EditWeight(n, w)
    BY <1>6 DEF ModifyWeight, DeleteWeight
  <2> QED  BY <2>1, ChangedTurns DEF EditWeight
<1>7. CASE FindRoute
  BY <1>1, <1>7, WeightedTurns DEF FindRoute, RouteFirst, RouteNone
<1>8. CASE UNCHANGED WRRvars
  BY <1>1, <1>8 DEF WRRvars
<1> QED  BY <1>2, <1>3, <1>4, <1>5, <1>6, <1>7, <1>8 DEF WRRNext

(* When run() starts a cycle again and the table was left alone since the  *)
(* start of the last one, it has chosen every node as often as the weight  *)
(* of the node asks, whatever the weights and the number of nodes.         *)
THEOREM FairTurns == WRRSpec => FairShare
<1>1. WRRInit => RouteInv /\ TurnsInv
  BY InitRouteInv DEF WRRInit, TurnsInv
<1>2. RouteInv /\ TurnsInv /\ [WRRNext]_WRRvars => (RouteInv /\ TurnsInv)'
  BY NextRouteInv, NextTurnsInv
<1>3. ASSUME RouteInv, TurnsInv, turns # Unknown, Recalculated, RouteWeighted,
             Select(table).restarted, NEW i \in Items
      PROVE  turns[i.id] * table.gcd = i.weight
  <2>1. Settled(table)
    BY <1>3, SettledIs
  <2>2. /\ table \in Table /\ Distinct(table.items) /\ table.items # <<>>
        /\ Len(table.items) <= Cardinality(Node)
    BY <1>3, TurnsOfTable DEF RouteWeighted
  <2>3. PICK p \in DOMAIN table.items : i = table.items[p]
    BY DEF Items
  <2>4. turns \in [Node -> Nat]
    BY <1>3 DEF TurnsInv
  <2>5. CASE NoWeights(table.items)
    <3>1. table.gcd = 0 /\ i.weight = 0
      BY <2>1, <2>3, <2>5 DEF Settled, NoWeights
    <3>2. turns[i.id] \in Nat
      BY <2>2, <2>3, <2>4, TableIs
    <3> QED  BY <3>1, <3>2
  <2>6. CASE ~NoWeights(table.items)
    <3>1. Counting(table, turns)
      BY <1>3, <2>1, <2>6 DEF TurnsInv
    <3> QED  BY <1>3, <2>1, <2>2, <2>3, <2>4, <2>6, <3>1, CountingNext
  <2> QED  BY <2>5, <2>6
<1>4. RouteInv /\ TurnsInv /\ [WRRNext]_WRRvars =>
        [turns # Unknown /\ Recalculated /\ RouteWeighted /\ Select(table).restarted
           => \A i \in Items : turns[i.id] * table.gcd = i.weight]_WRRvars
  BY <1>3
<1> QED  BY <1>1, <1>2, <1>4, PTL DEF WRRSpec, FairShare

-----------------------------------------------------------------------------
(* The lookups one after another.                                          *)

(* The function After exists: the records of a lookup after another.       *)
Looked(x) == [table  |-> Turned(x.table),
              served |-> x.served \cup IF Select(x.table).found
                                       THEN {Select(x.table).item.id} ELSE {}]

IsRun(r, n, x) == r[0] = x /\ \A k \in 0 .. n - 1 : r[k + 1] = Looked(r[k])

LEMMA RunExists == ASSUME NEW n \in Nat, NEW x PROVE \E r : IsRun(r, n, x)
<1> DEFINE T == {k \in 0 .. n : \E r : IsRun(r, k, x)}
<1>1. 0 \in T
  <2> DEFINE r == [k \in {0} |-> x]
  <2>1. r[0] = x /\ \A k \in 0 .. 0 - 1 : FALSE
    OBVIOUS
  <2> HIDE DEF r
  <2>2. IsRun(r, 0, x)
    BY <2>1 DEF IsRun
  <2> QED  BY <2>2
<1>2. ASSUME NEW k \in 0 .. n - 1, k \in T PROVE k + 1 \in T
  <2>1. PICK r : IsRun(r, k, x)
    BY <1>2
  <2> DEFINE s == [j \in 0 .. k + 1 |-> IF j = k + 1 THEN Looked(r[k]) ELSE r[j]]
  <2>2. \A j \in 0 .. k : s[j] = r[j] /\ s[k + 1] = Looked(r[k])
    OBVIOUS
  <2> HIDE DEF s
  <2>3. s[0] = x
    BY <2>1, <2>2 DEF IsRun
  <2>4. ASSUME NEW j \in 0 .. k PROVE s[j + 1] = Looked(s[j])
    <3>1. CASE j = k
      BY <2>2, <3>1
    <3>2. CASE j # k
      <4>1. j \in 0 .. k - 1 /\ j + 1 \in 0 .. k
        BY <3>2
      <4> QED  BY <2>1, <2>2, <4>1 DEF IsRun
    <3> QED  BY <3>1, <3>2
  <2>5. IsRun(s, k + 1, x)
    BY <2>3, <2>4 DEF IsRun
  <2> QED  BY <2>5
<1> HIDE DEF T
<1>3. \A k \in 0 .. n : k \in T
  BY <1>1, <1>2, AllUpTo
<1> QED  BY <1>3 DEF T

LEMMA RunsAgree ==
    ASSUME NEW m \in Nat, NEW n \in Nat, m <= n, NEW x, NEW r, NEW s,
           IsRun(r, m, x), IsRun(s, n, x)
    PROVE  r[m] = s[m]
<1> DEFINE T == {k \in 0 .. m : r[k] = s[k]}
<1>1. 0 \in T
  BY DEF IsRun
<1>2. ASSUME NEW k \in 0 .. m - 1, k \in T PROVE k + 1 \in T
  <2>1. k \in 0 .. n - 1 /\ k + 1 \in 0 .. m /\ r[k] = s[k]
    BY <1>2
  <2>2. r[k + 1] = Looked(r[k]) /\ s[k + 1] = Looked(s[k])
    BY <2>1 DEF IsRun
  <2> QED  BY <2>1, <2>2
<1> HIDE DEF T
<1>3. \A k \in 0 .. m : k \in T
  BY <1>1, <1>2, AllUpTo
<1> QED  BY <1>3 DEF T

LEMMA AfterIs ==
    /\ After[0] = [table |-> table, served |-> {}]
    /\ \A k \in Nat : After[k + 1] = Looked(After[k])
<1> DEFINE x == [table |-> table, served |-> {}]
           F(f) == [k \in Nat |-> IF k = 0 THEN x ELSE Looked(f[k - 1])]
           G == [k \in Nat |-> (CHOOSE r : IsRun(r, k, x))[k]]
<1>1. ASSUME NEW k \in Nat PROVE \E r : IsRun(r, k, x) /\ G[k] = r[k]
  <2>1. \E r : IsRun(r, k, x)
    <3> HIDE DEF x
    <3> QED  BY RunExists
  <2> HIDE DEF x
  <2>2. IsRun(CHOOSE r : IsRun(r, k, x), k, x)
    BY <2>1
  <2> QED  BY <2>2
<1> HIDE DEF G, x
<1>2. ASSUME NEW k \in Nat PROVE G[k] = F(G)[k]
  <2>1. PICK r : IsRun(r, k, x) /\ G[k] = r[k]
    BY <1>1
  <2>2. CASE k = 0
    BY <2>1, <2>2 DEF IsRun
  <2>3. CASE k # 0
    <3> DEFINE j == k - 1
    <3>1. j \in Nat /\ j <= k /\ j \in 0 .. k - 1 /\ j + 1 = k
      BY <2>3
    <3> HIDE DEF j
    <3>2. PICK s : IsRun(s, j, x) /\ G[j] = s[j]
      BY <1>1, <3>1
    <3>3. s[j] = r[j]
      BY <2>1, <3>1, <3>2, RunsAgree
    <3>4. r[k] = Looked(r[j])
      BY <2>1, <3>1 DEF IsRun
    <3>5. G[k] = Looked(G[j])
      BY <2>1, <3>2, <3>3, <3>4
    <3> QED  BY <2>3, <3>5 DEF j
  <2> QED  BY <2>2, <2>3
<1>3. G = F(G)
  <2>1. G = [k \in Nat |-> G[k]]
    BY DEF G
  <2> HIDE DEF F
  <2>2. F(G) = [k \in Nat |-> F(G)[k]]
    BY DEF F
  <2> QED  BY <1>2, <2>1, <2>2
<1>4. After = CHOOSE f : f = F(f)
  BY DEF After, Looked, Turned, x
<1>5. After = F(After)
  <2> HIDE DEF F
  <2> QED  BY <1>3, <1>4
<1>6. \A k \in Nat : After[k] = IF k = 0 THEN x ELSE Looked(After[k - 1])
  BY <1>5
<1>7. \A k \in Nat : k + 1 \in Nat /\ k + 1 # 0 /\ k + 1 - 1 = k
  OBVIOUS
<1> HIDE DEF F
<1>8. \A k \in Nat : After[k + 1] = Looked(After[k])
  <2> SUFFICES ASSUME NEW k \in Nat PROVE After[k + 1] = Looked(After[k])
    OBVIOUS
  <2>1. After[k + 1] = Looked(After[k + 1 - 1])
    BY <1>6, <1>7
  <2> QED  BY <1>7, <2>1
<1> QED  BY <1>6, <1>8 DEF x

-----------------------------------------------------------------------------
(* A node that has not been chosen yet.                                    *)

(* The rotation has started v passes and has not chosen the item at index  *)
(* i, of weight w: each pass took the divisor off the current weight, and  *)
(* since the first of them a pass low enough has not come to the item yet. *)
Waiting(t, i, w, v) ==
    /\ t.cw + v * t.gcd <= TopWeight + t.max
    /\ v >= 1 => t.index \in 0 .. Len(t.items) - 1 /\ (t.cw > w \/ t.index < i)

LEMMA WaitingNext ==
    ASSUME NEW t \in Table, t.items # <<>>, Len(t.items) <= Cardinality(Node),
           Settled(t), ~NoWeights(t.items),
           NEW i \in 0 .. Len(t.items) - 1, NEW w, w = t.items[i + 1].weight, w > 0,
           ~(Select(t).found /\ Select(t).index = i),
           NEW v \in Nat, Waiting(t, i, w, v)
    PROVE  LET u == Turned(t)
           IN  /\ u.index \in 0 .. Len(t.items) - 1
               /\ \/ Waiting(u, i, w, v) /\ (t.index \in 0 .. Len(t.items) - 1 => u.index > t.index)
                  \/ Waiting(u, i, w, v + 1)
<1> DEFINE n == Len(t.items)  c == t.cw  L == Lowered(t)  g == t.gcd  M == t.max
           u == Turned(t)  j == Select(t).index
<1>1. /\ n \in Nat /\ n >= 1 /\ c \in Nat /\ c <= TopWeight /\ TopWeight \in Nat
      /\ g \in Nat /\ g >= 1 /\ g <= TopWeight /\ M \in Nat /\ M >= 1 /\ M <= TopWeight
      /\ t.index \in Int /\ i \in Nat /\ i <= n - 1
  BY TableIs, TopIs, NodesIs, WeightsAre DEF Number
<1>2. w \in Nat /\ w >= g /\ w <= M
  <2>1. i + 1 \in DOMAIN t.items
    BY TableIs
  <2>2. w \in Nat /\ Divides(g, w) /\ w <= M /\ g \in Number
    BY <2>1, WeightsAre
  <2>3. Divides(g, 0) /\ 0 \in Nat
    BY <2>2, DividesSelf
  <2> QED  BY <2>2, <2>3, Multiples
<1>3. /\ u.items = t.items /\ u.gcd = g /\ u.max = M /\ u.index = j /\ u.cw = Select(t).cw
  BY TurnedIs
<1>4. \A q : Hit(t, q, c) <=> t.items[q + 1].weight > 0 /\ t.items[q + 1].weight >= c
  BY DEF Hit
<1>5. /\ t.index = n - 1 => Base(t) = 0
      /\ t.index \in 0 .. n - 2 => Base(t) = t.index + 1
      /\ Base(t) \in 0 .. n - 1
  BY AtIs
<1>6. PICK r \in Nat : r = v * g
  BY <1>1
<1>7. (v + 1) * g = r + g
  <2>1. \A x, y \in Nat : (x + 1) * y = x * y + y
    OBVIOUS
  <2> QED  BY <1>1, <1>6, <2>1
<1>8. Waiting(t, i, w, v) <=> /\ c + r <= TopWeight + M
                              /\ v >= 1 => t.index \in 0 .. n - 1 /\ (c > w \/ t.index < i)
  BY <1>6 DEF Waiting
<1>9. \A y \in {c, L} : w >= y => Hit(t, i, y)
  BY DEF Hit
<1>10. CASE Straight(t)
  <2>1. /\ Base(t) >= 1 /\ j \in Base(t) .. n - 1 /\ Select(t).cw = c
        /\ Select(t).found
        /\ \A q \in Base(t) .. j - 1 : ~Hit(t, q, c)
    BY <1>10 DEF Straight
  <2>2. j # i
    BY <2>1
  <2> HIDE DEF j, u, c, g, M, n, L
  <2>3. t.index \in 0 .. n - 1 => Base(t) = t.index + 1
    BY <1>1, <1>5, <2>1
  <2>4. v >= 1 /\ ~(c > w) => j < i
    <3> SUFFICES ASSUME v >= 1, ~(c > w), ~(j < i) PROVE FALSE
      OBVIOUS
    <3>1. t.index \in 0 .. n - 1 /\ t.index < i
      BY <1>1, <1>2, <1>8
    <3>2. j \in Nat /\ j > i
      BY <1>1, <1>5, <2>1, <2>2
    <3>3. i \in Base(t) .. j - 1
      BY <1>1, <2>3, <3>1, <3>2
    <3>4. Hit(t, i, c)
      BY <1>1, <1>2, <1>9
    <3> QED  BY <2>1, <3>3, <3>4
  <2>5. j \in 0 .. n - 1
    BY <1>1, <1>5, <2>1
  <2>6. Waiting(u, i, w, v)
    <3>1. u.cw = c /\ u.gcd = g /\ u.max = M /\ u.index = j /\ Len(u.items) = n
      BY <1>3, <2>1 DEF n
    <3> QED  BY <1>2, <1>6, <1>8, <2>4, <2>5, <3>1 DEF Waiting
  <2>7. t.index \in 0 .. n - 1 => j > t.index
    BY <1>1, <1>5, <2>1, <2>3
  <2> QED  BY <1>3, <2>5, <2>6, <2>7 DEF u, n
<1>11. CASE Around(t)
  <2>1. /\ j \in 0 .. n - 1 /\ Select(t).cw = L
        /\ Base(t) >= 1 => \A q \in Base(t) .. n - 1 : ~Hit(t, q, c)
        /\ \A q \in 0 .. j - 1 : ~Hit(t, q, L)
        /\ ~Select(t).found => (j = 0 /\ L = 0) \/ ~Hit(t, j, L)
    BY <1>11 DEF Around
  <2>2. Hit(t, i, L) /\ L # 0 => j # i
    BY <2>1
  <2>3. L = IF c - g <= 0 THEN M ELSE c - g
    BY DEF Lowered
  <2> HIDE DEF j, u, c, g, M, n, L
  <2>4. L \in Nat /\ L # 0
    BY <1>1, <2>3
  <2>5. v >= 1 => c > w
    <3> SUFFICES ASSUME v >= 1, ~(c > w) PROVE FALSE
      OBVIOUS
    <3>1. t.index \in 0 .. n - 1 /\ t.index < i
      BY <1>1, <1>2, <1>8
    <3>2. Base(t) = t.index + 1
      BY <1>1, <1>5, <3>1
    <3>3. i \in Base(t) .. n - 1 /\ Base(t) >= 1
      BY <1>1, <3>1, <3>2
    <3>4. Hit(t, i, c)
      BY <1>1, <1>2, <1>9
    <3> QED  BY <2>1, <3>3, <3>4
  <2>6. ~(L > w) => j < i
    <3> SUFFICES ASSUME ~(L > w), ~(j < i) PROVE FALSE
      OBVIOUS
    <3>1. Hit(t, i, L)
      BY <1>2, <1>9, <2>4
    <3>2. j \in Nat /\ j > i
      BY <1>1, <2>1, <2>2, <2>4, <3>1
    <3>3. i \in 0 .. j - 1
      BY <1>1, <3>2
    <3> QED  BY <2>1, <3>1, <3>3
  <2>7. L + r + g <= TopWeight + M
    <3>1. CASE v = 0
      <4>1. r = 0
        BY <1>1, <1>6, <3>1
      <4> QED  BY <1>1, <2>3, <4>1
    <3>2. CASE v # 0
      <4>1. c > w
        BY <2>5, <3>2
      <4>2. L = c - g
        BY <1>1, <1>2, <2>3, <4>1
      <4> QED  BY <1>1, <1>8, <4>2
    <3> QED  BY <3>1, <3>2
  <2>8. Waiting(u, i, w, v + 1)
    <3>1. u.cw = L /\ u.gcd = g /\ u.max = M /\ u.index = j /\ Len(u.items) = n
      BY <1>3, <2>1 DEF n
    <3>2. L + (r + g) <= TopWeight + M
      BY <1>1, <2>4, <2>7
    <3>3. L + (v + 1) * g <= TopWeight + M
      BY <1>7, <3>2 DEF g
    <3> QED  BY <1>2, <2>1, <2>4, <2>6, <3>1, <3>3 DEF Waiting
  <2> QED  BY <1>3, <2>1, <2>8 DEF u, n, j
<1> QED  BY <1>10, <1>11, SelectIs

-----------------------------------------------------------------------------
(* The rotation cannot pass over a node for ever.                          *)

(* Q rounds more than the current weight can come down are enough: the     *)
(* rotation cannot be waiting that long.                                   *)
LEMMA WaitingEnds ==
    ASSUME NEW t \in Table, NEW i, NEW w \in Nat, NEW v \in Nat, Waiting(t, i, w, v),
           t.gcd \in Number, t.index \in 0 .. Len(t.items) - 1, t.items # <<>>
    PROVE  v * Len(t.items) + t.index
             < Len(t.items) * ((TopWeight + t.max) \div t.gcd + 2) - 1
<1> DEFINE n == Len(t.items)  g == t.gcd  X == TopWeight + t.max  Q == X \div g
<1>1. n \in Nat /\ n >= 1 /\ t.index <= n - 1 /\ t.index \in Nat /\ X \in Nat /\ t.cw \in Nat
  BY TableIs, TopIs, EmptySeq
<1>2. X = g * Q + (X % g) /\ Q \in Int /\ X % g \in 0 .. g - 1 /\ g \in Nat /\ g >= 1
  <2>1. X \in Int /\ g \in Nat /\ g >= 1
    BY <1>1 DEF Number
  <2> HIDE DEF X, g, Q
  <2>2. g \in Number
    BY <2>1 DEF Number
  <2>3. X % g \in 0 .. g - 1 /\ X \div g \in Int /\ X = g * (X \div g) + (X % g)
    BY <2>1, <2>2, RestRange
  <2> QED  BY <2>1, <2>3 DEF Q
<1>3. t.cw + v * g <= X
  BY DEF Waiting
<1> HIDE DEF X, Q, n, g
<1>4. v <= Q
  <2> SUFFICES ASSUME ~(v <= Q) PROVE FALSE
    OBVIOUS
  <2>1. PICK a \in Nat : v = Q + 1 + a
    <3>1. v - Q - 1 \in Nat /\ v = Q + 1 + (v - Q - 1)
      BY <1>2
    <3> QED  BY <3>1
  <2>2. v * g = g * Q + g + g * a
    BY <1>2, <2>1
  <2>3. PICK b \in Nat : b = g * a
    BY <1>2, <2>1
  <2>4. PICK q \in Int : q = g * Q
    BY <1>2
  <2>5. t.cw + (q + g + b) <= q + (X % g)
    BY <1>2, <1>3, <2>2, <2>3, <2>4
  <2> QED  BY <1>1, <1>2, <2>3, <2>4, <2>5
<1>5. v * n <= n * Q
  <2>1. PICK a \in Nat : Q = v + a
    <3>1. Q - v \in Nat /\ Q = v + (Q - v)
      BY <1>2, <1>4
    <3> QED  BY <3>1
  <2>2. n * Q = v * n + n * a
    BY <1>1, <2>1
  <2>3. n * a \in Nat /\ v * n \in Nat
    BY <1>1
  <2> QED  BY <2>2, <2>3
<1>6. n * (Q + 2) = n * Q + n + n
  BY <1>1, <1>2
<1>7. v * n \in Nat /\ n * Q \in Int
  BY <1>1, <1>2
<1>8. v * n + t.index < n * (Q + 2) - 1
  BY <1>1, <1>5, <1>6, <1>7
<1> QED  BY <1>8 DEF n, Q, X, g

(* What the k-th lookup finds, as long as it has not chosen item i.        *)
Late(t, i, w, k) == \E v \in Nat :
    /\ Waiting(t, i, w, v)
    /\ k >= 1 => t.index \in 0 .. Len(t.items) - 1 /\ v * Len(t.items) + t.index >= k - 1

Alike(t, u) == /\ u \in Table /\ u.items = t.items /\ u.gcd = t.gcd /\ u.max = t.max

LEMMA LateNext ==
    ASSUME NEW t \in Table, t.items # <<>>, Len(t.items) <= Cardinality(Node),
           Settled(t), ~NoWeights(t.items),
           NEW i \in 0 .. Len(t.items) - 1, NEW w, w = t.items[i + 1].weight, w > 0,
           ~(Select(t).found /\ Select(t).index = i),
           NEW k \in Nat, Late(t, i, w, k)
    PROVE  Late(Turned(t), i, w, k + 1)
<1> DEFINE u == Turned(t)  n == Len(t.items)
<1>1. PICK v \in Nat : /\ Waiting(t, i, w, v)
                       /\ k >= 1 => t.index \in 0 .. n - 1 /\ v * n + t.index >= k - 1
  BY DEF Late
<1>2. /\ u.index \in 0 .. n - 1
      /\ \/ Waiting(u, i, w, v) /\ (t.index \in 0 .. n - 1 => u.index > t.index)
         \/ Waiting(u, i, w, v + 1)
  BY <1>1, WaitingNext
<1>3. n \in Nat /\ u.items = t.items /\ t.index \in Int
  BY TableIs, TurnedIs, NodesIs
<1> HIDE DEF u, n
<1>4. PICK p \in Nat : p = v * n
  BY <1>3
<1>5. (v + 1) * n = p + n
  <2>1. \A x, y \in Nat : (x + 1) * y = x * y + y
    OBVIOUS
  <2> QED  BY <1>3, <1>4, <2>1
<1>6. k + 1 - 1 = k /\ k \in Nat /\ u.index \in Nat
  BY <1>2, <1>3
<1>7. CASE Waiting(u, i, w, v) /\ (t.index \in 0 .. n - 1 => u.index > t.index)
  <2>1. p + u.index >= k
    <3>1. CASE k = 0
      BY <1>4, <1>6, <3>1
    <3>2. CASE k # 0
      BY <1>1, <1>3, <1>4, <1>6, <1>7, <3>2
    <3> QED  BY <3>1, <3>2
  <2>2. v * Len(u.items) + u.index >= k + 1 - 1
    BY <1>3, <1>4, <1>6, <2>1 DEF n
  <2> QED  BY <1>2, <1>3, <1>7, <2>2 DEF Late, u, n
<1>8. CASE Waiting(u, i, w, v + 1)
  <2>1. p + n + u.index >= k
    <3>1. CASE k = 0
      BY <1>3, <1>4, <1>6, <3>1
    <3>2. CASE k # 0
      BY <1>1, <1>3, <1>4, <1>6, <1>8, <3>2
    <3> QED  BY <3>1, <3>2
  <2>2. (v + 1) * Len(u.items) + u.index >= k + 1 - 1
    BY <1>3, <1>5, <1>6, <2>1 DEF n
  <2>3. v + 1 \in Nat
    OBVIOUS
  <2>4. \E z \in Nat : Waiting(u, i, w, z) /\ z * Len(u.items) + u.index >= k + 1 - 1
    BY <1>8, <2>2, <2>3
  <2>5. u.index \in 0 .. Len(u.items) - 1
    BY <1>2, <1>3 DEF n
  <2>6. Late(u, i, w, k + 1)
    BY <2>4, <2>5 DEF Late
  <2> QED  BY <2>6 DEF u
<1> QED  BY <1>2, <1>7, <1>8

-----------------------------------------------------------------------------
(* Every enabled node is served.                                           *)

LEMMA LookedServes ==
    ASSUME NEW t \in Table, t.items # <<>>, Len(t.items) <= Cardinality(Node),
           Settled(t), ~NoWeights(t.items),
           NEW x, Alike(t, x.table), NEW k \in Nat,
           NEW i \in 0 .. Len(t.items) - 1, NEW w, w = t.items[i + 1].weight, w > 0,
           NEW d, d = t.items[i + 1].id, d \in x.served \/ Late(x.table, i, w, k)
    PROVE  /\ Alike(t, Looked(x).table)
           /\ d \in Looked(x).served \/ Late(Looked(x).table, i, w, k + 1)
<1> DEFINE u == x.table  s == Select(u)  y == Looked(x)
<1>1. /\ u \in Table /\ u.items = t.items /\ u.gcd = t.gcd /\ u.max = t.max
  BY DEF Alike
<1>2. /\ y.table = Turned(u)
      /\ y.served = x.served \cup IF s.found THEN {s.item.id} ELSE {}
  BY DEF Looked
<1>3. Settled(u) /\ ~NoWeights(u.items) /\ u.items # <<>> /\ Len(u.items) <= Cardinality(Node)
  BY <1>1 DEF Settled
<1> HIDE DEF u, s, y
<1>4. s.item = u.items[s.index + 1] /\ Turned(u) \in Table
  BY <1>1, <1>3, SelectRange DEF s, Turned
<1>5. Alike(t, y.table)
  BY <1>1, <1>2, <1>4, TurnedIs DEF Alike
<1>6. CASE d \in x.served
  BY <1>2, <1>5, <1>6 DEF y
<1>7. CASE s.found /\ s.index = i
  BY <1>1, <1>2, <1>4, <1>5, <1>7 DEF y
<1>8. CASE d \notin x.served /\ ~(s.found /\ s.index = i)
  <2>1. Late(u, i, w, k)
    BY <1>8 DEF u
  <2>2. i \in 0 .. Len(u.items) - 1 /\ w = u.items[i + 1].weight
    BY <1>1
  <2>3. Late(Turned(u), i, w, k + 1)
    BY <1>1, <1>3, <1>8, <2>1, <2>2, LateNext DEF s
  <2> QED  BY <1>2, <1>5, <2>3 DEF y
<1> QED  BY <1>6, <1>7, <1>8

LEMMA ServedIs == RouteInv => Served
<1> SUFFICES ASSUME RouteInv, Recalculated, table.gcd > 0, NEW e \in Items, e.weight > 0
             PROVE  e.id \in After[Lookups].served
  BY DEF Served
<1> DEFINE t == table  n == Len(t.items)  Q == (TopWeight + t.max) \div t.gcd
<1>1. t \in Table /\ n <= Cardinality(Node) /\ Settled(t)
  BY TurnsOfTable, SettledIs
<1>2. ~NoWeights(t.items)
  BY <1>1 DEF Settled
<1>3. PICK p \in DOMAIN t.items : e = t.items[p]
  BY DEF Items
<1>4. /\ n \in Nat /\ DOMAIN t.items = 1 .. n /\ t.items # <<>> /\ n >= 1
      /\ t.gcd \in Number /\ t.max \in Nat /\ t.cw \in Nat /\ t.cw <= TopWeight
      /\ TopWeight \in Nat /\ e.weight \in Nat
  BY <1>1, <1>2, <1>3, TableIs, TopIs, WeightsAre DEF Number
<1> HIDE DEF t
<1>5. Q \in Nat
  <2>1. PICK X \in Nat : X = TopWeight + t.max
    BY <1>4
  <2>2. PICK g \in Number : g = t.gcd
    BY <1>4
  <2>3. X \div g \in Int /\ X = g * (X \div g) + (X % g) /\ X % g \in 0 .. g - 1
    BY RestRange
  <2>4. PICK q \in Int : q = X \div g
    BY <2>3
  <2>5. q < 0 => g * q <= -g
    BY DEF Number
  <2>6. q \in Nat
    BY <2>3, <2>4, <2>5 DEF Number
  <2> QED  BY <2>1, <2>2, <2>4, <2>6
<1> HIDE DEF n, Q
<1>6. PICK i \in 0 .. n - 1 : i + 1 = p
  <2>1. p - 1 \in 0 .. n - 1 /\ p - 1 + 1 = p
    BY <1>3, <1>4
  <2> QED  BY <2>1
<1>7. PICK K \in Nat : K = n * (Q + 2)
  BY <1>4, <1>5
<1>8. Lookups = K
  BY <1>7 DEF Lookups, n, Q, t
<1>9. K >= 1
  <2>1. n * (Q + 2) = n * (Q + 1) + n /\ n * (Q + 1) \in Nat
    BY <1>4, <1>5
  <2> QED  BY <1>4, <1>7, <2>1
<1> DEFINE d == e.id  w == e.weight
           Right(k) == /\ Alike(t, After[k].table)
                       /\ d \in After[k].served \/ Late(After[k].table, i, w, k)
           T == {k \in 0 .. K : Right(k)}
<1>10. 0 \in T
  <2>1. After[0].table = t
    BY AfterIs DEF t
  <2>2. Waiting(t, i, w, 0)
    <3>1. t.gcd \in Nat /\ 0 * t.gcd = 0
      BY <1>4 DEF Number
    <3> QED  BY <1>4, <3>1 DEF Waiting
  <2>3. Late(t, i, w, 0)
    BY <2>2 DEF Late
  <2>4. Alike(t, t)
    BY <1>1 DEF Alike
  <2>5. Right(0)
    BY <2>1, <2>3, <2>4
  <2> HIDE DEF Right
  <2> QED  BY <2>5
<1>11. ASSUME NEW k \in 0 .. K - 1, k \in T PROVE k + 1 \in T
  <2>1. Right(k) /\ k \in Nat /\ k + 1 \in 0 .. K
    BY <1>11
  <2>2. After[k + 1] = Looked(After[k])
    BY <2>1, AfterIs
  <2>3. w = t.items[i + 1].weight /\ w > 0 /\ d = t.items[i + 1].id
    BY <1>3, <1>6
  <2>4. i \in 0 .. Len(t.items) - 1 /\ Len(t.items) <= Cardinality(Node)
    BY <1>1, <1>6 DEF n
  <2> HIDE DEF d, w
  <2>5. Right(k + 1)
    BY <1>1, <1>2, <1>4, <2>1, <2>2, <2>3, <2>4, LookedServes
  <2> HIDE DEF Right
  <2> QED  BY <2>1, <2>5
<1> HIDE DEF Right
<1>12. K \in T
  <2> HIDE DEF T
  <2>1. K \in 0 .. K
    OBVIOUS
  <2> QED  BY <1>10, <1>11, <2>1, AllUpTo
<1>13. Right(K)
  BY <1>12
<1>14. ~Late(After[K].table, i, w, K)
  <2> DEFINE u == After[K].table
  <2>1. /\ u \in Table /\ u.items = t.items /\ u.gcd = t.gcd /\ u.max = t.max
    BY <1>13 DEF Right, Alike
  <2> HIDE DEF u
  <2> SUFFICES ASSUME Late(u, i, w, K) PROVE FALSE
    BY DEF u
  <2>2. PICK v \in Nat : /\ Waiting(u, i, w, v) /\ u.index \in 0 .. Len(u.items) - 1
                         /\ v * Len(u.items) + u.index >= K - 1
    BY <1>9 DEF Late
  <2>3. v * Len(u.items) + u.index < Len(u.items) * ((TopWeight + u.max) \div u.gcd + 2) - 1
    BY <1>4, <2>1, <2>2, WaitingEnds
  <2>4. Len(u.items) * ((TopWeight + u.max) \div u.gcd + 2) = K
    BY <1>7, <2>1 DEF n, Q
  <2>5. v * Len(u.items) \in Nat /\ u.index \in Nat
    BY <1>4, <2>1, <2>2 DEF n
  <2> QED  BY <2>2, <2>3, <2>4, <2>5
<1> QED  BY <1>8, <1>13, <1>14 DEF Right

(* A table that is left alone and whose divisor and maximum are right      *)
(* serves every enabled node within so many lookups: run() does not pass   *)
(* over a node forever, from whatever index and current weight.            *)
THEOREM EveryNodeServed == WRRSpec => []Served
BY RouteInvariance, ServedIs, PTL

=============================================================================
