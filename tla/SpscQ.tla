------------------------------- MODULE SpscQ -------------------------------
(***************************************************************************)
(* lockfree::SpscQ<T> (src/include/spscq.h): the ring through which the IN *)
(* thread of a GDT client hands payloads to its OUT thread.                *)
(*                                                                         *)
(* The producer owns shadow_head and publishes it in head; the consumer    *)
(* owns shadow_tail and publishes it in tail, but only when it crosses a   *)
(* multiple of QUEUE_WATERMARK.  Each store or load of a shared field is a *)
(* step of its own: the compiler barriers keep them in program order.      *)
(***************************************************************************)
EXTENDS Naturals, Sequences

CONSTANTS Item,        \* the pointers that are queued
          NoItem,      \* the content of a slot that was never written
          QSIZE,       \* number of slots, a power of two
          WATERMARK,   \* QUEUE_WATERMARK: a power of two that divides QSIZE
          FlushFlags   \* the values callers pass for flush_item

ASSUME ItemAssumption == NoItem \notin Item
ASSUME QSizeAssumption == QSIZE \in Nat /\ QSIZE >= 3
ASSUME WatermarkAssumption == WATERMARK \in Nat \ {0}
ASSUME FlushAssumption == FlushFlags \subseteq BOOLEAN

VARIABLES shadow_head,  \* next slot to write (producer)
          head,         \* first slot not yet published (volatile)
          tail,         \* last slot released (volatile)
          shadow_tail,  \* last slot read (consumer)
          items,        \* the ring
          push,         \* the push in progress, see PushState
          pop           \* the pop in progress and its out parameter

vars == <<shadow_head, head, tail, shadow_tail, items, push, pop>>

Slot == 0 .. QSIZE - 1
PushState == [pc : {"idle", "store", "publish"},
              item : Item \cup {NoItem}, flush : BOOLEAN]
PopState == [pc : {"idle", "load", "release"}, item : Item \cup {NoItem}]

(* (i + 1) & QUEUE_ITEMS_MASK *)
NextSlot(i) == IF i = QSIZE - 1 THEN 0 ELSE i + 1

AtWatermarkRarely(i) == i % QSIZE = 0   \* mutant: mask of QSIZE
AtWatermarkNever(i) == FALSE   \* mutant: tail is not published

(* (i & QUEUE_WATERMARK_MASK) == 0 *)
AtWatermark(i) == i % WATERMARK = 0

(* How many slots b is ahead of a, going round the ring. *)
Ahead(a, b) == IF b >= a THEN b - a ELSE b - a + QSIZE

Init == /\ head = 0 /\ shadow_head = 0
        /\ tail = QSIZE - 1 /\ shadow_tail = QSIZE - 1
        /\ items = [s \in Slot |-> NoItem]
        /\ push = [pc |-> "idle", item |-> NoItem, flush |-> FALSE]
        /\ pop = [pc |-> "idle", item |-> NoItem]

-----------------------------------------------------------------------------
(* push(flush_item, item).  A push that finds the ring full returns 1 and  *)
(* changes nothing.                                                        *)
PushCheck(i, f) ==
    /\ push.pc = "idle"
    /\ tail # NextSlot(shadow_head)
    /\ push' = [pc |-> "store", item |-> i, flush |-> f]
    /\ UNCHANGED <<shadow_head, head, tail, shadow_tail, items, pop>>

PushStore ==
    /\ push.pc = "store"
    /\ items' = [items EXCEPT ![shadow_head] = push.item]
    /\ shadow_head' = NextSlot(shadow_head)
    /\ push' = [push EXCEPT !.pc =
                  IF push.flush \/ AtWatermark(NextSlot(shadow_head))
                    THEN "publish" ELSE "idle"]
    /\ UNCHANGED <<head, tail, shadow_tail, pop>>

PushPublish ==
    /\ push.pc = "publish"
    /\ head' = shadow_head
    /\ push' = [push EXCEPT !.pc = "idle"]
    /\ UNCHANGED <<shadow_head, tail, shadow_tail, items, pop>>

-----------------------------------------------------------------------------
PopCheckEarly ==   \* mutant: compares the slot read last
    /\ pop.pc = "idle"
    /\ shadow_tail # head
    /\ pop' = [pop EXCEPT !.pc = "load"]
    /\ UNCHANGED <<shadow_head, head, tail, shadow_tail, items, push>>

(* pop(&item).  A pop that finds nothing published returns 1. *)
PopCheck ==
    /\ pop.pc = "idle"
    /\ NextSlot(shadow_tail) # head
    /\ pop' = [pop EXCEPT !.pc = "load"]
    /\ UNCHANGED <<shadow_head, head, tail, shadow_tail, items, push>>

PopLoadLast ==   \* mutant: reads the slot released before
    /\ pop.pc = "load"
    /\ shadow_tail' = NextSlot(shadow_tail)
    /\ pop' = [pc |-> IF AtWatermark(NextSlot(shadow_tail))
                        THEN "release" ELSE "idle",
               item |-> items[shadow_tail]]
    /\ UNCHANGED <<shadow_head, head, tail, items, push>>

PopLoad ==
    /\ pop.pc = "load"
    /\ shadow_tail' = NextSlot(shadow_tail)
    /\ pop' = [pc |-> IF AtWatermark(NextSlot(shadow_tail))
                        THEN "release" ELSE "idle",
               item |-> items[NextSlot(shadow_tail)]]
    /\ UNCHANGED <<shadow_head, head, tail, items, push>>

PopRelease ==
    /\ pop.pc = "release"
    /\ tail' = shadow_tail
    /\ pop' = [pop EXCEPT !.pc = "idle"]
    /\ UNCHANGED <<shadow_head, head, shadow_tail, items, push>>

-----------------------------------------------------------------------------
Producer == \/ \E i \in Item, f \in FlushFlags : PushCheck(i, f)
            \/ PushStore
            \/ PushPublish
Consumer == PopCheck \/ PopLoad \/ PopRelease

Next == Producer \/ Consumer

Spec == Init /\ [][Next]_vars

(* OUT polls the queue for as long as the client is active, and a push     *)
(* that was begun is finished; that there is anything to push is not       *)
(* promised.                                                               *)
FairSpec == Spec /\ WF_vars(PushStore) /\ WF_vars(PushPublish)
                 /\ WF_vars(Consumer)

-----------------------------------------------------------------------------
(* The slot k places after slot i. *)
SlotAfter(i, k) == IF i + k < QSIZE THEN i + k ELSE i + k - QSIZE

(* The number of items accepted and not yet taken. *)
Held == Ahead(shadow_tail, shadow_head) - 1

(* The indices stay on the ring, and the ring holds queued pointers only.  *)
TypeOK == /\ shadow_head \in Slot /\ head \in Slot
          /\ tail \in Slot /\ shadow_tail \in Slot
          /\ items \in [Slot -> Item \cup {NoItem}]
          /\ push \in PushState /\ pop \in PopState

(* The four indices lie on the ring in the order tail, shadow_tail, head,  *)
(* shadow_head, and the slot after shadow_head is never tail's own: push() *)
(* reads a stale tail and pop() a stale head, and neither may be overtaken.*)
RingOrder ==
    /\ Ahead(tail, shadow_tail) < Ahead(tail, head)
    /\ Ahead(tail, head) <= Ahead(tail, shadow_head)
    /\ push.pc = "store" => tail # NextSlot(shadow_head)
    /\ push.pc = "publish" => head # shadow_head
    /\ pop.pc = "load" => NextSlot(shadow_tail) # head

(* The producer never writes the slot the consumer is about to read        *)
(* although both work on the ring without a lock.                          *)
NoSlotRace ==
    push.pc = "store" /\ pop.pc = "load" => shadow_head # NextSlot(shadow_tail)

(* Because tail is published only at the watermark, push() may report a    *)
(* full ring that is not; but only when at least QSIZE - 2 - WATERMARK     *)
(* items are held: what GDTClient calls InternalCap.                       *)
RefusalBound ==
    tail = NextSlot(shadow_head) => Held >= QSIZE - 2 - WATERMARK

(* OUT drains the ring far enough to release a tail: the producer is not   *)
(* refused for ever, unless it leaves items unpublished, which no caller   *)
(* does (all of them flush).                                               *)
NeverStuckFull == \/ []<>(tail # NextSlot(shadow_head))
                  \/ <>[](head # shadow_head)

(* What push() accepts is what pop() returns, once each, in order.         *)
Contents == [k \in 1 .. Held |-> items[SlotAfter(shadow_tail, k)]]
Fifo == INSTANCE BoundedFifo
          WITH queue <- Contents, taken <- pop.item, Capacity <- QSIZE - 2
FifoSpec == Fifo!Spec
=============================================================================
