----------------------------- MODULE WorkQueue -----------------------------
(***************************************************************************)
(* The circular buffer of thread_pool.h / thread_pool.c: a WorkQueue value *)
(* and the four internal helpers, as operators on that value.  The helpers *)
(* keep the names of the C functions; queue_pop, which returns an item and *)
(* updates the queue, is the pair queue_front (the item) and queue_pop     *)
(* (the queue left behind).  They check nothing themselves: pushing on a   *)
(* full queue overwrites, popping an empty one returns a stale slot, as in *)
(* the code.  Their callers own the guards.                                *)
(***************************************************************************)
EXTENDS Integers, Sequences

CONSTANT QUEUE_CAPACITY

ASSUME CapacityAssumption == QUEUE_CAPACITY \in Nat \ {0}

Slots == 0 .. QUEUE_CAPACITY - 1

\* A WorkQueue whose slots hold members of S.
WorkQueueOf(S) ==
  [items : [Slots -> S], head : Slots, tail : Slots, count : 0 .. QUEUE_CAPACITY]

\* The queue memset() leaves behind, every slot holding the zero item.
EmptyQueue(zero) ==
  [items |-> [j \in Slots |-> zero], head |-> 0, tail |-> 0, count |-> 0]

\* Faulty variant: a queue that is never full.
QueueNeverFull(q) == q.count > QUEUE_CAPACITY
queue_is_empty(q) == q.count = 0
queue_is_full(q) == q.count = QUEUE_CAPACITY

\* Faulty variants: the new item lands one slot too far; head stays put.
PushPastTail(q, x) ==
  [q EXCEPT !.items[(q.tail + 1) % QUEUE_CAPACITY] = x,
            !.tail = (@ + 1) % QUEUE_CAPACITY, !.count = @ + 1]
PopKeepsHead(q) == [q EXCEPT !.count = @ - 1]

queue_push(q, x) ==
  [q EXCEPT !.items[q.tail] = x,
            !.tail = (@ + 1) % QUEUE_CAPACITY,
            !.count = @ + 1]

queue_front(q) == q.items[q.head]

queue_pop(q) ==
  [q EXCEPT !.head = (@ + 1) % QUEUE_CAPACITY, !.count = @ - 1]

\* What the buffer stands for: the sequence of its items, oldest first.
Contents(q) == [i \in 1 .. q.count |-> q.items[(q.head + i - 1) % QUEUE_CAPACITY]]

\* The two ends agree with the number of items in between.
EndsAgree(q) == q.tail = (q.head + q.count) % QUEUE_CAPACITY
=============================================================================
