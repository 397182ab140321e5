-------------------------- MODULE WorkQueueProofs --------------------------
(***************************************************************************)
(* The ring buffer of WorkQueue, for every capacity and every set of       *)
(* items: queue_push appends to the sequence the buffer stands for and     *)
(* queue_pop takes its first item away, wherever head and tail are.        *)
(***************************************************************************)
EXTENDS WorkQueue, SequenceTheorems, TLAPS

\* Remainders of the indices that occur: one wrap at most.
LEMMA Wrap ==
  ASSUME NEW n \in Nat \ {0}, NEW a \in 0 .. 2 * n - 1
  PROVE  /\ a < n => a % n = a
         /\ a >= n => a % n = a - n
  BY Z3

\* One slot on.
LEMMA NextSlot ==
  ASSUME NEW n \in Nat \ {0}, NEW a \in 0 .. n - 1
  PROVE  (a + 1) % n = IF a + 1 < n THEN a + 1 ELSE 0
<1> DEFINE b == a + 1
<1>1. b \in 0 .. 2 * n - 1 /\ (b >= n => b - n = 0)
  OBVIOUS
<1> HIDE DEF b
<1>2. b % n = IF b < n THEN b ELSE 0
  BY <1>1, Wrap
<1> QED
  BY <1>2 DEF b

\* Moving on before or after a number of other steps is the same.
LEMMA StepAround ==
  ASSUME NEW n \in Nat \ {0}, NEW h \in 0 .. n - 1, NEW c \in 0 .. n - 1
  PROVE  /\ (((h + c) % n) + 1) % n = (h + (c + 1)) % n
         /\ (((h + 1) % n) + c) % n = (h + (c + 1)) % n
<1> DEFINE a == h + c
           b == h + (c + 1)
           g == (h + 1) % n
           e == g + c
<1>1. /\ a \in 0 .. 2 * n - 1 /\ b \in 0 .. 2 * n - 1
      /\ b = a + 1
  OBVIOUS
<1>2. g = IF h + 1 < n THEN h + 1 ELSE 0
  BY NextSlot
<1>3. /\ e \in 0 .. 2 * n - 1
      /\ e = b \/ (e = b - n /\ b >= n /\ e < n)
  <2> HIDE DEF g
  <2> QED
    BY <1>2
<1> HIDE DEF a, b, e
<1>4. a % n \in 0 .. n - 1 /\ (a % n = a \/ (a % n = a - n /\ a >= n))
  BY <1>1, Wrap
<1>5. ((a % n) + 1) % n = b % n
  <2> DEFINE r == a % n
  <2> HIDE DEF r
  <2>1. (r + 1) % n = IF r + 1 < n THEN r + 1 ELSE 0
    BY <1>4, NextSlot DEF r
  <2>2. b % n = IF b < n THEN b ELSE b - n
    BY <1>1, Wrap
  <2>3. r \in 0 .. n - 1 /\ (r = a \/ (r = a - n /\ a >= n)) /\ (a < n => r = a)
    BY <1>1, <1>4, Wrap DEF r
  <2>4. (r + 1) % n = b % n
    BY <1>1, <2>1, <2>2, <2>3
  <2> QED
    BY <2>4 DEF r
<1>6. e % n = b % n
  BY <1>1, <1>3, Wrap
<1> QED
  BY <1>5, <1>6 DEF a, b, e

\* The slot of the i-th oldest item, without the remainder.
LEMMA SlotOf ==
  ASSUME NEW h \in Slots, NEW i \in 1 .. QUEUE_CAPACITY + 1
  PROVE  /\ (h + i - 1) % QUEUE_CAPACITY \in Slots
         /\ h + i - 1 < QUEUE_CAPACITY => (h + i - 1) % QUEUE_CAPACITY = h + i - 1
         /\ h + i - 1 >= QUEUE_CAPACITY =>
              (h + i - 1) % QUEUE_CAPACITY = h + i - 1 - QUEUE_CAPACITY
<1>1. QUEUE_CAPACITY \in Nat \ {0}
  BY CapacityAssumption
<1> DEFINE a == h + i - 1
<1>2. a \in 0 .. 2 * QUEUE_CAPACITY - 1
  BY <1>1 DEF Slots
<1>3. /\ a < QUEUE_CAPACITY => a % QUEUE_CAPACITY = a
      /\ a >= QUEUE_CAPACITY => a % QUEUE_CAPACITY = a - QUEUE_CAPACITY
  <2> HIDE DEF a
  <2> QED
    BY <1>1, <1>2, Wrap
<1>4. a % QUEUE_CAPACITY \in Slots
  <2> HIDE DEF a
  <2> QED
    BY <1>1, <1>2, <1>3 DEF Slots
<1> QED
  BY <1>1, <1>3, <1>4 DEF Slots

\* The buffer holds what is said to be in it.
LEMMA ContentsType ==
  ASSUME NEW S, NEW q \in WorkQueueOf(S)
  PROVE  /\ Contents(q) \in Seq(S)
         /\ Len(Contents(q)) = q.count
         /\ DOMAIN Contents(q) = 1 .. q.count
<1>1. \A i \in 1 .. q.count : q.items[(q.head + i - 1) % QUEUE_CAPACITY] \in S
  BY CapacityAssumption, SlotOf DEF WorkQueueOf
<1>2. Contents(q) \in [1 .. q.count -> S]
  BY <1>1 DEF Contents
<1>3. q.count \in Nat
  BY CapacityAssumption DEF WorkQueueOf
<1> QED
  BY <1>2, <1>3

\* queue_push on a buffer that is not full: the item joins the end, every
\* older item keeps its place.
THEOREM PushAppends ==
  ASSUME NEW S, NEW q \in WorkQueueOf(S), NEW x \in S,
         EndsAgree(q), ~queue_is_full(q)
  PROVE  /\ queue_push(q, x) \in WorkQueueOf(S)
         /\ EndsAgree(queue_push(q, x))
         /\ queue_push(q, x).count = q.count + 1
         /\ Contents(queue_push(q, x)) = Append(Contents(q), x)
<1> DEFINE p == queue_push(q, x)
           N == QUEUE_CAPACITY
<1>1. /\ N \in Nat \ {0}
      /\ q.head \in 0 .. N - 1 /\ q.tail \in 0 .. N - 1
      /\ q.count \in 0 .. N - 1
      /\ q.items \in [Slots -> S]
  BY CapacityAssumption DEF WorkQueueOf, queue_is_full, Slots
<1>2. /\ p.head = q.head
      /\ p.tail = (q.tail + 1) % N
      /\ p.count = q.count + 1
      /\ p.items = [q.items EXCEPT ![q.tail] = x]
  BY DEF queue_push, WorkQueueOf
<1>3. /\ q.tail = (q.head + (q.count + 1) - 1) % N
      /\ q.tail = IF q.head + q.count < N THEN q.head + q.count ELSE q.head + q.count - N
  <2>1. q.tail = (q.head + (q.count + 1) - 1) % N
    BY <1>1 DEF EndsAgree
  <2>2. q.count + 1 \in 1 .. N + 1 /\ q.head \in Slots
    BY <1>1 DEF Slots
  <2> QED
    BY <1>1, <2>1, <2>2, SlotOf
<1>4. p.tail = IF q.tail + 1 < N THEN q.tail + 1 ELSE 0
  BY <1>1, <1>2, NextSlot
<1>5. p.tail \in 0 .. N - 1
  BY <1>1, <1>4
<1>6. p \in WorkQueueOf(S)
  <2>1. p.items \in [Slots -> S]
    BY <1>1, <1>2 DEF Slots
  <2>2. (q.tail + 1) % N \in Slots /\ q.count + 1 \in 0 .. N
    BY <1>1, <1>2, <1>5 DEF Slots
  <2>3. [q.items EXCEPT ![q.tail] = x] \in [Slots -> S]
    BY <1>2, <2>1
  <2> QED
    BY <2>2, <2>3 DEF queue_push, WorkQueueOf
<1>7. EndsAgree(p)
  <2>1. p.tail = (((q.head + q.count) % N) + 1) % N
    BY <1>2 DEF EndsAgree
  <2>2. (((q.head + q.count) % N) + 1) % N = (q.head + (q.count + 1)) % N
    BY <1>1, StepAround
  <2> QED
    BY <1>2, <2>1, <2>2 DEF EndsAgree
<1>8. Contents(p) = Append(Contents(q), x)
  <2>1. ASSUME NEW i \in 1 .. q.count
        PROVE  p.items[(p.head + i - 1) % N] = q.items[(q.head + i - 1) % N]
    <3>1. (q.head + i - 1) % N # q.tail
      <4>1. i \in 1 .. N + 1 /\ q.head \in Slots
        BY <1>1 DEF Slots
      <4>2. /\ q.head + i - 1 < N => (q.head + i - 1) % N = q.head + i - 1
            /\ q.head + i - 1 >= N => (q.head + i - 1) % N = q.head + i - 1 - N
        BY <4>1, SlotOf
      <4> QED
        BY <1>1, <1>3, <4>2
    <3> QED
      BY <1>1, <1>2, <3>1
  <2>2. p.items[(p.head + (q.count + 1) - 1) % N] = x
    BY <1>1, <1>2, <1>3 DEF Slots
  <2>3. Contents(p) = [i \in 1 .. q.count + 1 |-> p.items[(p.head + i - 1) % N]]
    BY <1>2 DEF Contents
  <2>4. ASSUME NEW i \in 1 .. q.count + 1
        PROVE  Contents(p)[i] = IF i = q.count + 1 THEN x ELSE Contents(q)[i]
    <3>1. CASE i = q.count + 1
      BY <2>2, <2>3, <3>1
    <3>2. CASE i \in 1 .. q.count
      <4>1. i # q.count + 1
        BY <1>1, <3>2
      <4>2. Contents(p)[i] = p.items[(p.head + i - 1) % N]
        BY <2>3
      <4>3. Contents(q)[i] = q.items[(q.head + i - 1) % N]
        BY <3>2 DEF Contents
      <4> QED
        BY <2>1, <3>2, <4>1, <4>2, <4>3
    <3> QED
      BY <1>1, <3>1, <3>2
  <2> DEFINE c == Contents(q)
             d == Contents(p)
  <2>5. c \in Seq(S) /\ Len(c) = q.count /\ d \in Seq(S) /\ Len(d) = q.count + 1
    BY <1>2, <1>6, ContentsType
  <2>6. \A i \in 1 .. q.count + 1 : d[i] = IF i = q.count + 1 THEN x ELSE c[i]
    BY <2>4
  <2> HIDE DEF c, d
  <2>7. \A i \in 1 .. Len(d) : d[i] = Append(c, x)[i]
    BY <1>1, <2>5, <2>6
  <2>8. Append(c, x) \in Seq(S) /\ Len(Append(c, x)) = Len(d)
    BY <2>5
  <2>9. d = Append(c, x)
    BY <2>5, <2>7, <2>8, SeqEqual
  <2> QED
    BY <2>9 DEF c, d
<1> QED
  BY <1>2, <1>6, <1>7, <1>8

\* queue_pop on a buffer that is not empty: the oldest item is returned and
\* leaves, every other item moves up one place.
THEOREM PopTakesOldest ==
  ASSUME NEW S, NEW q \in WorkQueueOf(S),
         EndsAgree(q), ~queue_is_empty(q)
  PROVE  /\ queue_pop(q) \in WorkQueueOf(S)
         /\ EndsAgree(queue_pop(q))
         /\ queue_pop(q).count = q.count - 1
         /\ queue_front(q) = Head(Contents(q))
         /\ Contents(queue_pop(q)) = Tail(Contents(q))
<1> DEFINE p == queue_pop(q)
           N == QUEUE_CAPACITY
<1>1. /\ N \in Nat \ {0}
      /\ q.head \in 0 .. N - 1 /\ q.tail \in 0 .. N - 1
      /\ q.count \in 1 .. N
      /\ q.items \in [Slots -> S]
  BY CapacityAssumption DEF WorkQueueOf, queue_is_empty, Slots
<1>2. /\ p.head = (q.head + 1) % N
      /\ p.tail = q.tail
      /\ p.count = q.count - 1
      /\ p.items = q.items
  BY DEF queue_pop, WorkQueueOf
<1>3. p.head = IF q.head + 1 < N THEN q.head + 1 ELSE 0
  BY <1>1, <1>2, NextSlot
<1>4. p.head \in 0 .. N - 1
  BY <1>1, <1>3
<1>5. p \in WorkQueueOf(S)
  <2>1. (q.head + 1) % N \in Slots /\ q.count - 1 \in 0 .. N
    BY <1>1, <1>2, <1>4 DEF Slots
  <2> QED
    BY <2>1 DEF queue_pop, WorkQueueOf
<1>6. ASSUME NEW i \in 0 .. N - 1
      PROVE  (p.head + i) % N = (q.head + (i + 1)) % N
  BY <1>1, <1>2, StepAround
<1>7. EndsAgree(p)
  <2>1. p.count \in 0 .. N - 1 /\ p.count + 1 = q.count
    BY <1>1, <1>2
  <2>2. (p.head + p.count) % N = (q.head + q.count) % N
    BY <1>6, <2>1
  <2> QED
    BY <1>2, <2>2 DEF EndsAgree
<1>8. queue_front(q) = Head(Contents(q))
  <2>1. q.head + 1 - 1 = q.head /\ q.head \in 0 .. 2 * N - 1
    BY <1>1
  <2>2. (q.head + 1 - 1) % N = q.head % N
    BY <2>1
  <2>3. q.head % N = q.head
    BY <1>1, <2>1, Wrap
  <2>4. Contents(q)[1] = q.items[q.head]
    <3>1. 1 \in 1 .. q.count
      BY <1>1
    <3> QED
      BY <2>2, <2>3, <3>1 DEF Contents
  <2> QED
    BY <2>4 DEF queue_front
<1>9. Contents(p) = Tail(Contents(q))
  <2>1. ASSUME NEW i \in 1 .. q.count - 1
        PROVE  p.items[(p.head + i - 1) % N] = Contents(q)[i + 1]
    <3>1. i - 1 \in 0 .. N - 1 /\ i + 1 \in 1 .. q.count
      BY <1>1
    <3>2. (p.head + (i - 1)) % N = (q.head + ((i - 1) + 1)) % N
      BY <1>6, <3>1
    <3>3. p.head + (i - 1) = p.head + i - 1 /\ q.head + ((i - 1) + 1) = q.head + (i + 1) - 1
      BY <1>1, <1>4
    <3>4. Contents(q)[i + 1] = q.items[(q.head + (i + 1) - 1) % N]
      BY <3>1 DEF Contents
    <3> QED
      BY <1>2, <3>2, <3>3, <3>4
  <2> DEFINE c == Contents(q)
             d == Contents(p)
  <2>2. /\ c \in Seq(S) /\ Len(c) = q.count /\ c # << >>
        /\ d \in Seq(S) /\ Len(d) = q.count - 1
    BY <1>1, <1>2, <1>5, ContentsType
  <2>3. \A i \in 1 .. q.count - 1 : d[i] = c[i + 1]
    BY <1>2, <2>1 DEF Contents
  <2> HIDE DEF c, d
  <2>4. \A i \in 1 .. Len(d) : d[i] = Tail(c)[i]
    BY <1>1, <2>2, <2>3
  <2>5. Tail(c) \in Seq(S) /\ Len(Tail(c)) = Len(d)
    BY <1>1, <2>2, HeadTailProperties
  <2>6. d = Tail(c)
    BY <2>2, <2>4, <2>5, SeqEqual
  <2> QED
    BY <2>6 DEF c, d
<1> QED
  BY <1>2, <1>5, <1>7, <1>8, <1>9
=============================================================================
