-------------------------- MODULE ThreadPoolProofs --------------------------
(***************************************************************************)
(* Safety of the thread pool for every number of workers, every queue      *)
(* capacity and any number of submits, and that it implements PoolService. *)
(***************************************************************************)
EXTENDS ThreadPool, WorkQueueProofs, FiniteSetTheorems

-----------------------------------------------------------------------------
(* The inductive invariant.                                                *)

\* How far main has come tells what the flags and the workers can be.
Control ==
  /\ shutdown <=> pc[Main] \in {"join", "done"}
  /\ rejected = {}
  /\ pc[Main] \in SubmitLabels => submitted > 0
  /\ \A w \in Workers : pc[w] = "unborn" <=> w > active_workers
  /\ pc[Main] # "init" => active_workers = THREAD_POOL_SIZE
  /\ \A w \in Workers : w <= joined => pc[w] = "exited"
  /\ pc[Main] = "done" => joined = THREAD_POOL_SIZE
  /\ \A w \in Workers : pc[w] = "exited" => shutdown /\ queue.count = 0

\* Who sleeps, and why.
Sleepers ==
  /\ \A w \in not_empty : pc[w] = "wait"
  /\ not_full # {} => pc[Main] = "submit_wait"
  /\ SleepsOnlyWhenFull
  /\ shutdown => not_empty = {}

\* The ring holds the connections Taken + 1, ..., Pushed.
Ring ==
  /\ EndsAgree(queue)
  /\ queue.count <= Pushed
  /\ \A i \in 1 .. queue.count : Contents(queue)[i] = Taken + i

\* The connections 1, ..., Taken have a worker or have been served.
Serving ==
  /\ served \subseteq 1 .. Taken
  /\ \A w \in Workers : Handling(w) => item[w] \in 1 .. Taken /\ item[w] \notin served
  /\ \A v, w \in Workers : Handling(v) /\ Handling(w) /\ item[v] = item[w] => v = w
  /\ \A c \in 1 .. Taken : c \in served \/ \E w \in Workers : Handling(w) /\ item[w] = c

IndInv == TypeOK /\ MutualExclusion /\ Control /\ Sleepers /\ Ring /\ Serving

-----------------------------------------------------------------------------
(* Facts about the constants.                                              *)

\* main is not a worker, and nobody is NoOwner.
LEMMA ThreadFacts ==
  /\ Main \in Threads /\ Main \notin Workers
  /\ Workers \subseteq Threads
  /\ NoOwner \notin Threads
  /\ \A t \in Threads : t # Main => t \in Workers
  BY PoolAssumption DEF Main, Workers, Threads, NoOwner

\* The zeroed queue is a queue.
LEMMA EmptyQueueFacts ==
  /\ EmptyQueue(NoItem) \in WorkQueueOf(Items)
  /\ EndsAgree(EmptyQueue(NoItem))
  /\ EmptyQueue(NoItem).count = 0
<1>1. 0 \in Slots /\ 0 \in 0 .. QUEUE_CAPACITY /\ NoItem \in Items
  BY CapacityAssumption DEF Slots, Items
<1>2. [j \in Slots |-> NoItem] \in [Slots -> Items]
  BY <1>1
<1>3. (0 + 0) % QUEUE_CAPACITY = 0
  BY CapacityAssumption, Wrap
<1> QED
  BY <1>1, <1>2, <1>3 DEF EmptyQueue, WorkQueueOf, EndsAgree

-----------------------------------------------------------------------------
(* Type correctness.                                                       *)

\* Wakeups only take threads out of the waiting sets.
LEMMA WakeTypes ==
  /\ TypeOK /\ SignalNotEmpty => not_empty' \subseteq not_empty
  /\ TypeOK /\ SignalNotFull => not_full' \subseteq {Main}
  BY DEF TypeOK, SignalNotEmpty, SignalNotFull

\* The pool starts well typed.
LEMMA TypeInit == Init => TypeOK
<1> SUFFICES ASSUME Init PROVE TypeOK
  OBVIOUS
<1> USE DEF Init
<1>1. queue \in WorkQueueOf(Items)
  BY EmptyQueueFacts
<1>2. pc \in [Threads -> MainLabels \cup WorkerLabels] /\ pc[Main] \in MainLabels
  BY ThreadFacts DEF MainLabels, WorkerLabels
<1>3. \A w \in Workers : pc[w] \in WorkerLabels
  BY ThreadFacts DEF WorkerLabels
<1>4. item \in [Workers -> Items]
  BY DEF Items
<1>5. /\ active_workers \in 0 .. THREAD_POOL_SIZE
      /\ submitted \in 0 .. MaxSubmits
      /\ joined \in 0 .. THREAD_POOL_SIZE
  BY PoolAssumption
<1>6. /\ shutdown \in BOOLEAN
      /\ mutex \in Threads \cup {NoOwner}
      /\ not_empty \subseteq Workers /\ not_full \subseteq {Main}
      /\ served \subseteq Connections /\ rejected \subseteq Connections
  OBVIOUS
<1> QED
  BY <1>1, <1>2, <1>3, <1>4, <1>5, <1>6 DEF TypeOK

\* A thread moves to a label of its own kind.
LEMMA GotoTypes ==
  ASSUME pc \in [Threads -> MainLabels \cup WorkerLabels],
         pc[Main] \in MainLabels,
         \A w \in Workers : pc[w] \in WorkerLabels,
         NEW t \in Threads, NEW label,
         t = Main => label \in MainLabels,
         t # Main => label \in WorkerLabels,
         Goto(t, label)
  PROVE  /\ pc' \in [Threads -> MainLabels \cup WorkerLabels]
         /\ pc'[Main] \in MainLabels
         /\ \A w \in Workers : pc'[w] \in WorkerLabels
         /\ pc'[t] = label
         /\ \A u \in Threads : u # t => pc'[u] = pc[u]
  BY ThreadFacts DEF Goto

\* The counts of connections are what their names say.
LEMMA CountFacts ==
  ASSUME IndInv
  PROVE  /\ Pushed \in 0 .. MaxSubmits
         /\ queue.count \in 0 .. QUEUE_CAPACITY
         /\ Taken \in 0 .. Pushed
<1>1. Pushed \in 0 .. MaxSubmits
  BY PoolAssumption DEF IndInv, TypeOK, Control, Pushed
<1>2. queue.count \in 0 .. QUEUE_CAPACITY /\ queue.count <= Pushed
  BY DEF IndInv, TypeOK, Ring, WorkQueueOf
<1>3. Taken \in 0 .. Pushed
  BY <1>1, <1>2, PoolAssumption, CapacityAssumption DEF Taken
<1> QED
  BY <1>1, <1>2, <1>3

\* Every step of the pool keeps the types.
LEMMA TypeStep == IndInv /\ [Next]_vars => TypeOK'
<1> SUFFICES ASSUME IndInv, [Next]_vars PROVE TypeOK'
  OBVIOUS
<1> TypeOK /\ EndsAgree(queue)
  BY DEF IndInv, Ring
<1> USE ThreadFacts
<1>t. /\ pc \in [Threads -> MainLabels \cup WorkerLabels]
      /\ pc[Main] \in MainLabels
      /\ \A w \in Workers : pc[w] \in WorkerLabels
  BY DEF TypeOK
<1>1. CASE CreateWorker
  <2>1. active_workers + 1 \in Workers /\ active_workers + 1 \in 0 .. THREAD_POOL_SIZE
    BY <1>1, PoolAssumption DEF CreateWorker, TypeOK, Workers
  <2>2. "lock" \in WorkerLabels
    BY DEF WorkerLabels
  <2>3. Goto(active_workers + 1, "lock")
    BY <1>1 DEF CreateWorker
  <2>4. /\ pc' \in [Threads -> MainLabels \cup WorkerLabels]
        /\ pc'[Main] \in MainLabels
        /\ \A w \in Workers : pc'[w] \in WorkerLabels
    BY <1>t, <2>1, <2>2, <2>3, GotoTypes
  <2> QED
    BY <1>1, <2>1, <2>4 DEF CreateWorker, TypeOK
<1>2. CASE InitReturn
  BY <1>2, <1>t, GotoTypes DEF InitReturn, TypeOK, poolVars, MainLabels
<1>3. CASE SubmitCall
  <2>1. submitted' \in 0 .. MaxSubmits
    BY <1>3, PoolAssumption DEF SubmitCall, TypeOK
  <2> QED
    BY <1>3, <1>t, <2>1, GotoTypes DEF SubmitCall, TypeOK, poolVars, MainLabels, SubmitLabels
<1>4. CASE SubmitAcquire
  BY <1>4, <1>t, GotoTypes DEF SubmitAcquire, Lock, TypeOK, MainLabels, SubmitLabels
<1>5. CASE SubmitWait
  BY <1>5, <1>t, GotoTypes DEF SubmitWait, Unlock, TypeOK, MainLabels, SubmitLabels
<1>6. CASE SubmitFinish
  <2>1. submitted \in Items \/ submitted = 0
    BY DEF TypeOK, Items, Connections
  <2>2. submitted \in Items
    BY <2>1 DEF Items, NoItem
  <2>3. queue' \in WorkQueueOf(Items)
    <3>1. CASE shutdown
      BY <1>6, <3>1 DEF SubmitFinish, TypeOK
    <3>2. CASE ~shutdown
      <4>1. queue' = queue_push(queue, submitted) /\ ~queue_is_full(queue)
        BY <1>6, <3>2 DEF SubmitFinish, SubmitBlocked
      <4> QED
        BY <2>2, <4>1, PushAppends DEF TypeOK
    <3> QED
      BY <3>1, <3>2
  <2>4. not_empty' \subseteq Workers
    BY <1>6, WakeTypes DEF SubmitFinish, TypeOK
  <2>5. rejected' \subseteq Connections
    <3>1. ~shutdown
      BY <1>6 DEF IndInv, Control, SubmitFinish
    <3> QED
      BY <1>6, <3>1 DEF SubmitFinish, TypeOK
  <2> QED
    BY <1>6, <1>t, <2>3, <2>4, <2>5, GotoTypes DEF SubmitFinish, Unlock, TypeOK, MainLabels
<1>7. CASE DestroyCall
  BY <1>7, <1>t, GotoTypes DEF DestroyCall, TypeOK, poolVars, MainLabels
<1>8. CASE DestroyRead
  BY <1>8, <1>t, GotoTypes DEF DestroyRead, TypeOK, poolVars, MainLabels
<1>9. CASE DestroyAcquire
  BY <1>9, <1>t, GotoTypes DEF DestroyAcquire, Lock, TypeOK, MainLabels
<1>10. CASE DestroySet
  BY <1>10, <1>t, GotoTypes DEF DestroySet, Unlock, BroadcastNotEmpty, TypeOK, MainLabels
<1>11. CASE Join
  BY <1>11, PoolAssumption DEF Join, TypeOK, poolVars
<1>12. CASE DestroyReturn
  BY <1>12, <1>t, GotoTypes DEF DestroyReturn, TypeOK, poolVars, MainLabels
<1>13. ASSUME NEW w \in Workers, WorkerNext(w) PROVE TypeOK'
  <2> w \in Threads /\ w # Main
    BY <1>13
  <2>1. CASE WorkerAcquire(w)
    BY <2>1, <1>t, GotoTypes DEF WorkerAcquire, Lock, TypeOK, WorkerLabels
  <2>2. CASE WorkerWait(w)
    BY <2>2, <1>t, GotoTypes DEF WorkerWait, Unlock, TypeOK, WorkerLabels
  <2>3. CASE WorkerExit(w)
    BY <2>3, <1>t, GotoTypes DEF WorkerExit, Unlock, TypeOK, WorkerLabels
  <2>4. CASE WorkerTake(w)
    <3>1. queue' \in WorkQueueOf(Items)
      BY <2>4, PopTakesOldest DEF WorkerTake, TypeOK
    <3>2. queue_front(queue) \in Items
      BY DEF TypeOK, WorkQueueOf, queue_front
    <3>3. item' \in [Workers -> Items]
      BY <2>4, <3>2 DEF WorkerTake, TypeOK
    <3> QED
      BY <2>4, <1>t, <3>1, <3>3, GotoTypes
      DEF WorkerTake, SignalNotFull, Unlock, TypeOK, WorkerLabels
  <2>5. CASE HandleClient(w)
    <3>1. item[w] \in 1 .. Taken
      BY <2>5 DEF HandleClient, IndInv, Serving, Handling
    <3>2. item[w] \in Connections
      BY <3>1, CountFacts, PoolAssumption DEF Connections
    <3>3. served' \subseteq Connections
      BY <2>5, <3>2 DEF HandleClient, TypeOK
    <3> QED
      BY <2>5, <1>t, <3>3, GotoTypes DEF HandleClient, TypeOK, poolVars, WorkerLabels
  <2>6. CASE WorkerLoop(w)
    <3>1. item' \in [Workers -> Items]
      BY <2>6 DEF WorkerLoop, TypeOK, Items
    <3> QED
      BY <2>6, <1>t, <3>1, GotoTypes DEF WorkerLoop, TypeOK, poolVars, WorkerLabels
  <2> QED
    BY <1>13, <2>1, <2>2, <2>3, <2>4, <2>5, <2>6 DEF WorkerNext
<1>14. CASE SpuriousWakeup
  BY <1>14 DEF SpuriousWakeup, TypeOK
<1>15. CASE Terminated
  BY <1>15 DEF Terminated, vars, TypeOK
<1>16. CASE UNCHANGED vars
  BY <1>16 DEF vars, TypeOK
<1> QED
  BY <1>1, <1>2, <1>3, <1>4, <1>5, <1>6, <1>7, <1>8, <1>9, <1>10, <1>11, <1>12,
     <1>13, <1>14, <1>15, <1>16 DEF Next, MainNext

-----------------------------------------------------------------------------
(* Mutual exclusion: what locking, unlocking and moving outside do to it.  *)

\* A thread that takes the free mutex is alone in the critical section.
LEMMA MutexAcquire ==
  ASSUME TypeOK, MutualExclusion, NEW t \in Threads, NEW label, Lock(t), Goto(t, label),
         label \in {"check", "submit_check", "destroy_set"}
  PROVE  MutualExclusion'
  BY ThreadFacts DEF TypeOK, MutualExclusion, InCriticalSection, Lock, Goto

\* A thread that gives the mutex back leaves the critical section to nobody else.
LEMMA MutexRelease ==
  ASSUME TypeOK, MutualExclusion, NEW t \in Threads, NEW label, Unlock(t), Goto(t, label),
         label \notin {"check", "submit_check", "destroy_set"}
  PROVE  MutualExclusion'
  BY ThreadFacts DEF TypeOK, MutualExclusion, InCriticalSection, Unlock, Goto

\* A step between places outside the critical section does not disturb it.
LEMMA MutexOutside ==
  ASSUME TypeOK, MutualExclusion, NEW t \in Threads, NEW label, mutex' = mutex, Goto(t, label),
         ~InCriticalSection(t),
         label \notin {"check", "submit_check", "destroy_set"}
  PROVE  MutualExclusion'
  BY ThreadFacts DEF TypeOK, MutualExclusion, InCriticalSection, Goto

\* Every step of the pool keeps the mutex exclusive.
LEMMA MutexStep == IndInv /\ [Next]_vars => MutualExclusion'
<1> SUFFICES ASSUME IndInv, [Next]_vars PROVE MutualExclusion'
  OBVIOUS
<1> TypeOK /\ MutualExclusion
  BY DEF IndInv
<1> USE ThreadFacts
<1>1. CASE CreateWorker
  <2>1. active_workers + 1 \in Workers
    BY <1>1, PoolAssumption DEF CreateWorker, TypeOK, Workers
  <2>2. pc[active_workers + 1] = "unborn"
    BY <2>1 DEF IndInv, Control, TypeOK
  <2> QED
    BY <1>1, <2>1, <2>2, MutexOutside DEF CreateWorker, InCriticalSection
<1>2. CASE InitReturn
  BY <1>2, MutexOutside DEF InitReturn, poolVars, InCriticalSection
<1>3. CASE SubmitCall
  BY <1>3, MutexOutside DEF SubmitCall, poolVars, InCriticalSection
<1>4. CASE SubmitAcquire
  BY <1>4, MutexAcquire DEF SubmitAcquire
<1>5. CASE SubmitWait
  BY <1>5, MutexRelease DEF SubmitWait
<1>6. CASE SubmitFinish
  BY <1>6, MutexRelease DEF SubmitFinish
<1>7. CASE DestroyCall
  BY <1>7, MutexOutside DEF DestroyCall, poolVars, InCriticalSection
<1>8. CASE DestroyRead
  BY <1>8, MutexOutside DEF DestroyRead, poolVars, InCriticalSection
<1>9. CASE DestroyAcquire
  BY <1>9, MutexAcquire DEF DestroyAcquire
<1>10. CASE DestroySet
  BY <1>10, MutexRelease DEF DestroySet
<1>11. CASE Join
  BY <1>11 DEF Join, poolVars, MutualExclusion, InCriticalSection
<1>12. CASE DestroyReturn
  BY <1>12, MutexOutside DEF DestroyReturn, poolVars, InCriticalSection
<1>13. ASSUME NEW w \in Workers, WorkerNext(w) PROVE MutualExclusion'
  <2>1. CASE WorkerAcquire(w)
    BY <2>1, MutexAcquire DEF WorkerAcquire
  <2>2. CASE WorkerWait(w)
    BY <2>2, MutexRelease DEF WorkerWait
  <2>3. CASE WorkerExit(w)
    BY <2>3, MutexRelease DEF WorkerExit
  <2>4. CASE WorkerTake(w)
    BY <2>4, MutexRelease DEF WorkerTake
  <2>5. CASE HandleClient(w)
    BY <2>5, MutexOutside DEF HandleClient, poolVars, InCriticalSection
  <2>6. CASE WorkerLoop(w)
    BY <2>6, MutexOutside DEF WorkerLoop, poolVars, InCriticalSection
  <2> QED
    BY <1>13, <2>1, <2>2, <2>3, <2>4, <2>5, <2>6 DEF WorkerNext
<1>14. CASE SpuriousWakeup
  BY <1>14 DEF SpuriousWakeup, MutualExclusion, InCriticalSection
<1>15. CASE UNCHANGED vars
  BY <1>15 DEF vars, MutualExclusion, InCriticalSection
<1> QED
  BY <1>1, <1>2, <1>3, <1>4, <1>5, <1>6, <1>7, <1>8, <1>9, <1>10, <1>11, <1>12,
     <1>13, <1>14, <1>15 DEF Next, MainNext, Terminated

-----------------------------------------------------------------------------
(* What each step does to the threads, the flags and the waiting sets.     *)

\* Every step keeps each thread's place in the code consistent with its locals.
LEMMA ControlStep == IndInv /\ [Next]_vars => Control'
<1> SUFFICES ASSUME IndInv, [Next]_vars PROVE Control'
  OBVIOUS
<1> TypeOK /\ Control
  BY DEF IndInv
<1> USE ThreadFacts
<1>1. CASE CreateWorker
  <2>1. active_workers + 1 \in Workers
    BY <1>1, PoolAssumption DEF CreateWorker, TypeOK, Workers
  <2>2. pc[active_workers + 1] = "unborn"
    BY <2>1 DEF Control, TypeOK
  <2>3. pc' = [pc EXCEPT ![active_workers + 1] = "lock"]
    BY <1>1 DEF CreateWorker, Goto
  <2>4. \A w \in Workers : pc'[w] = "unborn" <=> w > active_workers'
    BY <1>1, <2>1, <2>2, <2>3 DEF Control, TypeOK, CreateWorker, Workers
  <2> QED
    BY <1>1, <2>1, <2>2, <2>3, <2>4 DEF Control, TypeOK, CreateWorker, SubmitLabels
<1>2. CASE InitReturn
  BY <1>2 DEF InitReturn, poolVars, Goto, TypeOK, Control, SubmitLabels
<1>3. CASE SubmitCall
  BY <1>3 DEF SubmitCall, poolVars, Goto, TypeOK, Control, SubmitLabels
<1>4. CASE SubmitAcquire
  BY <1>4 DEF SubmitAcquire, Goto, TypeOK, Control, SubmitLabels
<1>5. CASE SubmitWait
  BY <1>5 DEF SubmitWait, Goto, TypeOK, Control, SubmitLabels
<1>6. CASE SubmitFinish
  <2>1. ~shutdown
    BY <1>6 DEF SubmitFinish, Control
  <2> QED
    BY <1>6, <2>1 DEF SubmitFinish, Goto, TypeOK, Control, SubmitLabels
<1>7. CASE DestroyCall
  BY <1>7 DEF DestroyCall, poolVars, Goto, TypeOK, Control, SubmitLabels
<1>8. CASE DestroyRead
  BY <1>8 DEF DestroyRead, poolVars, Goto, TypeOK, Control, SubmitLabels
<1>9. CASE DestroyAcquire
  BY <1>9 DEF DestroyAcquire, Goto, TypeOK, Control, SubmitLabels
<1>10. CASE DestroySet
  BY <1>10 DEF DestroySet, Goto, TypeOK, Control, SubmitLabels
<1>11. CASE Join
  <2>1. \A w \in Workers : w <= joined' => pc[w] = "exited"
    BY <1>11 DEF Join, TypeOK, Control, Workers
  <2> QED
    BY <1>11, <2>1 DEF Join, poolVars, TypeOK, Control, SubmitLabels
<1>12. CASE DestroyReturn
  BY <1>12 DEF DestroyReturn, poolVars, Goto, TypeOK, Control, SubmitLabels
<1>13. ASSUME NEW w \in Workers, WorkerNext(w) PROVE Control'
  <2>1. CASE WorkerAcquire(w)
    BY <2>1 DEF WorkerAcquire, Goto, TypeOK, Control, SubmitLabels
  <2>2. CASE WorkerWait(w)
    BY <2>2 DEF WorkerWait, Goto, TypeOK, Control, SubmitLabels
  <2>3. CASE WorkerExit(w)
    BY <2>3 DEF WorkerExit, WorkerMayExit, queue_is_empty, Goto, TypeOK, Control, SubmitLabels
  <2>4. CASE WorkerTake(w)
    <3>1. \A v \in Workers : pc[v] # "exited"
      BY <2>4 DEF WorkerTake, queue_is_empty, Control
    <3> QED
      BY <2>4, <3>1 DEF WorkerTake, Goto, TypeOK, Control, SubmitLabels
  <2>5. CASE HandleClient(w)
    BY <2>5 DEF HandleClient, poolVars, Goto, TypeOK, Control, SubmitLabels
  <2>6. CASE WorkerLoop(w)
    BY <2>6 DEF WorkerLoop, poolVars, Goto, TypeOK, Control, SubmitLabels
  <2> QED
    BY <1>13, <2>1, <2>2, <2>3, <2>4, <2>5, <2>6 DEF WorkerNext
<1>14. CASE SpuriousWakeup
  BY <1>14 DEF SpuriousWakeup, Control
<1>15. CASE UNCHANGED vars
  BY <1>15 DEF vars, Control
<1> QED
  BY <1>1, <1>2, <1>3, <1>4, <1>5, <1>6, <1>7, <1>8, <1>9, <1>10, <1>11, <1>12,
     <1>13, <1>14, <1>15 DEF Next, MainNext, Terminated

\* Every step keeps the waiting sets made of threads asleep in their wait.
LEMMA SleepersStep == IndInv /\ [Next]_vars => Sleepers'
<1> SUFFICES ASSUME IndInv, [Next]_vars PROVE Sleepers'
  OBVIOUS
<1> TypeOK /\ Control /\ Sleepers
  BY DEF IndInv
<1> USE ThreadFacts DEF Sleepers, SleepsOnlyWhenFull
<1>1. CASE CreateWorker
  <2>1. active_workers + 1 \in Workers
    BY <1>1, PoolAssumption DEF CreateWorker, TypeOK, Workers
  <2>2. pc[active_workers + 1] = "unborn"
    BY <2>1 DEF Control, TypeOK
  <2> QED
    BY <1>1, <2>1, <2>2 DEF CreateWorker, Goto, TypeOK
<1>2. CASE InitReturn
  BY <1>2 DEF InitReturn, poolVars, Goto, TypeOK
<1>3. CASE SubmitCall
  BY <1>3 DEF SubmitCall, poolVars, Goto, TypeOK
<1>4. CASE SubmitAcquire
  BY <1>4 DEF SubmitAcquire, Goto, TypeOK
<1>5. CASE SubmitWait
  BY <1>5 DEF SubmitWait, SubmitBlocked, Goto, TypeOK
<1>6. CASE SubmitFinish
  <2>1. ~shutdown /\ not_full = {}
    BY <1>6 DEF SubmitFinish, Control
  <2>2. not_empty' \subseteq not_empty
    BY <1>6, <2>1, WakeTypes DEF SubmitFinish
  <2> QED
    BY <1>6, <2>1, <2>2 DEF SubmitFinish, Goto, TypeOK
<1>7. CASE DestroyCall
  BY <1>7 DEF DestroyCall, poolVars, Goto, TypeOK
<1>8. CASE DestroyRead
  BY <1>8 DEF DestroyRead, poolVars, Goto, TypeOK
<1>9. CASE DestroyAcquire
  BY <1>9 DEF DestroyAcquire, Goto, TypeOK
<1>10. CASE DestroySet
  BY <1>10 DEF DestroySet, BroadcastNotEmpty, Goto, TypeOK
<1>11. CASE Join
  BY <1>11 DEF Join, poolVars
<1>12. CASE DestroyReturn
  BY <1>12 DEF DestroyReturn, poolVars, Goto, TypeOK
<1>13. ASSUME NEW w \in Workers, WorkerNext(w) PROVE Sleepers'
  <2>1. CASE WorkerAcquire(w)
    BY <2>1 DEF WorkerAcquire, Goto, TypeOK
  <2>2. CASE WorkerWait(w)
    BY <2>2 DEF WorkerWait, Goto, TypeOK
  <2>3. CASE WorkerExit(w)
    BY <2>3 DEF WorkerExit, Goto, TypeOK
  <2>4. CASE WorkerTake(w)
    BY <2>4 DEF WorkerTake, SignalNotFull, Goto, TypeOK
  <2>5. CASE HandleClient(w)
    BY <2>5 DEF HandleClient, poolVars, Goto, TypeOK
  <2>6. CASE WorkerLoop(w)
    BY <2>6 DEF WorkerLoop, poolVars, Goto, TypeOK
  <2> QED
    BY <1>13, <2>1, <2>2, <2>3, <2>4, <2>5, <2>6 DEF WorkerNext
<1>14. CASE SpuriousWakeup
  BY <1>14 DEF SpuriousWakeup
<1>15. CASE UNCHANGED vars
  BY <1>15 DEF vars
<1> QED
  BY <1>1, <1>2, <1>3, <1>4, <1>5, <1>6, <1>7, <1>8, <1>9, <1>10, <1>11, <1>12,
     <1>13, <1>14, <1>15 DEF Next, MainNext, Terminated

-----------------------------------------------------------------------------
(* The queue and the connections.  Three steps matter: a submit that pushes, *)
(* a worker that takes, a handler that returns.  All others change neither  *)
(* the counts nor who handles what.                                        *)

Quiet ==
  /\ queue' = queue /\ served' = served /\ item' = item
  /\ Pushed' = Pushed
  /\ \A w \in Workers : Handling(w)' <=> Handling(w)

\* Only a push, a pop, a request served and a closed descriptor touch the ring and
\* the records of what was accepted and served.
LEMMA QuietSteps ==
  ASSUME IndInv, [Next]_vars, ~SubmitFinish,
         \A w \in Workers : ~(WorkerTake(w) \/ HandleClient(w) \/ WorkerLoop(w))
  PROVE  Quiet
<1> TypeOK /\ Control
  BY DEF IndInv
<1> USE ThreadFacts DEF Quiet, Handling, Pushed, SubmitLabels
<1>1. CASE CreateWorker
  <2>1. active_workers + 1 \in Workers
    BY <1>1, PoolAssumption DEF CreateWorker, TypeOK, Workers
  <2>2. pc[active_workers + 1] = "unborn"
    BY <2>1 DEF Control, TypeOK
  <2> QED
    BY <1>1, <2>1, <2>2 DEF CreateWorker, Goto, TypeOK
<1>2. CASE InitReturn
  BY <1>2 DEF InitReturn, poolVars, Goto, TypeOK
<1>3. CASE SubmitCall
  BY <1>3, PoolAssumption DEF SubmitCall, poolVars, Goto, TypeOK
<1>4. CASE SubmitAcquire
  BY <1>4 DEF SubmitAcquire, Goto, TypeOK
<1>5. CASE SubmitWait
  BY <1>5 DEF SubmitWait, Goto, TypeOK
<1>6. CASE DestroyCall
  BY <1>6 DEF DestroyCall, poolVars, Goto, TypeOK
<1>7. CASE DestroyRead
  BY <1>7 DEF DestroyRead, poolVars, Goto, TypeOK
<1>8. CASE DestroyAcquire
  BY <1>8 DEF DestroyAcquire, Goto, TypeOK
<1>9. CASE DestroySet
  BY <1>9 DEF DestroySet, Goto, TypeOK
<1>10. CASE Join
  BY <1>10 DEF Join, poolVars
<1>11. CASE DestroyReturn
  BY <1>11 DEF DestroyReturn, poolVars, Goto, TypeOK
<1>12. ASSUME NEW w \in Workers, WorkerNext(w) PROVE Quiet
  <2>1. CASE WorkerAcquire(w)
    BY <2>1 DEF WorkerAcquire, Goto, TypeOK
  <2>2. CASE WorkerWait(w)
    BY <2>2 DEF WorkerWait, Goto, TypeOK
  <2>3. CASE WorkerExit(w)
    BY <2>3 DEF WorkerExit, Goto, TypeOK
  <2> QED
    BY <1>12, <2>1, <2>2, <2>3 DEF WorkerNext
<1>13. CASE SpuriousWakeup
  BY <1>13 DEF SpuriousWakeup
<1>14. CASE UNCHANGED vars
  BY <1>14 DEF vars
<1> QED
  BY <1>1, <1>2, <1>3, <1>4, <1>5, <1>6, <1>7, <1>8, <1>9, <1>10, <1>11, <1>12,
     <1>13, <1>14 DEF Next, MainNext, Terminated

\* The three steps that matter, in terms of the queue and the counts.
LEMMA FinishEffect ==
  ASSUME IndInv, SubmitFinish
  PROVE  /\ queue' = queue_push(queue, Pushed + 1)
         /\ Pushed' = Pushed + 1
         /\ ~queue_is_full(queue)
         /\ Pushed + 1 \in Items
         /\ served' = served /\ item' = item
         /\ \A w \in Workers : Handling(w)' <=> Handling(w)
         /\ Taken' = Taken
<1> TypeOK /\ Control
  BY DEF IndInv
<1>1. ~shutdown /\ pc[Main] \in SubmitLabels /\ submitted = Pushed + 1
  BY PoolAssumption DEF SubmitFinish, Control, TypeOK, SubmitLabels, Pushed
<1>2. queue' = queue_push(queue, Pushed + 1) /\ ~queue_is_full(queue)
  BY <1>1 DEF SubmitFinish, SubmitBlocked
<1>3. pc' = [pc EXCEPT ![Main] = "idle"]
  BY DEF SubmitFinish, Goto
<1>4. Pushed' = Pushed + 1
  BY <1>1, <1>3, ThreadFacts DEF SubmitFinish, TypeOK, SubmitLabels, Pushed
<1>5. Pushed + 1 \in Items
  BY <1>1, CountFacts, PoolAssumption DEF TypeOK, Items, Connections
<1>6. \A w \in Workers : Handling(w)' <=> Handling(w)
  BY <1>3, ThreadFacts DEF Handling, TypeOK
<1>7. queue'.count = queue.count + 1
  BY <1>2, <1>5, PushAppends DEF IndInv, TypeOK, Ring
<1>8. Taken' = Taken
  BY <1>4, <1>7, CountFacts, PoolAssumption, CapacityAssumption DEF Taken
<1> QED
  BY <1>2, <1>4, <1>5, <1>6, <1>8 DEF SubmitFinish

\* What a worker does to the ring when it pops a descriptor.
LEMMA TakeEffect ==
  ASSUME IndInv, NEW w \in Workers, WorkerTake(w)
  PROVE  /\ queue' = queue_pop(queue) /\ ~queue_is_empty(queue)
         /\ queue'.count = queue.count - 1
         /\ Pushed' = Pushed
         /\ Taken' = Taken + 1
         /\ item' = [item EXCEPT ![w] = Taken + 1]
         /\ served' = served
         /\ ~Handling(w) /\ Handling(w)'
         /\ \A v \in Workers : v # w => (Handling(v)' <=> Handling(v))
<1> TypeOK /\ Ring
  BY DEF IndInv
<1>1. queue' = queue_pop(queue) /\ ~queue_is_empty(queue)
  BY DEF WorkerTake
<1>2. queue'.count = queue.count - 1 /\ queue_front(queue) = Head(Contents(queue))
  BY <1>1, PopTakesOldest DEF TypeOK, Ring
<1>3. queue.count \in 1 .. QUEUE_CAPACITY
  BY <1>1, CountFacts, CapacityAssumption DEF queue_is_empty
<1>4. Head(Contents(queue)) = Contents(queue)[1]
  BY DEF Contents
<1>5. Contents(queue)[1] = Taken + 1
  BY <1>3, CapacityAssumption DEF Ring
<1>6. item' = [item EXCEPT ![w] = Taken + 1]
  BY <1>2, <1>4, <1>5 DEF WorkerTake
<1>7. pc' = [pc EXCEPT ![w] = "handle"] /\ pc[w] = "check"
  BY DEF WorkerTake, Goto
<1>8. /\ ~Handling(w) /\ Handling(w)'
      /\ \A v \in Workers : v # w => (Handling(v)' <=> Handling(v))
  BY <1>7, ThreadFacts DEF Handling, TypeOK
<1>9. Pushed' = Pushed
  BY <1>7, ThreadFacts DEF WorkerTake, TypeOK, Pushed
<1>10. Taken' = Taken + 1
  BY <1>2, <1>9, CountFacts, PoolAssumption, CapacityAssumption DEF Taken
<1> QED
  BY <1>1, <1>2, <1>6, <1>8, <1>9, <1>10 DEF WorkerTake

\* A handler returning, or a worker going round its loop.
LEMMA HandledEffect ==
  ASSUME IndInv, NEW w \in Workers, HandleClient(w) \/ WorkerLoop(w)
  PROVE  /\ queue' = queue /\ Pushed' = Pushed /\ Taken' = Taken
         /\ \A v \in Workers : v # w => (Handling(v)' <=> Handling(v)) /\ item'[v] = item[v]
         /\ ~Handling(w)'
         /\ \/ Handling(w) /\ served' = served \cup {item[w]}
            \/ ~Handling(w) /\ served' = served
<1> TypeOK
  BY DEF IndInv
<1>1. queue' = queue
  BY DEF HandleClient, WorkerLoop, poolVars
<1>2. \/ pc' = [pc EXCEPT ![w] = "handled"]
      \/ pc' = [pc EXCEPT ![w] = "lock"]
  BY DEF HandleClient, WorkerLoop, Goto
<1>3. Pushed' = Pushed
  BY <1>2, ThreadFacts DEF HandleClient, WorkerLoop, TypeOK, Pushed
<1>4. Taken' = Taken
  BY <1>1, <1>3 DEF Taken
<1>5. /\ \A v \in Workers : v # w => (Handling(v)' <=> Handling(v)) /\ item'[v] = item[v]
      /\ ~Handling(w)'
  BY <1>2, ThreadFacts DEF HandleClient, WorkerLoop, TypeOK, Handling
<1>6. \/ Handling(w) /\ served' = served \cup {item[w]}
      \/ ~Handling(w) /\ served' = served
  BY DEF HandleClient, WorkerLoop, Handling
<1> QED
  BY <1>1, <1>3, <1>4, <1>5, <1>6

\* Every step keeps the ring consistent with what was pushed and popped.
LEMMA RingStep == IndInv /\ [Next]_vars => Ring'
<1> SUFFICES ASSUME IndInv, [Next]_vars PROVE Ring'
  OBVIOUS
<1> TypeOK /\ Ring
  BY DEF IndInv
<1>1. CASE SubmitFinish
  <2> DEFINE c == Contents(queue)
             x == Pushed + 1
  <2>1. /\ queue' = queue_push(queue, x) /\ Taken' = Taken /\ Pushed' = x
        /\ x \in Items /\ ~queue_is_full(queue)
    BY <1>1, FinishEffect
  <2>2. /\ EndsAgree(queue')
        /\ queue'.count = queue.count + 1
        /\ Contents(queue') = Append(c, x)
    BY <2>1, PushAppends DEF TypeOK, Ring
  <2>3. c \in Seq(Items) /\ Len(c) = queue.count
    BY ContentsType DEF TypeOK
  <2>4. queue.count \in Nat /\ Taken \in Nat /\ x = Taken + (queue.count + 1)
    BY CountFacts, PoolAssumption, CapacityAssumption DEF Taken
  <2>5. \A i \in 1 .. queue.count : c[i] = Taken + i
    BY DEF Ring
  <2> DEFINE d == Append(c, x)
  <2> HIDE DEF c, x
  <2>6. d[queue.count + 1] = Taken + (queue.count + 1) /\ \A i \in 1 .. queue.count : d[i] = c[i]
    BY <2>1, <2>3, <2>4
  <2> HIDE DEF d
  <2>7. \A i \in 1 .. queue.count + 1 : d[i] = Taken + i
    BY <2>4, <2>5, <2>6
  <2>8. queue'.count <= Pushed'
    BY <2>1, <2>2, <2>4
  <2> QED
    BY <2>1, <2>2, <2>7, <2>8 DEF Ring, EndsAgree, Contents, d
<1>2. ASSUME NEW w \in Workers, WorkerTake(w) PROVE Ring'
  <2> DEFINE c == Contents(queue)
  <2>1. /\ queue' = queue_pop(queue) /\ ~queue_is_empty(queue)
        /\ Taken' = Taken + 1 /\ Pushed' = Pushed
    BY <1>2, TakeEffect
  <2>2. /\ EndsAgree(queue')
        /\ queue'.count = queue.count - 1
        /\ Contents(queue') = Tail(c)
    BY <2>1, PopTakesOldest DEF TypeOK, Ring
  <2>3. c \in Seq(Items) /\ Len(c) = queue.count
    BY ContentsType DEF TypeOK
  <2>4. queue.count \in Nat \ {0} /\ Taken \in Nat /\ Pushed = Taken + queue.count
    BY <2>1, CountFacts, PoolAssumption, CapacityAssumption DEF Taken, queue_is_empty
  <2>5. \A i \in 1 .. queue.count : c[i] = Taken + i
    BY DEF Ring
  <2> HIDE DEF c
  <2>6. c # << >>
    BY <2>3, <2>4
  <2>7. \A i \in 1 .. queue.count - 1 : Tail(c)[i] = Taken + 1 + i
    BY <2>3, <2>4, <2>5, <2>6, HeadTailProperties
  <2>8. queue'.count <= Pushed'
    BY <2>1, <2>2, <2>4
  <2> QED
    BY <2>1, <2>2, <2>7, <2>8 DEF Ring, EndsAgree, Contents
<1>3. ASSUME NEW w \in Workers, HandleClient(w) \/ WorkerLoop(w) PROVE Ring'
  BY <1>3, HandledEffect DEF Ring, EndsAgree, Contents
<1>4. CASE Quiet
  BY <1>4 DEF Quiet, Ring, Taken, EndsAgree, Contents
<1> QED
  BY <1>1, <1>2, <1>3, <1>4, QuietSteps

\* Every step keeps each connection with one worker.
LEMMA ServingStep == IndInv /\ [Next]_vars => Serving'
<1> SUFFICES ASSUME IndInv, [Next]_vars PROVE Serving'
  OBVIOUS
<1> TypeOK /\ Serving
  BY DEF IndInv
<1>t. Taken \in Nat
  BY CountFacts, PoolAssumption
<1>1. CASE SubmitFinish
  BY <1>1, FinishEffect DEF Serving
<1>2. ASSUME NEW w \in Workers, WorkerTake(w) PROVE Serving'
  <2>1. /\ Taken' = Taken + 1 /\ served' = served
        /\ item' = [item EXCEPT ![w] = Taken + 1]
        /\ ~Handling(w) /\ Handling(w)'
        /\ \A v \in Workers : v # w => (Handling(v)' <=> Handling(v))
    BY <1>2, TakeEffect
  <2>2. /\ item'[w] = Taken + 1
        /\ \A v \in Workers : v # w => item'[v] = item[v]
    BY <2>1 DEF TypeOK
  <2>3. served' \subseteq 1 .. Taken'
    BY <1>t, <2>1 DEF Serving
  <2>4. \A v \in Workers : Handling(v)' => item'[v] \in 1 .. Taken' /\ item'[v] \notin served'
    BY <1>t, <2>1, <2>2 DEF Serving
  <2>5. \A u, v \in Workers : Handling(u)' /\ Handling(v)' /\ item'[u] = item'[v] => u = v
    BY <1>t, <2>1, <2>2 DEF Serving
  <2>6. \A c \in 1 .. Taken' : c \in served' \/ \E v \in Workers : Handling(v)' /\ item'[v] = c
    <3> SUFFICES ASSUME NEW c \in 1 .. Taken', c \notin served'
                 PROVE  \E v \in Workers : Handling(v)' /\ item'[v] = c
      OBVIOUS
    <3>1. CASE c = Taken + 1
      BY <2>1, <2>2, <3>1
    <3>2. CASE c \in 1 .. Taken
      <4>1. PICK v \in Workers : Handling(v) /\ item[v] = c
        BY <2>1, <3>2 DEF Serving
      <4> QED
        BY <2>1, <2>2, <4>1
    <3> QED
      BY <1>t, <2>1, <3>1, <3>2
  <2> QED
    BY <2>3, <2>4, <2>5, <2>6 DEF Serving
<1>3. ASSUME NEW w \in Workers, HandleClient(w) \/ WorkerLoop(w) PROVE Serving'
  <2>1. /\ Taken' = Taken
        /\ \A v \in Workers : v # w => (Handling(v)' <=> Handling(v)) /\ item'[v] = item[v]
        /\ ~Handling(w)'
        /\ \/ Handling(w) /\ served' = served \cup {item[w]}
           \/ ~Handling(w) /\ served' = served
    BY <1>3, HandledEffect
  <2>2. served' \subseteq 1 .. Taken'
    BY <2>1 DEF Serving
  <2>3. \A v \in Workers : Handling(v)' => item'[v] \in 1 .. Taken' /\ item'[v] \notin served'
    BY <2>1 DEF Serving
  <2>4. \A u, v \in Workers : Handling(u)' /\ Handling(v)' /\ item'[u] = item'[v] => u = v
    BY <2>1 DEF Serving
  <2>5. \A c \in 1 .. Taken' : c \in served' \/ \E v \in Workers : Handling(v)' /\ item'[v] = c
    <3> SUFFICES ASSUME NEW c \in 1 .. Taken', c \notin served'
                 PROVE  \E v \in Workers : Handling(v)' /\ item'[v] = c
      OBVIOUS
    <3>1. PICK v \in Workers : Handling(v) /\ item[v] = c
      BY <2>1 DEF Serving
    <3>2. v # w
      BY <2>1, <3>1
    <3> QED
      BY <2>1, <3>1, <3>2
  <2> QED
    BY <2>2, <2>3, <2>4, <2>5 DEF Serving
<1>4. CASE Quiet
  BY <1>4 DEF Quiet, Serving, Taken
<1> QED
  BY <1>1, <1>2, <1>3, <1>4, QuietSteps

-----------------------------------------------------------------------------
(* The invariant holds, and what follows from it.                          *)

\* The pool starts with its inductive invariant.
LEMMA IndInit == Init => IndInv
<1> SUFFICES ASSUME Init PROVE IndInv
  OBVIOUS
<1>t. TypeOK
  BY TypeInit
<1>p. pc[Main] = "init" /\ \A w \in Workers : pc[w] = "unborn"
  BY ThreadFacts DEF Init
<1>1. MutualExclusion
  BY <1>p, ThreadFacts DEF Init, MutualExclusion, InCriticalSection
<1>2. Control
  BY <1>p, PoolAssumption DEF Init, Control, SubmitLabels, Workers
<1>3. Sleepers
  BY <1>p DEF Init, Sleepers, SleepsOnlyWhenFull
<1>4. queue.count = 0 /\ EndsAgree(queue) /\ Pushed = 0 /\ Taken = 0
  BY <1>p, EmptyQueueFacts DEF Init, Pushed, Taken, SubmitLabels
<1>5. Ring
  BY <1>4 DEF Ring
<1>6. Serving
  BY <1>4, <1>p DEF Init, Serving, Handling
<1> QED
  BY <1>t, <1>1, <1>2, <1>3, <1>5, <1>6 DEF IndInv

\* Every step of the pool keeps the inductive invariant.
LEMMA IndStep == IndInv /\ [Next]_vars => IndInv'
  BY TypeStep, MutexStep, ControlStep, SleepersStep, RingStep, ServingStep DEF IndInv

\* The inductive invariant holds in every reachable state.
THEOREM Invariance == Spec => []IndInv
  BY IndInit, IndStep, PTL DEF Spec

\* The pool's variables keep their types: in particular count never leaves
\* 0 .. QUEUE_CAPACITY and head and tail never leave the array.
THEOREM TypeCorrect == Spec => []TypeOK
<1>1. IndInv => TypeOK
  BY DEF IndInv
<1> QED
  BY <1>1, Invariance, PTL

\* The locking discipline of every path through the three functions.
THEOREM Exclusive == Spec => []MutualExclusion
<1>1. IndInv => MutualExclusion
  BY DEF IndInv
<1> QED
  BY <1>1, Invariance, PTL

\* The ring holds the latest pushes in submit order, for every capacity.
THEOREM InOrder == Spec => []FirstInFirstOut
<1>1. ASSUME IndInv PROVE FirstInFirstOut
  BY <1>1, ContentsType DEF IndInv, Ring, FirstInFirstOut, Contents
<1> QED
  BY <1>1, Invariance, PTL

\* Every connection submitted is in one slot, with one worker, or served.
THEOREM OnePlaceEach == Spec => []ExactlyOnce
<1>1. ASSUME IndInv PROVE ExactlyOnce
  <2> DEFINE InHand == {item[w] : w \in {v \in Workers : Handling(v)}}
  <2>1. /\ Pushed \in Nat /\ Taken \in Nat /\ queue.count \in Nat
        /\ Pushed = Taken + queue.count
    BY <1>1, CountFacts, PoolAssumption, CapacityAssumption DEF Taken
  <2>2. Queued = {Taken + i : i \in 1 .. queue.count}
    BY <1>1 DEF IndInv, Ring, Queued
  <2>3. Queued = (Taken + 1) .. Pushed
    BY <2>1, <2>2
  <2>4. InHand \cup served = 1 .. Taken
    <3>1. \A c \in InHand : c \in 1 .. Taken
      BY <1>1 DEF IndInv, Serving
    <3>2. \A c \in 1 .. Taken : c \in served \/ c \in InHand
      BY <1>1 DEF IndInv, Serving
    <3>3. served \subseteq 1 .. Taken
      BY <1>1 DEF IndInv, Serving
    <3> HIDE DEF InHand
    <3> QED
      BY <3>1, <3>2, <3>3
  <2>5. 1 .. Pushed = Queued \cup InHand \cup served
    BY <2>1, <2>3, <2>4
  <2>6. Queued \cap 1 .. Taken = {}
    BY <2>1, <2>3
  <2>7. \A w \in Workers : Handling(w) => item[w] \notin Queued \cup served
    BY <1>1, <2>6 DEF IndInv, Serving
  <2>8. Queued \cap served = {}
    BY <1>1, <2>6 DEF IndInv, Serving
  <2> QED
    BY <1>1, <2>5, <2>7, <2>8 DEF IndInv, Serving, ExactlyOnce
<1> QED
  BY <1>1, Invariance, PTL

\* main sleeps only while the queue is full.
THEOREM Backpressure == Spec => []SleepsOnlyWhenFull
<1>1. IndInv => SleepsOnlyWhenFull
  BY DEF IndInv, Sleepers
<1> QED
  BY <1>1, Invariance, PTL

\* When thread_pool_destroy has returned, nobody is left unserved and no
\* worker is left alive.
THEOREM Drained == Spec => []GracefulDrain
<1>1. ASSUME IndInv, pc[Main] = "done"
      PROVE  served = 1 .. submitted /\ \A w \in Workers : pc[w] = "exited"
  <2>1. \A w \in Workers : pc[w] = "exited"
    BY <1>1, PoolAssumption DEF IndInv, Control, Workers
  <2>2. 1 \in Workers
    BY PoolAssumption DEF Workers
  <2>3. queue.count = 0
    BY <1>1, <2>1, <2>2 DEF IndInv, Control
  <2>4. Taken = submitted
    BY <1>1, <2>3, PoolAssumption DEF IndInv, TypeOK, Taken, Pushed, SubmitLabels
  <2>5. served = 1 .. Taken
    BY <1>1, <2>1 DEF IndInv, Serving, Handling
  <2> QED
    BY <2>1, <2>4, <2>5
<1>2. IndInv => GracefulDrain
  BY <1>1 DEF GracefulDrain
<1> QED
  BY <1>2, Invariance, PTL

\* Once the pool is shutting down it stays so, takes nothing in, and nobody
\* goes to sleep.
THEOREM ShutdownFinal == Spec => ShutdownIsFinal
<1>1. ASSUME IndInv, [Next]_vars, shutdown
      PROVE  shutdown' /\ queue'.count <= queue.count /\ not_empty' = {}
  <2>1. IndInv' /\ TypeOK /\ Control /\ Sleepers
    BY <1>1, IndStep DEF IndInv
  <2>2. pc[Main] \in {"join", "done"}
    BY <1>1, <2>1 DEF Control
  <2>3. pc'[Main] \in {"join", "done"}
    <3>1. CASE MainNext
      BY <2>1, <2>2, <3>1, ThreadFacts
      DEF MainNext, CreateWorker, InitReturn, SubmitCall, SubmitAcquire, SubmitWait,
          SubmitFinish, DestroyCall, DestroyRead, DestroyAcquire, DestroySet, Join,
          DestroyReturn, Goto, TypeOK
    <3>2. ASSUME NEW w \in Workers, WorkerNext(w) PROVE pc'[Main] = pc[Main]
      BY <2>1, <3>2, ThreadFacts
      DEF WorkerNext, WorkerAcquire, WorkerWait, WorkerExit, WorkerTake, HandleClient,
          WorkerLoop, Goto, TypeOK
    <3>3. CASE SpuriousWakeup \/ UNCHANGED vars
      BY <2>2, <3>3 DEF SpuriousWakeup, vars
    <3> QED
      BY <1>1, <2>2, <3>1, <3>2, <3>3 DEF Next, Terminated
  <2>4. shutdown' /\ not_empty' = {}
    BY <2>1, <2>3 DEF IndInv, Control, Sleepers
  <2>5. ~SubmitFinish
    BY <2>2 DEF SubmitFinish
  <2>6. queue.count \in Nat
    BY <1>1, CountFacts, CapacityAssumption
  <2>7. queue'.count <= queue.count
    <3>1. ASSUME NEW w \in Workers, WorkerTake(w) PROVE queue'.count <= queue.count
      BY <1>1, <2>6, <3>1, TakeEffect
    <3>2. ASSUME NEW w \in Workers, HandleClient(w) \/ WorkerLoop(w)
          PROVE  queue'.count <= queue.count
      BY <1>1, <2>6, <3>2, HandledEffect
    <3>3. CASE Quiet
      BY <2>6, <3>3 DEF Quiet
    <3> QED
      BY <1>1, <2>5, <3>1, <3>2, <3>3, QuietSteps
  <2> QED
    BY <2>4, <2>7
<1>2. IndInv /\ [Next]_vars =>
        [shutdown => shutdown' /\ queue'.count <= queue.count /\ not_empty' = {}]_vars
  BY <1>1
<1> QED
  BY <1>2, Invariance, PTL DEF Spec, ShutdownIsFinal

-----------------------------------------------------------------------------
(* No lost wakeup.                                                         *)

AwakeWorkers == {w \in Workers : Awake(w)}

\* Sets of workers are finite, and their sizes compare as expected.
LEMMA WorkerSets ==
  ASSUME NEW A \in SUBSET Workers, NEW B \in SUBSET Workers
  PROVE  /\ IsFiniteSet(A) /\ Cardinality(A) \in Nat
         /\ A \subseteq B => Cardinality(A) <= Cardinality(B)
<1>1. IsFiniteSet(Workers)
  BY PoolAssumption, FS_Interval DEF Workers
<1>2. IsFiniteSet(A) /\ IsFiniteSet(B)
  BY <1>1, FS_Subset
<1> QED
  BY <1>2, FS_Subset, FS_CardinalityType

\* A step after which nobody has fallen asleep or left, and nothing was added.
LEMMA MoreAwake ==
  ASSUME IndInv, NoLostWakeup, queue'.count = queue.count, not_empty' \subseteq not_empty,
         AwakeWorkers \subseteq AwakeWorkers'
  PROVE  NoLostWakeup'
<1>1. queue.count \in Nat
  BY CountFacts, CapacityAssumption
<1>2. AwakeWorkers \in SUBSET Workers /\ AwakeWorkers' \in SUBSET Workers
  BY DEF AwakeWorkers
<1>3. /\ Cardinality(AwakeWorkers) \in Nat /\ Cardinality(AwakeWorkers') \in Nat
      /\ Cardinality(AwakeWorkers) <= Cardinality(AwakeWorkers')
  BY <1>2, WorkerSets
<1>4. not_empty' # {} => queue.count <= Cardinality(AwakeWorkers)
  BY DEF NoLostWakeup, AwakeWorkers
<1> QED
  BY <1>1, <1>3, <1>4 DEF NoLostWakeup, AwakeWorkers

\* Every step keeps enough wakeups under way for the descriptors that wait.
LEMMA WakeupStep == IndInv /\ NoLostWakeup /\ [Next]_vars => NoLostWakeup'
<1> SUFFICES ASSUME IndInv, NoLostWakeup, [Next]_vars PROVE NoLostWakeup'
  OBVIOUS
<1> TypeOK /\ Control /\ Sleepers
  BY DEF IndInv
<1> USE ThreadFacts
<1>c. queue.count \in Nat /\ AwakeWorkers \in SUBSET Workers /\ AwakeWorkers' \in SUBSET Workers
  BY CountFacts, CapacityAssumption DEF AwakeWorkers
<1>f. IsFiniteSet(AwakeWorkers) /\ Cardinality(AwakeWorkers) \in Nat
      /\ Cardinality(AwakeWorkers') \in Nat
  BY <1>c, WorkerSets
<1>1. CASE CreateWorker
  <2>1. active_workers + 1 \in Workers
    BY <1>1, PoolAssumption DEF CreateWorker, TypeOK, Workers
  <2>2. AwakeWorkers \subseteq AwakeWorkers'
    BY <1>1, <2>1 DEF CreateWorker, Goto, TypeOK, AwakeWorkers, Awake
  <2> QED
    BY <1>1, <2>2, MoreAwake DEF CreateWorker
<1>2. CASE /\ pc' = [pc EXCEPT ![Main] = pc'[Main]]
           /\ UNCHANGED <<queue, not_empty>>
  <2>1. AwakeWorkers \subseteq AwakeWorkers'
    BY <1>2 DEF TypeOK, AwakeWorkers, Awake
  <2> QED
    BY <1>2, <2>1, MoreAwake
<1>3. CASE SubmitFinish
  <2>1. /\ SignalNotEmpty /\ pc' = [pc EXCEPT ![Main] = "idle"]
        /\ queue' = queue_push(queue, submitted)
    BY <1>3 DEF SubmitFinish, Goto, Control
  <2>2. queue'.count = queue.count + 1
    BY <2>1 DEF TypeOK, WorkQueueOf, queue_push
  <2>3. CASE not_empty = {}
    BY <2>1, <2>3 DEF SignalNotEmpty, NoLostWakeup
  <2>4. CASE not_empty # {}
    <3>1. PICK w \in not_empty : not_empty' = not_empty \ {w}
      BY <2>1, <2>4 DEF SignalNotEmpty
    <3>2. w \in Workers /\ w \notin AwakeWorkers
      BY DEF TypeOK, Sleepers, AwakeWorkers, Awake
    <3>3. AwakeWorkers' = AwakeWorkers \cup {w}
      <4>1. w \in AwakeWorkers'
        BY <2>1, <3>1, <3>2 DEF TypeOK, Sleepers, AwakeWorkers, Awake
      <4>2. \A v \in Workers : v # w => (v \in AwakeWorkers' <=> v \in AwakeWorkers)
        BY <2>1, <3>1, <3>2 DEF TypeOK, AwakeWorkers, Awake
      <4> QED
        BY <1>c, <3>2, <4>1, <4>2
    <3>4. Cardinality(AwakeWorkers') = Cardinality(AwakeWorkers) + 1
      BY <1>f, <3>2, <3>3, FS_AddElement
    <3>5. queue.count <= Cardinality(AwakeWorkers)
      BY <2>4 DEF NoLostWakeup, AwakeWorkers
    <3> QED
      BY <1>c, <1>f, <2>2, <3>4, <3>5 DEF NoLostWakeup, AwakeWorkers
  <2> QED
    BY <2>3, <2>4
<1>4. CASE DestroySet
  BY <1>4 DEF DestroySet, BroadcastNotEmpty, NoLostWakeup
<1>5. ASSUME NEW w \in Workers, WorkerNext(w) PROVE NoLostWakeup'
  <2>1. CASE WorkerAcquire(w)
    <3>1. AwakeWorkers \subseteq AwakeWorkers'
      BY <2>1 DEF WorkerAcquire, Goto, TypeOK, AwakeWorkers, Awake
    <3> QED
      BY <2>1, <3>1, MoreAwake DEF WorkerAcquire
  <2>2. CASE WorkerWait(w)
    <3>1. queue'.count = 0
      BY <2>2 DEF WorkerWait, queue_is_empty
    <3> QED
      BY <1>f, <3>1 DEF NoLostWakeup, AwakeWorkers
  <2>3. CASE WorkerExit(w)
    BY <2>3 DEF WorkerExit, WorkerMayExit, Sleepers, NoLostWakeup
  <2>4. CASE WorkerTake(w)
    <3>1. /\ queue'.count = queue.count - 1 /\ not_empty' = not_empty
          /\ pc[w] = "check" /\ pc' = [pc EXCEPT ![w] = "handle"]
      BY <2>4, TakeEffect DEF WorkerTake, Goto
    <3>2. w \in AwakeWorkers
      BY <3>1 DEF AwakeWorkers, Awake
    <3>3. AwakeWorkers' = AwakeWorkers \ {w}
      <4>1. w \notin AwakeWorkers'
        BY <3>1 DEF TypeOK, AwakeWorkers, Awake
      <4>2. \A v \in Workers : v # w => (v \in AwakeWorkers' <=> v \in AwakeWorkers)
        BY <3>1 DEF TypeOK, AwakeWorkers, Awake
      <4> QED
        BY <1>c, <4>1, <4>2
    <3>4. Cardinality(AwakeWorkers') = Cardinality(AwakeWorkers) - 1
      BY <1>f, <3>2, <3>3, FS_RemoveElement
    <3> QED
      BY <1>c, <1>f, <3>1, <3>4 DEF NoLostWakeup, AwakeWorkers
  <2>5. CASE HandleClient(w)
    <3>1. AwakeWorkers \subseteq AwakeWorkers'
      BY <2>5 DEF HandleClient, poolVars, Goto, TypeOK, AwakeWorkers, Awake
    <3> QED
      BY <2>5, <3>1, MoreAwake DEF HandleClient, poolVars
  <2>6. CASE WorkerLoop(w)
    <3>1. AwakeWorkers \subseteq AwakeWorkers'
      BY <2>6 DEF WorkerLoop, poolVars, Goto, TypeOK, AwakeWorkers, Awake
    <3> QED
      BY <2>6, <3>1, MoreAwake DEF WorkerLoop, poolVars
  <2> QED
    BY <1>5, <2>1, <2>2, <2>3, <2>4, <2>5, <2>6 DEF WorkerNext
<1>6. CASE SpuriousWakeup
  <2>1. not_empty' \subseteq not_empty /\ pc' = pc /\ queue' = queue
    BY <1>6 DEF SpuriousWakeup
  <2>2. AwakeWorkers \subseteq AwakeWorkers'
    BY <2>1 DEF AwakeWorkers, Awake
  <2> QED
    BY <2>1, <2>2, MoreAwake
<1>7. CASE UNCHANGED vars
  BY <1>7 DEF vars, NoLostWakeup, Awake
<1>8. ASSUME MainNext, ~CreateWorker, ~SubmitFinish, ~DestroySet
      PROVE  /\ pc' = [pc EXCEPT ![Main] = pc'[Main]]
             /\ UNCHANGED <<queue, not_empty>>
  BY <1>8
  DEF MainNext, InitReturn, SubmitCall, SubmitAcquire, SubmitWait, DestroyCall,
      DestroyRead, DestroyAcquire, Join, DestroyReturn, poolVars, Goto, TypeOK
<1> QED
  BY <1>1, <1>2, <1>3, <1>4, <1>5, <1>6, <1>7, <1>8 DEF Next, Terminated

\* No signal is lost, whatever the number of workers.
THEOREM NoWakeupLost == Spec => []NoLostWakeup
<1>1. Init => NoLostWakeup
  BY DEF Init, NoLostWakeup
<1> QED
  BY <1>1, WakeupStep, Invariance, PTL DEF Spec

-----------------------------------------------------------------------------
(* The refinement: under the mapping of ThreadPool (Service), every step   *)
(* of the pool is a step of the waiting room PoolService or leaves it as   *)
(* it is.                                                                  *)

\* What the waiting room sees of the workers.
InService == [w \in Workers |-> IF Handling(w) THEN item[w] ELSE NoItem]

\* A step that changes neither the counts, nor who is served, nor the doors.
LEMMA Unseen ==
  ASSUME Pushed' = Pushed, Taken' = Taken, InService' = InService, served' = served,
         shutdown' = shutdown, (pc[Main] = "done")' <=> (pc[Main] = "done")
  PROVE  UNCHANGED Service!serviceVars
  BY DEF Service!serviceVars, InService

\* A step that leaves the ring and the records alone is a stutter of the service.
LEMMA QuietService ==
  ASSUME Quiet
  PROVE  Pushed' = Pushed /\ Taken' = Taken /\ InService' = InService /\ served' = served
  BY DEF Quiet, Taken, InService

\* The pool's initial states are initial states of the service.
LEMMA ServiceInit == Init => Service!Init
<1> SUFFICES ASSUME Init PROVE Service!Init
  OBVIOUS
<1>1. pc[Main] = "init" /\ \A w \in Workers : pc[w] = "unborn"
  BY ThreadFacts DEF Init
<1>2. Pushed = 0 /\ Taken = 0
  BY <1>1, EmptyQueueFacts DEF Init, Pushed, Taken, SubmitLabels
<1> QED
  BY <1>1, <1>2 DEF Init, Service!Init, Service!Nobody, Handling, NoItem

\* Every step of the pool is a step or a stutter of the service.
LEMMA ServiceStep == IndInv /\ IndInv' /\ [Next]_vars => [Service!Next]_(Service!serviceVars)
<1> SUFFICES ASSUME IndInv, IndInv', [Next]_vars
             PROVE  [Service!Next]_(Service!serviceVars)
  OBVIOUS
<1> TypeOK /\ Control
  BY DEF IndInv
<1> USE ThreadFacts
<1>1. CASE SubmitFinish
  <2>1. /\ Pushed' = Pushed + 1 /\ Taken' = Taken /\ served' = served /\ item' = item
        /\ ~queue_is_full(queue)
        /\ \A w \in Workers : Handling(w)' <=> Handling(w)
    BY <1>1, FinishEffect
  <2>2. ~shutdown /\ shutdown' = shutdown /\ pc[Main] # "done" /\ pc'[Main] # "done"
    BY <1>1 DEF SubmitFinish, Goto, TypeOK, Control
  <2>3. Pushed - Taken < QUEUE_CAPACITY
    BY <2>1, CountFacts, PoolAssumption, CapacityAssumption DEF Taken, queue_is_full
  <2>4. InService' = InService
    BY <2>1 DEF InService
  <2>5. Service!Admit
    BY <2>1, <2>2, <2>3, <2>4 DEF Service!Admit, InService
  <2> QED
    BY <2>5 DEF Service!Next
<1>2. ASSUME NEW w \in Workers, WorkerTake(w) PROVE Service!Begin(w)
  <2>1. /\ Pushed' = Pushed /\ Taken' = Taken + 1 /\ served' = served
        /\ item' = [item EXCEPT ![w] = Taken + 1]
        /\ ~queue_is_empty(queue)
        /\ ~Handling(w) /\ Handling(w)'
        /\ \A v \in Workers : v # w => (Handling(v)' <=> Handling(v))
    BY <1>2, TakeEffect
  <2>2. shutdown' = shutdown /\ pc'[Main] = pc[Main]
    BY <1>2 DEF WorkerTake, Goto, TypeOK
  <2>3. Taken < Pushed
    BY <2>1, CountFacts, PoolAssumption, CapacityAssumption DEF Taken, queue_is_empty
  <2>4. InService[w] = NoItem /\ InService' = [InService EXCEPT ![w] = Taken + 1]
    BY <2>1 DEF InService, TypeOK
  <2> QED
    BY <2>1, <2>2, <2>3, <2>4 DEF Service!Begin, Service!Nobody, InService, NoItem
<1>3. ASSUME NEW w \in Workers, HandleClient(w) PROVE Service!Finish(w)
  <2>1. /\ Pushed' = Pushed /\ Taken' = Taken
        /\ \A v \in Workers : v # w => (Handling(v)' <=> Handling(v)) /\ item'[v] = item[v]
        /\ ~Handling(w)'
    BY <1>3, HandledEffect
  <2>2. /\ Handling(w) /\ served' = served \cup {item[w]}
        /\ shutdown' = shutdown /\ pc'[Main] = pc[Main]
    BY <1>3 DEF HandleClient, Handling, Goto, TypeOK, poolVars
  <2>3. item[w] # 0
    BY <2>2, CountFacts, PoolAssumption DEF IndInv, Serving
  <2>4. InService[w] = item[w] /\ InService' = [InService EXCEPT ![w] = NoItem]
    BY <2>1, <2>2 DEF InService
  <2> QED
    BY <2>1, <2>2, <2>3, <2>4 DEF Service!Finish, Service!Nobody, InService, NoItem
<1>4. ASSUME NEW w \in Workers, WorkerLoop(w) PROVE UNCHANGED Service!serviceVars
  <2>1. /\ Pushed' = Pushed /\ Taken' = Taken
        /\ \A v \in Workers : v # w => (Handling(v)' <=> Handling(v)) /\ item'[v] = item[v]
        /\ ~Handling(w)'
    BY <1>4, HandledEffect
  <2>2. /\ ~Handling(w) /\ served' = served
        /\ shutdown' = shutdown /\ pc'[Main] = pc[Main]
    BY <1>4 DEF WorkerLoop, Handling, Goto, TypeOK, poolVars
  <2>3. InService' = InService
    BY <2>1, <2>2 DEF InService
  <2> QED
    BY <2>1, <2>2, <2>3, Unseen
<1>5. CASE DestroySet
  <2>1. Quiet
    BY <1>5 DEF DestroySet, Goto, TypeOK, Quiet, Handling, Pushed, SubmitLabels
  <2>2. ~shutdown /\ shutdown' /\ pc[Main] # "done" /\ pc'[Main] # "done"
    BY <1>5 DEF DestroySet, Goto, TypeOK, Control
  <2>3. Service!Close
    BY <2>1, <2>2, QuietService DEF Service!Close, InService
  <2> QED
    BY <2>3 DEF Service!Next
<1>6. CASE DestroyReturn
  <2>1. Quiet
    BY <1>6 DEF DestroyReturn, poolVars, Goto, TypeOK, Quiet, Handling, Pushed, SubmitLabels
  <2>2. shutdown /\ shutdown' = shutdown /\ pc[Main] # "done" /\ pc'[Main] = "done"
    BY <1>6 DEF DestroyReturn, poolVars, Goto, TypeOK, Control
  <2>3. served = 1 .. Pushed
    <3>1. \A w \in Workers : pc[w] = "exited"
      BY <1>6, PoolAssumption DEF DestroyReturn, Control, Workers
    <3>2. 1 \in Workers
      BY PoolAssumption DEF Workers
    <3>3. queue.count = 0
      BY <3>1, <3>2 DEF Control
    <3>4. Taken = Pushed
      BY <3>3, CountFacts, PoolAssumption DEF Taken
    <3> QED
      BY <3>1, <3>4 DEF IndInv, Serving, Handling
  <2>4. Service!Stop
    BY <2>1, <2>2, <2>3, QuietService DEF Service!Stop, InService
  <2> QED
    BY <2>4 DEF Service!Next
<1>7. ASSUME ~SubmitFinish, ~DestroySet, ~DestroyReturn,
             \A w \in Workers : ~(WorkerTake(w) \/ HandleClient(w) \/ WorkerLoop(w))
      PROVE  UNCHANGED Service!serviceVars
  <2>1. Quiet
    BY <1>7, QuietSteps
  <2>2. shutdown' = shutdown
    BY <1>7
    DEF Next, MainNext, CreateWorker, InitReturn, SubmitCall, SubmitAcquire, SubmitWait,
        DestroyCall, DestroyRead, DestroyAcquire, Join, WorkerNext, WorkerAcquire,
        WorkerWait, WorkerExit, SpuriousWakeup, Terminated, poolVars, vars
  <2>3. (pc[Main] = "done")' <=> (pc[Main] = "done")
    <3>1. CASE CreateWorker
      <4>1. active_workers + 1 # Main
        BY <3>1 DEF CreateWorker, TypeOK, Main
      <4> QED
        BY <3>1, <4>1 DEF CreateWorker, Goto, TypeOK
    <3>2. CASE MainNext /\ ~CreateWorker
      BY <1>7, <3>2
      DEF MainNext, InitReturn, SubmitCall, SubmitAcquire, SubmitWait,
          DestroyCall, DestroyRead, DestroyAcquire, Join, Goto, TypeOK
    <3>3. ASSUME NEW w \in Workers, WorkerNext(w) PROVE pc'[Main] = pc[Main]
      BY <3>3
      DEF WorkerNext, WorkerAcquire, WorkerWait, WorkerExit, WorkerTake, HandleClient,
          WorkerLoop, Goto, TypeOK
    <3>4. CASE SpuriousWakeup \/ UNCHANGED vars
      BY <3>4 DEF SpuriousWakeup, vars
    <3> QED
      BY <3>1, <3>2, <3>3, <3>4 DEF Next, Terminated
  <2> QED
    BY <2>1, <2>2, <2>3, QuietService, Unseen
<1> QED
  BY <1>1, <1>2, <1>3, <1>4, <1>5, <1>6, <1>7 DEF Service!Next

\* Every behaviour of the pool is, seen from outside, a behaviour of the
\* waiting room: FIFO, bounded, one worker per connection, nobody refused, and
\* stopped only when everybody has been served.
THEOREM Implementation == Spec => ImplementsService
  BY ServiceInit, ServiceStep, Invariance, PTL DEF Spec, ImplementsService, Service!Spec
=============================================================================
