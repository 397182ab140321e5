----------------------------- MODULE ThreadPool -----------------------------
(***************************************************************************)
(* thread_pool.c: one main thread that creates the workers, submits        *)
(* accepted connections and finally destroys the pool, and                 *)
(* THREAD_POOL_SIZE workers that share the circular queue.                 *)
(*                                                                         *)
(* A connection is the number of the thread_pool_submit call that brought  *)
(* it in (the client_fd and client_addr of the C WorkItem are of no        *)
(* interest to the pool); 0 is the zeroed item of a slot never written.    *)
(*                                                                         *)
(* A step is what one thread does between two points where another thread  *)
(* can tell the difference: acquiring the mutex, everything it does while  *)
(* it holds it, blocking on a condition variable, and handling a client.   *)
(* not_empty and not_full are the sets of threads that sleep in            *)
(* pthread_cond_wait on that condition variable; a signal takes one thread *)
(* out of the set and that thread must then re-acquire the mutex.          *)
(***************************************************************************)
EXTENDS WorkQueue, FiniteSets

CONSTANTS
  THREAD_POOL_SIZE,  \* number of worker threads
  MaxSubmits         \* bound on thread_pool_submit calls (for model checking)

ASSUME PoolAssumption ==
  /\ THREAD_POOL_SIZE \in Nat \ {0}
  /\ MaxSubmits \in Nat

Main == 0
Workers == 1 .. THREAD_POOL_SIZE
Threads == Workers \cup {Main}
NoOwner == -1
Connections == 1 .. MaxSubmits
NoItem == 0
Items == Connections \cup {NoItem}

VARIABLES
  queue,           \* pool->queue
  shutdown,        \* pool->shutdown
  active_workers,  \* pool->active_workers
  mutex,           \* the owner of pool->mutex, or NoOwner
  not_empty,       \* workers asleep on pool->not_empty
  not_full,        \* {Main} while main sleeps on pool->not_full
  pc,              \* where each thread is
  item,            \* the local variable item of each worker
  submitted,       \* number of thread_pool_submit calls so far
  served,          \* connections whose handle_client() has returned
  rejected,        \* connections closed by thread_pool_submit itself
  joined           \* number of workers main has joined

poolVars == <<queue, shutdown, active_workers, mutex, not_empty, not_full>>
vars == <<queue, shutdown, active_workers, mutex, not_empty, not_full,
          pc, item, submitted, served, rejected, joined>>

SubmitLabels == {"submit_lock", "submit_check", "submit_wait"}
MainLabels == {"init", "idle", "destroy_read", "destroy_lock", "destroy_set",
               "join", "done"} \cup SubmitLabels
WorkerLabels == {"unborn", "lock", "check", "wait", "handle", "handled", "exited"}

Init ==
  /\ queue = EmptyQueue(NoItem)
  /\ shutdown = FALSE
  /\ active_workers = 0
  /\ mutex = NoOwner
  /\ not_empty = {}
  /\ not_full = {}
  /\ pc = [t \in Threads |-> IF t = Main THEN "init" ELSE "unborn"]
  /\ item = [w \in Workers |-> NoItem]
  /\ submitted = 0
  /\ served = {}
  /\ rejected = {}
  /\ joined = 0

Goto(t, label) == pc' = [pc EXCEPT ![t] = label]

-----------------------------------------------------------------------------
(* The mutex and the condition variables of POSIX threads.                 *)

Lock(t) == mutex = NoOwner /\ mutex' = t
Unlock(t) == mutex = t /\ mutex' = NoOwner

\* Faulty variants: a forgotten signal, a broadcast that wakes one thread.
NoSignal == UNCHANGED not_empty
NoSignalNotFull == UNCHANGED not_full
BroadcastWakesOne ==
  IF not_empty = {} THEN not_empty' = {} ELSE \E w \in not_empty : not_empty' = not_empty \ {w}

SignalNotEmpty ==
  IF not_empty = {} THEN not_empty' = {} ELSE \E w \in not_empty : not_empty' = not_empty \ {w}
SignalNotFull == not_full' = {}
BroadcastNotEmpty == not_empty' = {}

\* POSIX lets pthread_cond_wait return without a signal.
SpuriousWakeup ==
  /\ \/ /\ \E w \in not_empty : not_empty' = not_empty \ {w}
        /\ UNCHANGED not_full
     \/ /\ not_full # {}
        /\ not_full' = {}
        /\ UNCHANGED not_empty
  /\ UNCHANGED <<queue, shutdown, active_workers, mutex,
                 pc, item, submitted, served, rejected, joined>>

-----------------------------------------------------------------------------
(* thread_pool_init: start the workers one after the other.                *)

CreateWorker ==
  /\ pc[Main] = "init"
  /\ active_workers < THREAD_POOL_SIZE
  /\ active_workers' = active_workers + 1
  /\ Goto(active_workers + 1, "lock")
  /\ UNCHANGED <<queue, shutdown, mutex, not_empty, not_full,
                 item, submitted, served, rejected, joined>>

InitReturn ==
  /\ pc[Main] = "init"
  /\ active_workers = THREAD_POOL_SIZE
  /\ Goto(Main, "idle")
  /\ UNCHANGED <<poolVars, item, submitted, served, rejected, joined>>

-----------------------------------------------------------------------------
(* thread_pool_submit, called by main for one more connection.             *)

SubmitCall ==
  /\ pc[Main] = "idle"
  /\ submitted < MaxSubmits
  /\ submitted' = submitted + 1
  /\ Goto(Main, "submit_lock")
  /\ UNCHANGED <<poolVars, item, served, rejected, joined>>

SubmitAcquire ==
  /\ \/ pc[Main] = "submit_lock"
     \/ pc[Main] = "submit_wait" /\ not_full = {}
  /\ Lock(Main)
  /\ Goto(Main, "submit_check")
  /\ UNCHANGED <<queue, shutdown, active_workers, not_empty, not_full,
                 item, submitted, served, rejected, joined>>

SubmitBlocked == queue_is_full(queue) /\ ~shutdown

SubmitWait ==
  /\ pc[Main] = "submit_check"
  /\ SubmitBlocked
  /\ Unlock(Main)
  /\ not_full' = {Main}
  /\ Goto(Main, "submit_wait")
  /\ UNCHANGED <<queue, shutdown, active_workers, not_empty,
                 item, submitted, served, rejected, joined>>

SubmitFinish ==
  /\ pc[Main] = "submit_check"
  /\ ~SubmitBlocked
  /\ IF shutdown
     THEN /\ rejected' = rejected \cup {submitted}
          /\ UNCHANGED <<queue, not_empty>>
     ELSE /\ queue' = queue_push(queue, submitted)
          /\ SignalNotEmpty
          /\ UNCHANGED rejected
  /\ Unlock(Main)
  /\ Goto(Main, "idle")
  /\ UNCHANGED <<shutdown, active_workers, not_full, item, submitted, served, joined>>

-----------------------------------------------------------------------------
(* thread_pool_destroy, called once by main after its accept loop.         *)

DestroyCall ==
  /\ pc[Main] = "idle"
  /\ Goto(Main, "destroy_read")
  /\ UNCHANGED <<poolVars, item, submitted, served, rejected, joined>>

\* The opening printf reads queue.count; main does not hold the mutex.
DestroyRead ==
  /\ pc[Main] = "destroy_read"
  /\ Goto(Main, "destroy_lock")
  /\ UNCHANGED <<poolVars, item, submitted, served, rejected, joined>>

DestroyAcquire ==
  /\ pc[Main] = "destroy_lock"
  /\ Lock(Main)
  /\ Goto(Main, "destroy_set")
  /\ UNCHANGED <<queue, shutdown, active_workers, not_empty, not_full,
                 item, submitted, served, rejected, joined>>

DestroySet ==
  /\ pc[Main] = "destroy_set"
  /\ shutdown' = TRUE
  /\ BroadcastNotEmpty
  /\ not_full' = {}
  /\ Unlock(Main)
  /\ Goto(Main, "join")
  /\ UNCHANGED <<queue, active_workers, item, submitted, served, rejected, joined>>

Join ==
  /\ pc[Main] = "join"
  /\ joined < THREAD_POOL_SIZE
  /\ pc[joined + 1] = "exited"
  /\ joined' = joined + 1
  /\ UNCHANGED <<poolVars, pc, item, submitted, served, rejected>>

DestroyReturn ==
  /\ pc[Main] = "join"
  /\ joined = THREAD_POOL_SIZE
  /\ Goto(Main, "done")
  /\ UNCHANGED <<poolVars, item, submitted, served, rejected, joined>>

-----------------------------------------------------------------------------
(* worker_thread.                                                          *)

WorkerAcquire(w) ==
  /\ \/ pc[w] = "lock"
     \/ pc[w] = "wait" /\ w \notin not_empty
  /\ Lock(w)
  /\ Goto(w, "check")
  /\ UNCHANGED <<queue, shutdown, active_workers, not_empty, not_full,
                 item, submitted, served, rejected, joined>>

\* Faulty variant: sleep without a look at the shutdown flag.
SleepIgnoringShutdown(w) ==
  /\ pc[w] = "check"
  /\ queue_is_empty(queue)
  /\ Unlock(w)
  /\ not_empty' = not_empty \cup {w}
  /\ Goto(w, "wait")
  /\ UNCHANGED <<queue, shutdown, active_workers, not_full,
                 item, submitted, served, rejected, joined>>

WorkerWait(w) ==
  /\ pc[w] = "check"
  /\ queue_is_empty(queue) /\ ~shutdown
  /\ Unlock(w)
  /\ not_empty' = not_empty \cup {w}
  /\ Goto(w, "wait")
  /\ UNCHANGED <<queue, shutdown, active_workers, not_full,
                 item, submitted, served, rejected, joined>>

\* Faulty variant: leave as soon as shutdown is seen.
ExitWithoutDraining == shutdown
WorkerMayExit == shutdown /\ queue_is_empty(queue)

\* Faulty variant: break out of the loop with the mutex still locked.
ExitKeepsLock(w) ==
  /\ pc[w] = "check"
  /\ WorkerMayExit
  /\ Goto(w, "exited")
  /\ UNCHANGED <<poolVars, item, submitted, served, rejected, joined>>

WorkerExit(w) ==
  /\ pc[w] = "check"
  /\ WorkerMayExit
  /\ Unlock(w)
  /\ Goto(w, "exited")
  /\ UNCHANGED <<queue, shutdown, active_workers, not_empty, not_full,
                 item, submitted, served, rejected, joined>>

WorkerTake(w) ==
  /\ pc[w] = "check"
  /\ ~queue_is_empty(queue)
  /\ item' = [item EXCEPT ![w] = queue_front(queue)]
  /\ queue' = queue_pop(queue)
  /\ SignalNotFull
  /\ Unlock(w)
  /\ Goto(w, "handle")
  /\ UNCHANGED <<shutdown, active_workers, not_empty, submitted, served, rejected, joined>>

\* handle_client() returns; it has closed the client's descriptor.
HandleClient(w) ==
  /\ pc[w] = "handle"
  /\ served' = served \cup {item[w]}
  /\ Goto(w, "handled")
  /\ UNCHANGED <<poolVars, item, submitted, rejected, joined>>

\* The end of the loop body: item goes out of scope, the next round begins.
WorkerLoop(w) ==
  /\ pc[w] = "handled"
  /\ item' = [item EXCEPT ![w] = NoItem]
  /\ Goto(w, "lock")
  /\ UNCHANGED <<poolVars, submitted, served, rejected, joined>>

-----------------------------------------------------------------------------
\* Everything has returned: the pool stops here.
Terminated == pc[Main] = "done" /\ UNCHANGED vars

MainNext ==
  \/ CreateWorker \/ InitReturn
  \/ SubmitCall \/ SubmitAcquire \/ SubmitWait \/ SubmitFinish
  \/ DestroyCall \/ DestroyRead \/ DestroyAcquire \/ DestroySet \/ Join \/ DestroyReturn

WorkerNext(w) ==
  \/ WorkerAcquire(w) \/ WorkerWait(w) \/ WorkerExit(w) \/ WorkerTake(w)
  \/ HandleClient(w) \/ WorkerLoop(w)

Next == MainNext \/ (\E w \in Workers : WorkerNext(w)) \/ SpuriousWakeup \/ Terminated

Spec == Init /\ [][Next]_vars

(* A thread that can run eventually runs (weak fairness), and a thread that *)
(* keeps asking for a mutex that is released again and again eventually    *)
(* gets it (strong fairness).  Nothing makes main call submit or destroy,  *)
(* and nothing makes a spurious wakeup happen.                             *)
MainStep ==
  \/ CreateWorker \/ InitReturn \/ SubmitWait \/ SubmitFinish
  \/ DestroyRead \/ DestroySet \/ Join \/ DestroyReturn
WorkerStep(w) ==
  WorkerWait(w) \/ WorkerExit(w) \/ WorkerTake(w) \/ HandleClient(w) \/ WorkerLoop(w)

Fairness ==
  /\ WF_vars(MainStep)
  /\ SF_vars(SubmitAcquire)
  /\ SF_vars(DestroyAcquire)
  /\ \A w \in Workers : WF_vars(WorkerStep(w)) /\ SF_vars(WorkerAcquire(w))

FairSpec == Spec /\ Fairness
-----------------------------------------------------------------------------
(* Properties.                                                             *)

\* Number of connections thread_pool_submit has put into the queue, and how
\* many of them the workers have taken out.
Pushed == IF pc[Main] \in SubmitLabels THEN submitted - 1 ELSE submitted
Taken == Pushed - queue.count

Queued == {Contents(queue)[i] : i \in 1 .. queue.count}
Handling(w) == pc[w] = "handle"

\* A worker that is certain to look at the queue before it sleeps again.
Awake(w) == pc[w] \in {"lock", "check"} \/ (pc[w] = "wait" /\ w \notin not_empty)

InCriticalSection(t) == pc[t] \in {"check", "submit_check", "destroy_set"}

\* Types of the variables.
TypeOK ==
  /\ queue \in WorkQueueOf(Items)
  /\ shutdown \in BOOLEAN
  /\ active_workers \in 0 .. THREAD_POOL_SIZE
  /\ mutex \in Threads \cup {NoOwner}
  /\ not_empty \subseteq Workers
  /\ not_full \subseteq {Main}
  /\ pc \in [Threads -> MainLabels \cup WorkerLabels]
  /\ pc[Main] \in MainLabels
  /\ \A w \in Workers : pc[w] \in WorkerLabels
  /\ item \in [Workers -> Items]
  /\ submitted \in 0 .. MaxSubmits
  /\ served \subseteq Connections
  /\ rejected \subseteq Connections
  /\ joined \in 0 .. THREAD_POOL_SIZE

\* The mutex is held by exactly the thread that is between a lock (or a return
\* from pthread_cond_wait) and the matching unlock: every path of submit,
\* destroy and worker_thread, the early ones too, releases what it acquired.
MutualExclusion == \A t \in Threads : InCriticalSection(t) <=> mutex = t

\* Across any number of wraps of head and tail the ring holds the latest
\* connections pushed, in the order of the submits, and nothing else.
FirstInFirstOut ==
  /\ EndsAgree(queue)
  /\ Contents(queue) = [i \in 1 .. queue.count |-> Taken + i]

\* Every connection submitted is in exactly one place: in one live slot, with
\* one worker, or served.  A stolen item, a stale slot or an item popped twice
\* (one descriptor used by two workers) would break it.
ExactlyOnce ==
  /\ 1 .. Pushed = Queued \cup {item[w] : w \in {v \in Workers : Handling(v)}} \cup served
  /\ \A w \in Workers : Handling(w) => item[w] \notin Queued \cup served
  /\ \A v, w \in Workers : Handling(v) /\ Handling(w) /\ item[v] = item[w] => v = w
  /\ Queued \cap served = {}

\* A worker may sleep on not_empty only while the workers awake are enough for
\* everything queued: no signal of a submit is lost between a worker's test of
\* the queue and its sleep, or taken by a worker that finds nothing.
NoLostWakeup ==
  not_empty # {} => queue.count <= Cardinality({w \in Workers : Awake(w)})

\* main sleeps on not_full only while the queue is full, so the pop that frees
\* a slot is always the one that wakes it.
SleepsOnlyWhenFull == not_full # {} => queue_is_full(queue) /\ ~shutdown

\* When thread_pool_destroy returns, and with it the mutex and the condition
\* variables are gone, every worker has exited and every connection ever
\* submitted has been served ("in-flight clients always receive a response").
GracefulDrain ==
  pc[Main] = "done" =>
    /\ served = 1 .. submitted
    /\ \A w \in Workers : pc[w] = "exited"

\* The pool implements the waiting room of PoolService: in submit order, at most
\* QUEUE_CAPACITY waiting, one worker each, none refused, and it stops only when
\* everybody has been served.
Service == INSTANCE PoolService WITH
  Servers <- Workers,
  Capacity <- QUEUE_CAPACITY,
  arrived <- Pushed,
  started <- Taken,
  serving <- [w \in Workers |-> IF Handling(w) THEN item[w] ELSE NoItem],
  finished <- served,
  open <- ~shutdown,
  stopped <- pc[Main] = "done"

ImplementsService == Service!Spec

\* Once the pool is shutting down it stays so, takes no new work, and no worker
\* goes to sleep any more.
ShutdownIsFinal ==
  [][shutdown => shutdown' /\ queue'.count <= queue.count /\ not_empty' = {}]_vars

\* Every connection main submits is served in the end, whatever the order in
\* which the workers wake up, if every handle_client() returns.
EverySubmittedServed ==
  \A k \in Connections : (submitted >= k) ~> (k \in served)

\* Backpressure ends: a submit blocked on a full queue returns.
SubmitReturns == (pc[Main] \in SubmitLabels) ~> (pc[Main] = "idle")

\* A destroy that was called returns: every worker wakes up, drains, exits.
DestroyReturns == (pc[Main] = "destroy_read") ~> (pc[Main] = "done")
=============================================================================
