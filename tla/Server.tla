------------------------------- MODULE Server -------------------------------
(***************************************************************************)
(* server.c: the accept loop of main() around the thread pool, with the    *)
(* shutdown signal, the kernel's queue of connections waiting to be        *)
(* accepted, and the table of client descriptors.                          *)
(*                                                                         *)
(* The pool is the module ThreadPool itself: while pc[Main] is "idle" main *)
(* is in server.c, and acc says where.  thread_pool_submit and             *)
(* thread_pool_destroy are called here and nowhere else.                   *)
(***************************************************************************)
EXTENDS ThreadPool

CONSTANTS
  FDs,           \* descriptors the process may have open for clients
  NoFd,          \* not a descriptor
  BACKLOG,       \* length of the kernel's queue (listen)
  SignalTargets  \* threads SIGINT and SIGTERM may be delivered to

ASSUME ServerAssumption ==
  /\ BACKLOG \in Nat \ {0}
  /\ SignalTargets \subseteq Threads
  /\ SignalTargets # {}
  /\ NoFd \notin FDs

VARIABLES
  g_running,  \* the flag of signal_handler
  acc,        \* main's place in the accept loop
  arrivals,   \* connections clients have opened so far
  backlog,    \* how many of them wait in the kernel
  open,       \* client descriptors that are open
  fd,         \* the descriptor accept() returned for each connection
  listening,  \* server_fd is open
  late        \* connections accepted after g_running was cleared

serverVars == <<g_running, acc, arrivals, backlog, open, fd, listening, late>>
allVars == <<vars, serverVars>>

AccLabels == {"test", "accept", "sleeping", "leaving", "closed"}

\* main() up to thread_pool_init: the signal handlers are in place and the
\* socket listens, so both signals and connections may come from now on.
ServerInit ==
  /\ Init
  /\ g_running = TRUE
  /\ acc = "test"
  /\ arrivals = 0
  /\ backlog = 0
  /\ open = {}
  /\ fd = [c \in Connections |-> NoFd]
  /\ listening = TRUE
  /\ late = 0

InLoop(label) == pc[Main] = "idle" /\ acc = label

-----------------------------------------------------------------------------
(* The kernel and the clients.                                             *)

Arrive ==
  /\ listening
  /\ arrivals < MaxSubmits
  /\ backlog < BACKLOG
  /\ arrivals' = arrivals + 1
  /\ backlog' = backlog + 1
  /\ UNCHANGED <<vars, g_running, acc, open, fd, listening, late>>

\* SIGINT or SIGTERM.  The handler clears the flag; only an accept() that is
\* asleep in the main thread with nothing to return is interrupted (EINTR, as
\* sa_flags has no SA_RESTART), and then main breaks out of its loop.
SignalWakesAccept(t) == t = Main /\ InLoop("sleeping") /\ backlog = 0

signal_handler(t) ==
  /\ acc # "closed"
  /\ g_running' = FALSE
  /\ acc' = IF SignalWakesAccept(t) THEN "leaving" ELSE acc
  /\ UNCHANGED <<vars, arrivals, backlog, open, fd, listening, late>>

-----------------------------------------------------------------------------
(* The accept loop.                                                        *)

\* Faulty variant: for (;;) instead of while (g_running).
LoopForever ==
  /\ InLoop("test")
  /\ acc' = "accept"
  /\ UNCHANGED <<vars, g_running, arrivals, backlog, open, fd, listening, late>>

LoopTest ==
  /\ InLoop("test")
  /\ acc' = IF g_running THEN "accept" ELSE "leaving"
  /\ UNCHANGED <<vars, g_running, arrivals, backlog, open, fd, listening, late>>

AcceptBlocks ==
  /\ InLoop("accept")
  /\ backlog = 0
  /\ open # FDs
  /\ acc' = "sleeping"
  /\ UNCHANGED <<vars, g_running, arrivals, backlog, open, fd, listening, late>>

\* accept() returns a descriptor and main calls thread_pool_submit with it.
AcceptReturns ==
  /\ InLoop("accept") \/ InLoop("sleeping")
  /\ backlog > 0
  /\ \E f \in FDs \ open :
       /\ open' = open \cup {f}
       /\ fd' = [fd EXCEPT ![submitted + 1] = f]
  /\ SubmitCall
  /\ backlog' = backlog - 1
  /\ acc' = "test"
  /\ late' = IF g_running THEN late ELSE late + 1
  /\ UNCHANGED <<g_running, arrivals, listening>>

\* Faulty variant: a failure for want of a descriptor drops a connection.
FailureDrops ==
  /\ InLoop("accept")
  /\ open = FDs
  /\ backlog' = backlog - 1
  /\ acc' = "test"
  /\ UNCHANGED <<vars, g_running, arrivals, open, fd, listening, late>>

\* accept() fails for any reason but EINTR: no descriptor is left (EMFILE), or
\* the connection at hand is gone (ECONNABORTED).  main logs it and continues.
AcceptFails ==
  /\ \/ /\ InLoop("accept")
        /\ open = FDs
        /\ UNCHANGED backlog
     \/ /\ InLoop("accept") \/ InLoop("sleeping")
        /\ backlog > 0
        /\ backlog' = backlog - 1
  /\ acc' = "test"
  /\ UNCHANGED <<vars, g_running, arrivals, open, fd, listening, late>>

CallDestroy ==
  /\ InLoop("leaving")
  /\ DestroyCall
  /\ UNCHANGED serverVars

\* close(server_fd) and return from main.
CloseListener ==
  /\ pc[Main] = "done"
  /\ acc = "leaving"
  /\ listening' = FALSE
  /\ acc' = "closed"
  /\ UNCHANGED <<vars, g_running, arrivals, backlog, open, fd, late>>

-----------------------------------------------------------------------------
(* The pool's own steps, with what they do to descriptors.                 *)

\* thread_pool_submit closes the descriptor of a connection it rejects.
FinishSubmit ==
  /\ SubmitFinish
  /\ open' = IF shutdown THEN open \ {fd[submitted]} ELSE open
  /\ UNCHANGED <<g_running, acc, arrivals, backlog, fd, listening, late>>

\* Faulty variant: handle_connection() returns without its close().
LeakOnReturn(w) == HandleClient(w) /\ UNCHANGED serverVars

\* handle_connection() always ends with close(client_fd).
HandleAndClose(w) ==
  /\ HandleClient(w)
  /\ open' = open \ {fd[item[w]]}
  /\ UNCHANGED <<g_running, acc, arrivals, backlog, fd, listening, late>>

\* Faulty variant: the worker closes the descriptor once more.
CloseAgain(w) ==
  /\ WorkerLoop(w)
  /\ open' = open \ {fd[item[w]]}
  /\ UNCHANGED <<g_running, acc, arrivals, backlog, fd, listening, late>>

\* Back in worker_thread, which must not close the descriptor again.
AfterHandle(w) == WorkerLoop(w) /\ UNCHANGED serverVars

PoolStep ==
  /\ \/ CreateWorker \/ InitReturn \/ SubmitAcquire \/ SubmitWait
     \/ DestroyRead \/ DestroyAcquire \/ DestroySet \/ Join \/ DestroyReturn
     \/ SpuriousWakeup
     \/ \E w \in Workers : WorkerAcquire(w) \/ WorkerWait(w) \/ WorkerExit(w) \/ WorkerTake(w)
  /\ UNCHANGED serverVars

\* The process has exited.
Exited == acc = "closed" /\ UNCHANGED allVars

ServerNext ==
  \/ Arrive
  \/ \E t \in SignalTargets : signal_handler(t)
  \/ LoopTest \/ AcceptBlocks \/ AcceptReturns \/ AcceptFails
  \/ CallDestroy \/ CloseListener
  \/ FinishSubmit
  \/ \E w \in Workers : HandleAndClose(w) \/ AfterHandle(w)
  \/ PoolStep
  \/ Exited

ServerSpec == ServerInit /\ [][ServerNext]_allVars

(* The fairness of ThreadPool, and main goes on in its loop when it can.    *)
(* Clients need not come and signals need not be sent; accept() need not    *)
(* fail (AcceptFails is listed for its EMFILE case, where it is all that    *)
(* main can do).                                                            *)
ServerMainStep ==
  \/ LoopTest \/ AcceptBlocks \/ AcceptReturns \/ AcceptFails
  \/ CallDestroy \/ CloseListener \/ FinishSubmit
  \/ (MainStep /\ UNCHANGED serverVars)

ServerWorkerStep(w) ==
  \/ HandleAndClose(w) \/ AfterHandle(w)
  \/ ((WorkerWait(w) \/ WorkerExit(w) \/ WorkerTake(w)) /\ UNCHANGED serverVars)

ServerFairness ==
  /\ WF_allVars(ServerMainStep)
  /\ SF_allVars(SubmitAcquire /\ UNCHANGED serverVars)
  /\ SF_allVars(DestroyAcquire /\ UNCHANGED serverVars)
  /\ \A w \in Workers :
       /\ WF_allVars(ServerWorkerStep(w))
       /\ SF_allVars(WorkerAcquire(w) /\ UNCHANGED serverVars)

FairServerSpec == ServerSpec /\ ServerFairness

-----------------------------------------------------------------------------
(* Properties.                                                             *)

\* Connections accepted and not yet closed by their worker.
InFlight == (1 .. submitted) \ (served \cup rejected)

\* Types of the variables.
ServerTypeOK ==
  /\ TypeOK
  /\ g_running \in BOOLEAN
  /\ acc \in AccLabels
  /\ arrivals \in 0 .. MaxSubmits
  /\ backlog \in 0 .. BACKLOG
  /\ open \subseteq FDs
  /\ fd \in [Connections -> FDs \cup {NoFd}]
  /\ listening \in BOOLEAN
  /\ late \in 0 .. MaxSubmits

\* A descriptor is open exactly as long as its connection is in flight, and no
\* two connections in flight share one: none leaks, and none is closed under
\* the connection that was given its number next.
DescriptorsOwned ==
  /\ open = {fd[c] : c \in InFlight}
  /\ \A c, d \in InFlight : fd[c] = fd[d] => c = d

\* After the signal handler has cleared g_running at most one more connection
\* is accepted, whichever instruction of the loop the signal hits.
AtMostOneMore == late <= 1

\* When the process exits, every connection it accepted was served and every
\* descriptor is closed, however the signal and the queue raced.
CleanExit ==
  acc = "closed" => served = 1 .. submitted /\ open = {} /\ ~listening

\* The accepted connections never need more descriptors than the queue, the
\* workers and the one main has in hand.
DescriptorsBounded ==
  Cardinality(open) <= QUEUE_CAPACITY + THREAD_POOL_SIZE + 1

\* While the server runs, every connection that arrives leaves the kernel's
\* queue, also after a time without a free descriptor.
EveryArrivalAccepted ==
  \A k \in 1 .. MaxSubmits : (arrivals >= k) ~> (arrivals - backlog >= k \/ ~g_running)

\* A signal that finds main anywhere but on its way into accept() ends the
\* process: also one that comes while main waits for a place in the queue.
SignalStops ==
  (~g_running /\ acc \notin {"accept", "sleeping"}) ~> (acc = "closed")

\* README.md of graceful shutdown: SIGINT/SIGTERM sets a flag that breaks the
\* accept loop cleanly: a signal always ends the process.
SignalAlwaysStops == ~g_running ~> (acc = "closed")
=============================================================================
