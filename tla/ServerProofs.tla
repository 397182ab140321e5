---------------------------- MODULE ServerProofs ----------------------------
(***************************************************************************)
(* The accept loop: every step of the server is a step of the pool or      *)
(* leaves it alone, so what is proved of the pool holds in the server; and *)
(* the descriptors, the late connections and the exit are as promised, for *)
(* every number of workers, capacity, backlog and set of descriptors.      *)
(***************************************************************************)
EXTENDS Server, ThreadPoolProofs

-----------------------------------------------------------------------------
(* The server uses the pool as the pool expects.                           *)

\* Each step of the server is a step of the pool or leaves the pool alone.
LEMMA ServerStepsPool == [ServerNext]_allVars => [Next]_vars
<1> SUFFICES ASSUME [ServerNext]_allVars PROVE [Next]_vars
  OBVIOUS
<1>1. CASE Arrive \/ LoopTest \/ AcceptBlocks \/ AcceptFails \/ CloseListener \/ Exited
           \/ UNCHANGED allVars
  BY <1>1 DEF Arrive, LoopTest, AcceptBlocks, AcceptFails, CloseListener, Exited, allVars
<1>2. ASSUME NEW t \in SignalTargets, signal_handler(t) PROVE UNCHANGED vars
  BY <1>2 DEF signal_handler
<1>3. CASE AcceptReturns \/ CallDestroy \/ FinishSubmit
  BY <1>3 DEF AcceptReturns, CallDestroy, FinishSubmit, Next, MainNext
<1>4. ASSUME NEW w \in Workers, HandleAndClose(w) \/ AfterHandle(w) PROVE Next
  BY <1>4 DEF HandleAndClose, AfterHandle, Next, WorkerNext
<1>5. CASE PoolStep
  BY <1>5 DEF PoolStep, Next, MainNext, WorkerNext
<1> QED
  BY <1>1, <1>2, <1>3, <1>4, <1>5 DEF ServerNext

\* The server is a correct client of the pool: it implements the pool's
\* specification, so every theorem about ThreadPool holds of the server.
THEOREM UsesPool == ServerSpec => Spec
<1>1. ServerInit => Init
  BY DEF ServerInit
<1> QED
  BY <1>1, ServerStepsPool, PTL DEF ServerSpec, Spec

\* What the pool keeps by itself it keeps inside the server.
LEMMA PoolInvariance == ServerSpec => []IndInv
  BY UsesPool, Invariance, PTL

-----------------------------------------------------------------------------
(* The server's part of the inductive invariant.                           *)

LoopTypes ==
  /\ g_running \in BOOLEAN
  /\ acc \in AccLabels
  /\ arrivals \in 0 .. MaxSubmits
  /\ backlog \in 0 .. BACKLOG
  /\ open \subseteq FDs
  /\ fd \in [Connections -> FDs \cup {NoFd}]
  /\ listening \in BOOLEAN
  /\ late \in 0 .. 1 /\ late <= MaxSubmits

\* The one late connection has taken main out of accept().
LateInv ==
  /\ g_running => late = 0
  /\ late = 1 => acc \notin {"accept", "sleeping"}

\* The process exits only after the pool is gone.
ExitInv ==
  /\ acc = "closed" => pc[Main] = "done" /\ ~listening

ServerInv == LoopTypes /\ LateInv /\ ExitInv /\ DescriptorsOwned

\* InFlight does not depend on rejected, as nothing is ever rejected, and
\* accepted connections have numbers of submits.
LEMMA InFlightFacts ==
  ASSUME IndInv
  PROVE  /\ InFlight = (1 .. submitted) \ served
         /\ submitted \in 0 .. MaxSubmits
         /\ 1 .. submitted \subseteq Connections
         /\ served \subseteq 1 .. submitted
<1>1. rejected = {} /\ submitted \in 0 .. MaxSubmits
  BY DEF IndInv, Control, TypeOK
<1>2. Taken \in 0 .. submitted
  BY <1>1, CountFacts, PoolAssumption DEF Pushed
<1>3. served \subseteq 1 .. submitted
  BY <1>1, <1>2, PoolAssumption DEF IndInv, Serving
<1>4. 1 .. submitted \subseteq Connections
  BY <1>1, PoolAssumption DEF Connections
<1> QED
  BY <1>1, <1>3, <1>4 DEF InFlight

\* A step that leaves the connections and the descriptors alone.
LEMMA OwnedFrame ==
  ASSUME DescriptorsOwned, submitted' = submitted, served' = served, rejected' = rejected,
         open' = open, fd' = fd
  PROVE  DescriptorsOwned'
  BY DEF DescriptorsOwned, InFlight

\* The server starts with its invariant: no descriptor is open.
LEMMA ServerInitInv == ServerInit => ServerInv
<1> SUFFICES ASSUME ServerInit PROVE ServerInv
  OBVIOUS
<1>1. LoopTypes
  BY PoolAssumption, ServerAssumption DEF ServerInit, LoopTypes, AccLabels
<1>2. InFlight = {} /\ open = {}
  BY DEF ServerInit, Init, InFlight
<1>3. DescriptorsOwned
  BY <1>2 DEF DescriptorsOwned
<1> QED
  BY <1>1, <1>3 DEF ServerInit, ServerInv, LateInv, ExitInv

\* Where a step of the pool finds main, and where it leaves it.
LEMMA DoneStays == IndInv /\ [Next]_vars /\ pc[Main] = "done" => pc'[Main] = "done"
<1> SUFFICES ASSUME IndInv, [Next]_vars, pc[Main] = "done" PROVE pc'[Main] = "done"
  OBVIOUS
<1> TypeOK
  BY DEF IndInv
<1>1. ~MainNext
  BY DEF MainNext, CreateWorker, InitReturn, SubmitCall, SubmitAcquire, SubmitWait,
         SubmitFinish, DestroyCall, DestroyRead, DestroyAcquire, DestroySet, Join, DestroyReturn
<1>2. ASSUME NEW w \in Workers, WorkerNext(w) PROVE pc'[Main] = pc[Main]
  BY <1>2, ThreadFacts
  DEF WorkerNext, WorkerAcquire, WorkerWait, WorkerExit, WorkerTake, HandleClient,
      WorkerLoop, Goto, TypeOK
<1>3. CASE SpuriousWakeup \/ UNCHANGED vars
  BY <1>3 DEF SpuriousWakeup, vars
<1> QED
  BY <1>1, <1>2, <1>3 DEF Next, Terminated

\* A descriptor that accept() returns is a new one, owned by main.
LEMMA OwnedAccept ==
  ASSUME IndInv, LoopTypes, DescriptorsOwned, AcceptReturns
  PROVE  DescriptorsOwned' /\ open' \subseteq FDs /\ fd' \in [Connections -> FDs \cup {NoFd}]
<1> DEFINE n == submitted + 1
<1>1. PICK f \in FDs \ open : open' = open \cup {f} /\ fd' = [fd EXCEPT ![n] = f]
  BY DEF AcceptReturns
<1>2. /\ submitted' = n /\ served' = served /\ rejected' = rejected
      /\ submitted < MaxSubmits
  BY DEF AcceptReturns, SubmitCall
<1>3. n \in Connections /\ n \notin InFlight /\ n \notin served
  BY <1>2, InFlightFacts, PoolAssumption DEF Connections
<1>4. InFlight' = InFlight \cup {n}
  <2>1. 1 .. n = (1 .. submitted) \cup {n}
    BY InFlightFacts
  <2>2. rejected = {}
    BY DEF IndInv, Control
  <2> QED
    BY <1>2, <1>3, <2>1, <2>2 DEF InFlight
<1>5. InFlight \subseteq Connections
  BY InFlightFacts
<1> HIDE DEF n
<1>6. fd'[n] = f /\ \A c \in InFlight : fd'[c] = fd[c]
  BY <1>1, <1>3, <1>5 DEF LoopTypes
<1>7. \A c \in InFlight : fd[c] # f
  BY <1>1 DEF DescriptorsOwned
<1>8. open' = {fd'[c] : c \in InFlight'}
  <2>1. open = {fd'[c] : c \in InFlight}
    BY <1>6 DEF DescriptorsOwned
  <2> QED
    BY <1>1, <1>4, <1>6, <2>1
<1>9. \A c, d \in InFlight' : fd'[c] = fd'[d] => c = d
  BY <1>4, <1>6, <1>7 DEF DescriptorsOwned
<1>10. open' \subseteq FDs /\ fd' \in [Connections -> FDs \cup {NoFd}]
  BY <1>1 DEF LoopTypes
<1> QED
  BY <1>8, <1>9, <1>10 DEF DescriptorsOwned

\* A worker that closes its connection was the only owner of that descriptor.
LEMMA OwnedClose ==
  ASSUME IndInv, DescriptorsOwned, NEW w \in Workers, HandleAndClose(w)
  PROVE  DescriptorsOwned' /\ open' \subseteq open
<1> DEFINE k == item[w]
<1>1. /\ served' = served \cup {k} /\ submitted' = submitted /\ rejected' = rejected
      /\ open' = open \ {fd[k]} /\ fd' = fd /\ pc[w] = "handle"
  BY DEF HandleAndClose, HandleClient
<1>2. k \in InFlight
  <2>1. k \in 1 .. Taken /\ k \notin served
    BY <1>1 DEF IndInv, Serving, Handling
  <2>2. Taken \in 0 .. submitted
    BY CountFacts, InFlightFacts, PoolAssumption DEF Pushed
  <2> QED
    BY <2>1, <2>2, InFlightFacts, PoolAssumption
<1>3. InFlight' = InFlight \ {k}
  BY <1>1 DEF InFlight
<1> HIDE DEF k
<1>4. open' = {fd'[c] : c \in InFlight'}
  BY <1>1, <1>2, <1>3 DEF DescriptorsOwned
<1> QED
  BY <1>1, <1>3, <1>4 DEF DescriptorsOwned

\* Every step of the server keeps the owners, the late connections and the exit as
\* promised.
LEMMA ServerInvStep == IndInv /\ ServerInv /\ [ServerNext]_allVars => ServerInv'
<1> SUFFICES ASSUME IndInv, ServerInv, [ServerNext]_allVars PROVE ServerInv'
  OBVIOUS
<1> LoopTypes /\ LateInv /\ ExitInv /\ DescriptorsOwned
  BY DEF ServerInv
<1>d. pc[Main] = "done" => pc'[Main] = "done"
  BY ServerStepsPool, DoneStays
<1>1. CASE Arrive
  <2>1. DescriptorsOwned'
    BY <1>1, OwnedFrame DEF Arrive, vars
  <2> QED
    BY <1>1, <1>d, <2>1, PoolAssumption, ServerAssumption
    DEF Arrive, ServerInv, LoopTypes, LateInv, ExitInv, AccLabels
<1>2. ASSUME NEW t \in SignalTargets, signal_handler(t) PROVE ServerInv'
  <2>1. DescriptorsOwned'
    BY <1>2, OwnedFrame DEF signal_handler, vars
  <2> QED
    BY <1>2, <1>d, <2>1 DEF signal_handler, ServerInv, LoopTypes, LateInv, ExitInv, AccLabels
<1>3. CASE LoopTest
  <2>1. DescriptorsOwned'
    BY <1>3, OwnedFrame DEF LoopTest, vars
  <2> QED
    BY <1>3, <1>d, <2>1 DEF LoopTest, ServerInv, LoopTypes, LateInv, ExitInv, AccLabels
<1>4. CASE AcceptBlocks
  <2>1. DescriptorsOwned'
    BY <1>4, OwnedFrame DEF AcceptBlocks, vars
  <2> QED
    BY <1>4, <1>d, <2>1 DEF AcceptBlocks, InLoop, ServerInv, LoopTypes, LateInv, ExitInv, AccLabels
<1>5. CASE AcceptReturns
  <2>1. DescriptorsOwned' /\ open' \subseteq FDs /\ fd' \in [Connections -> FDs \cup {NoFd}]
    BY <1>5, OwnedAccept
  <2>2. late = 0
    BY <1>5 DEF AcceptReturns, InLoop, LateInv, LoopTypes
  <2>3. backlog' \in 0 .. BACKLOG
    BY <1>5, ServerAssumption DEF AcceptReturns, LoopTypes
  <2>4. /\ late' \in 0 .. 1 /\ late' <= MaxSubmits
        /\ g_running' => late' = 0
        /\ acc' = "test"
    <3>1. 1 <= MaxSubmits
      BY <1>5, InFlightFacts, PoolAssumption DEF AcceptReturns, SubmitCall
    <3> QED
      BY <1>5, <2>2, <3>1, PoolAssumption DEF AcceptReturns
  <2> QED
    BY <1>5, <2>1, <2>3, <2>4 DEF AcceptReturns, ServerInv, LoopTypes, LateInv, ExitInv, AccLabels
<1>6. CASE AcceptFails
  <2>1. DescriptorsOwned'
    BY <1>6, OwnedFrame DEF AcceptFails, vars
  <2>2. backlog' \in 0 .. BACKLOG
    BY <1>6, ServerAssumption DEF AcceptFails, LoopTypes
  <2> QED
    BY <1>6, <1>d, <2>1, <2>2 DEF AcceptFails, ServerInv, LoopTypes, LateInv, ExitInv, AccLabels
<1>7. CASE CloseListener
  <2>1. DescriptorsOwned'
    BY <1>7, OwnedFrame DEF CloseListener, vars
  <2> QED
    BY <1>7, <1>d, <2>1 DEF CloseListener, ServerInv, LoopTypes, LateInv, ExitInv, AccLabels
<1>8. CASE FinishSubmit
  <2>1. ~shutdown
    BY <1>8 DEF FinishSubmit, SubmitFinish, IndInv, Control
  <2>2. DescriptorsOwned'
    BY <1>8, <2>1, OwnedFrame DEF FinishSubmit, SubmitFinish
  <2> QED
    BY <1>8, <1>d, <2>1, <2>2 DEF FinishSubmit, ServerInv, LoopTypes, LateInv, ExitInv
<1>9. ASSUME NEW w \in Workers, HandleAndClose(w) PROVE ServerInv'
  <2>1. DescriptorsOwned' /\ open' \subseteq open
    BY <1>9, OwnedClose
  <2> QED
    BY <1>9, <1>d, <2>1 DEF HandleAndClose, ServerInv, LoopTypes, LateInv, ExitInv
<1>10. ASSUME UNCHANGED serverVars, submitted' = submitted, served' = served, rejected' = rejected
       PROVE  ServerInv'
  <2>1. DescriptorsOwned'
    BY <1>10, OwnedFrame DEF serverVars
  <2> QED
    BY <1>10, <1>d, <2>1 DEF serverVars, ServerInv, LoopTypes, LateInv, ExitInv
<1>11. CASE CallDestroy \/ PoolStep \/ Exited \/ UNCHANGED allVars
  <2>1. UNCHANGED serverVars /\ submitted' = submitted /\ served' = served /\ rejected' = rejected
    BY <1>11
    DEF CallDestroy, DestroyCall, PoolStep, Exited, allVars, vars, CreateWorker, InitReturn,
        SubmitAcquire, SubmitWait, DestroyRead, DestroyAcquire, DestroySet, Join, DestroyReturn,
        SpuriousWakeup, WorkerAcquire, WorkerWait, WorkerExit, WorkerTake
  <2> QED
    BY <1>10, <2>1
<1>12. ASSUME NEW w \in Workers, AfterHandle(w) PROVE ServerInv'
  BY <1>10, <1>12 DEF AfterHandle, WorkerLoop
<1> QED
  BY <1>1, <1>2, <1>3, <1>4, <1>5, <1>6, <1>7, <1>8, <1>9, <1>11, <1>12 DEF ServerNext

\* The inductive invariant of the server holds for every number of workers, capacity,
\* backlog and set of descriptors.
THEOREM ServerInvariance == ServerSpec => [](IndInv /\ ServerInv)
<1>1. ServerSpec => []ServerInv
  BY ServerInitInv, ServerInvStep, PoolInvariance, PTL DEF ServerSpec
<1> QED
  BY <1>1, PoolInvariance, PTL

\* No descriptor leaks, none is shared, none is closed under its next owner.
THEOREM OwnDescriptors == ServerSpec => []DescriptorsOwned
<1>1. IndInv /\ ServerInv => DescriptorsOwned
  BY DEF ServerInv
<1> QED
  BY <1>1, ServerInvariance, PTL

\* At most one connection is accepted after the signal.
THEOREM OneMore == ServerSpec => []AtMostOneMore
<1>1. IndInv /\ ServerInv => AtMostOneMore
  BY DEF ServerInv, LoopTypes, AtMostOneMore
<1> QED
  BY <1>1, ServerInvariance, PTL

\* The variables of the server have the types given.
THEOREM ServerTypeCorrect == ServerSpec => []ServerTypeOK
<1>1. IndInv /\ ServerInv => ServerTypeOK
  BY PoolAssumption DEF IndInv, ServerInv, LoopTypes, ServerTypeOK
<1> QED
  BY <1>1, ServerInvariance, PTL

-----------------------------------------------------------------------------
(* How many descriptors are needed.                                        *)

\* The union of two finite sets is no larger than both together.
LEMMA UnionBounded ==
  ASSUME NEW S, IsFiniteSet(S), NEW T, IsFiniteSet(T)
  PROVE  /\ IsFiniteSet(S \cup T)
         /\ Cardinality(S \cup T) \in Nat
         /\ Cardinality(S \cup T) <= Cardinality(S) + Cardinality(T)
<1>1. IsFiniteSet(S \cap T) /\ S \cap T \in SUBSET S
  BY FS_Subset
<1>2. /\ Cardinality(S) \in Nat /\ Cardinality(T) \in Nat
      /\ Cardinality(S \cap T) \in Nat
  BY <1>1, FS_CardinalityType
<1>3. /\ IsFiniteSet(S \cup T)
      /\ Cardinality(S \cup T) = Cardinality(S) + Cardinality(T) - Cardinality(S \cap T)
  BY FS_Union
<1>4. Cardinality(S \cup T) \in Nat
  BY <1>3, FS_CardinalityType
<1> QED
  BY <1>2, <1>3, <1>4

\* Where a connection in flight is: in main's hand, in the queue, or with a worker.
LEMMA InFlightPlaces ==
  ASSUME IndInv
  PROVE  InFlight \subseteq
           {submitted} \cup (Taken + 1 .. Pushed) \cup {item[w] : w \in Workers}
<1> SUFFICES ASSUME NEW c \in InFlight, c # submitted, c \notin {item[w] : w \in Workers}
             PROVE  c \in Taken + 1 .. Pushed
  OBVIOUS
<1>1. c \in 1 .. submitted /\ c \notin served /\ submitted \in Nat
  BY InFlightFacts
<1>2. Pushed \in Nat /\ Taken \in Nat /\ (Pushed = submitted \/ Pushed = submitted - 1)
  BY CountFacts, PoolAssumption DEF Pushed
<1>3. c \notin 1 .. Taken
  BY <1>1 DEF IndInv, Serving
<1> QED
  BY <1>1, <1>2, <1>3

\* One place for main, QUEUE_CAPACITY in the ring and one for each worker.
LEMMA InFlightBounded ==
  ASSUME IndInv
  PROVE  IsFiniteSet(InFlight) /\ Cardinality(InFlight) <= QUEUE_CAPACITY + THREAD_POOL_SIZE + 1
<1> DEFINE inRing == Taken + 1 .. Pushed
           inHand == {item[w] : w \in Workers}
<1>1. /\ IsFiniteSet(inRing) /\ Cardinality(inRing) \in Nat
      /\ Cardinality(inRing) <= QUEUE_CAPACITY
  <2>1. /\ Taken \in Int /\ Pushed \in Int /\ Taken <= Pushed
        /\ Pushed - Taken = queue.count /\ queue.count <= QUEUE_CAPACITY
    BY CountFacts, CapacityAssumption, PoolAssumption DEF Taken
  <2>2. Taken + 1 \in Int
    BY <2>1
  <2>3. /\ IsFiniteSet(inRing)
        /\ Cardinality(inRing) = IF Taken + 1 > Pushed THEN 0 ELSE Pushed - (Taken + 1) + 1
    BY <2>1, <2>2, FS_Interval
  <2> QED
    BY <2>1, <2>3, CapacityAssumption
<1>2. /\ IsFiniteSet(inHand) /\ Cardinality(inHand) \in Nat
      /\ Cardinality(inHand) <= THREAD_POOL_SIZE
  <2>1. IsFiniteSet(Workers) /\ Cardinality(Workers) = THREAD_POOL_SIZE
    BY FS_Interval, PoolAssumption DEF Workers
  <2>2. [w \in Workers |-> item[w]] \in Surjection(Workers, inHand)
    BY DEF Surjection
  <2> QED
    BY <2>1, <2>2, FS_Surjection, FS_CardinalityType
<1>3. IsFiniteSet({submitted}) /\ Cardinality({submitted}) = 1
  BY FS_Singleton
<1> HIDE DEF inRing, inHand
<1>4. /\ IsFiniteSet({submitted} \cup inRing)
      /\ Cardinality({submitted} \cup inRing) \in Nat
      /\ Cardinality({submitted} \cup inRing) <= QUEUE_CAPACITY + 1
  BY <1>1, <1>3, UnionBounded, CapacityAssumption
<1>5. /\ IsFiniteSet({submitted} \cup inRing \cup inHand)
      /\ Cardinality({submitted} \cup inRing \cup inHand)
           <= QUEUE_CAPACITY + THREAD_POOL_SIZE + 1
  BY <1>2, <1>4, UnionBounded, CapacityAssumption, PoolAssumption
<1>6. InFlight \subseteq {submitted} \cup inRing \cup inHand
  BY InFlightPlaces DEF inRing, inHand
<1>7. IsFiniteSet(InFlight) /\ Cardinality(InFlight) <= Cardinality({submitted} \cup inRing \cup inHand)
  BY <1>5, <1>6, FS_Subset
<1> QED
  BY <1>5, <1>7, FS_CardinalityType, CapacityAssumption, PoolAssumption

\* Blocking in thread_pool_submit is all that bounds the descriptors in use,
\* and it is enough.
THEOREM DescriptorsFew == ServerSpec => []DescriptorsBounded
<1>1. ASSUME IndInv, ServerInv PROVE DescriptorsBounded
  <2>1. open = {fd[c] : c \in InFlight}
    BY <1>1 DEF ServerInv, DescriptorsOwned
  <2>2. [c \in InFlight |-> fd[c]] \in Surjection(InFlight, open)
    BY <2>1 DEF Surjection
  <2>3. IsFiniteSet(InFlight) /\ Cardinality(InFlight) <= QUEUE_CAPACITY + THREAD_POOL_SIZE + 1
    BY <1>1, InFlightBounded
  <2>4. IsFiniteSet(open) /\ Cardinality(open) <= Cardinality(InFlight)
    BY <2>2, <2>3, FS_Surjection
  <2> QED
    BY <2>3, <2>4, FS_CardinalityType, CapacityAssumption, PoolAssumption DEF DescriptorsBounded
<1>2. IndInv /\ ServerInv => DescriptorsBounded
  BY <1>1
<1> QED
  BY <1>2, ServerInvariance, PTL

-----------------------------------------------------------------------------
\* The process exits with everybody served and everything closed.
THEOREM ExitsClean == ServerSpec => []CleanExit
<1>1. ASSUME IndInv, ServerInv, GracefulDrain, acc = "closed"
      PROVE  served = 1 .. submitted /\ open = {} /\ ~listening
  <2>1. pc[Main] = "done" /\ ~listening
    BY <1>1 DEF ServerInv, ExitInv
  <2>2. served = 1 .. submitted
    BY <1>1, <2>1 DEF GracefulDrain
  <2>3. InFlight = {}
    BY <2>2 DEF InFlight
  <2> QED
    BY <1>1, <2>1, <2>2, <2>3 DEF ServerInv, DescriptorsOwned
<1>2. IndInv /\ ServerInv /\ GracefulDrain => CleanExit
  BY <1>1 DEF CleanExit
<1>3. ServerSpec => []GracefulDrain
  BY UsesPool, Drained, PTL
<1> QED
  BY <1>2, <1>3, ServerInvariance, PTL
=============================================================================
