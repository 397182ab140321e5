---------------------------- MODULE PoolService ----------------------------
(***************************************************************************)
(* What the thread pool promises to the accept loop: a first-come          *)
(* first-served waiting room of Capacity places in front of a set of       *)
(* servers.  Nobody is refused or forgotten, each customer gets one        *)
(* server, and once the door is closed the pool stops when, and only when, *)
(* everybody who came in has been served.  Threads, mutex, condition       *)
(* variables and the ring buffer are left to ThreadPool, which implements  *)
(* this.                                                                   *)
(***************************************************************************)
EXTENDS Integers, FiniteSets

CONSTANTS Servers, Capacity

Nobody == 0

VARIABLES
  arrived,   \* customers 1 .. arrived have come in
  started,   \* customers 1 .. started have been called to a server
  serving,   \* the customer each server attends to, or Nobody
  finished,  \* customers whose service is over
  open,      \* may customers still come in
  stopped    \* the pool has stopped

serviceVars == <<arrived, started, serving, finished, open, stopped>>

Init ==
  /\ arrived = 0
  /\ started = 0
  /\ serving = [s \in Servers |-> Nobody]
  /\ finished = {}
  /\ open = TRUE
  /\ stopped = FALSE

Admit ==
  /\ open
  /\ arrived - started < Capacity
  /\ arrived' = arrived + 1
  /\ UNCHANGED <<started, serving, finished, open, stopped>>

Begin(s) ==
  /\ serving[s] = Nobody
  /\ started < arrived
  /\ started' = started + 1
  /\ serving' = [serving EXCEPT ![s] = started + 1]
  /\ UNCHANGED <<arrived, finished, open, stopped>>

Finish(s) ==
  /\ serving[s] # Nobody
  /\ finished' = finished \cup {serving[s]}
  /\ serving' = [serving EXCEPT ![s] = Nobody]
  /\ UNCHANGED <<arrived, started, open, stopped>>

Close ==
  /\ open
  /\ open' = FALSE
  /\ UNCHANGED <<arrived, started, serving, finished, stopped>>

Stop ==
  /\ ~open /\ ~stopped
  /\ finished = 1 .. arrived
  /\ stopped' = TRUE
  /\ UNCHANGED <<arrived, started, serving, finished, open>>

Next == Admit \/ Close \/ Stop \/ \E s \in Servers : Begin(s) \/ Finish(s)

Spec == Init /\ [][Next]_serviceVars
=============================================================================
