SPECIFICATION Spec
CONSTANTS
  THREAD_POOL_SIZE = 3
  QUEUE_CAPACITY = 2
  MaxSubmits = 5
INVARIANTS
  TypeOK
  MutualExclusion
  FirstInFirstOut
  ExactlyOnce
  NoLostWakeup
  SleepsOnlyWhenFull
  GracefulDrain
PROPERTIES
  ShutdownIsFinal
  ImplementsService
