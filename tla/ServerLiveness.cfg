SPECIFICATION FairServerSpec
CONSTANTS
  THREAD_POOL_SIZE = 2
  QUEUE_CAPACITY = 1
  MaxSubmits = 3
  BACKLOG = 2
  f1 = f1
  f2 = f2
  f3 = f3
  f4 = f4
  f5 = f5
  NoFd = NoFd
  FDs <- TwoFDs
  SignalTargets <- MainOnly
INVARIANT ServerTypeOK
PROPERTIES
  EverySubmittedServed
  SubmitReturns
  DestroyReturns
  EveryArrivalAccepted
  SignalStops
