SPECIFICATION FairServerSpec
CONSTANTS
  THREAD_POOL_SIZE = 1
  QUEUE_CAPACITY = 1
  MaxSubmits = 2
  BACKLOG = 2
  f1 = f1
  f2 = f2
  f3 = f3
  f4 = f4
  f5 = f5
  NoFd = NoFd
  FDs <- TwoFDs
  SignalTargets <- MainOnly
PROPERTY SignalAlwaysStops
