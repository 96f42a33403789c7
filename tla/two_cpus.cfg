SPECIFICATION Spec
CONSTANTS
  w1 = w1  w2 = w2  w3 = w3
  Works = {w1, w2}
  Clients = {c1}
  Threads = {t1, t2, t3, t4}
  Free = Free
  NoWork = NoWork
  NProcs = 2
  MULTIPLE_CPUS = 2
  FuncFlushes <- W1FlushesW2
  FlushReloads = TRUE
  InitMayFail = TRUE
  MaxCalls = 3
  MaxSpurious = 1
INVARIANT IInv
PROPERTIES QueuedWorkIsDone FlushReturns DestroyReturns ImplementsPool
