SPECIFICATION Spec
CONSTANTS
  w1 = w1  w2 = w2  w3 = w3
  Works = {w1, w2}
  Clients = {c1}
  Threads = {t1, t2}
  Free = Free
  NoWork = NoWork
  NProcs = 1
  MULTIPLE_CPUS = 3
  FuncFlushes <- W1FlushesW2
  FlushReloads = TRUE
  InitMayFail = FALSE
  MaxCalls = 3
  MaxSpurious = 0
PROPERTY PoolGrows
CHECK_DEADLOCK FALSE
