SPECIFICATION SafeSpec
CONSTANTS
  w1 = w1  w2 = w2  w3 = w3
  Works = {w1}
  Clients = {c1}
  Threads = {t1, t2}
  Free = Free
  NoWork = NoWork
  NProcs = 2
  MULTIPLE_CPUS = 1
  FuncFlushes <- NoFlushes
  FlushReloads = TRUE
  InitMayFail = TRUE
  MaxCalls = 1
  MaxSpurious = 0
INVARIANT CondOutlivesWorkers
