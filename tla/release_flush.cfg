SPECIFICATION Spec
CONSTANTS
  w1 = w1  w2 = w2  w3 = w3
  Works = {w1}
  Clients = {c1}
  Threads = {t1, t2}
  Free = Free
  NoWork = NoWork
  NProcs = 1
  MULTIPLE_CPUS = 3
  FuncFlushes <- NoFlushes
  FlushReloads = FALSE
  InitMayFail = FALSE
  MaxCalls = 2
  MaxSpurious = 0
PROPERTY FlushReturns
CHECK_DEADLOCK FALSE
