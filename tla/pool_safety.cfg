SPECIFICATION SafeSpec
CONSTANTS
  w1 = w1  w2 = w2  w3 = w3
  Works = {w1, w2, w3}
  Clients = {c1, c2}
  Threads = {t1, t2, t3, t4}
  Free = Free
  NoWork = NoWork
  NProcs = 1
  MULTIPLE_CPUS = 3
  FuncFlushes <- NoFlushes
  FlushReloads = TRUE
  InitMayFail = FALSE
  MaxCalls = 5
  MaxSpurious = 1
SYMMETRY Symmetry
INVARIANTS CountersExact ThreadsBounded PoolFloor WorkOnce NoLostWakeup LockOutlivesWorkers DestroyedMeansDone
PROPERTIES FlushMeansFinished ImplementsPoolSafely
