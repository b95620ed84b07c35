\* Hung workers are killed and replaced, others spawned and culled; starting a thread may wait for a free id.
SPECIFICATION Spec
INVARIANTS IdleListExact NoLeftoverTracking
PROPERTIES ServesInOrderEvenIfKilled
SYMMETRY Symmetric
CHECK_DEADLOCK FALSE
CONSTANTS
  Ident = {w1, w2, w3}
  Task = {t1, t2}
  NWorkers = 1
  MaxRequests = 0
  SpawnIfUnder = 1
  MaxZombies = 1
  HungCheckPeriod = 1
  CanKill = TRUE
  IdleBeforeCull = 0
  ThreadLimit = FALSE
  SHUTDOWN = SHUTDOWN
  None = None
