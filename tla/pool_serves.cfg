\* Workers replace themselves after max_requests tasks.
SPECIFICATION FairSpec
INVARIANTS PoolKeepsItsSize
PROPERTIES ServesInOrder
CONSTANTS
  Ident = {w1, w2, w3}
  Task = {t1, t2, t3}
  NWorkers = 2
  MaxRequests = 1
  SpawnIfUnder = 0
  MaxZombies = 0
  HungCheckPeriod = 0
  CanKill = FALSE
  IdleBeforeCull = 3
  ThreadLimit = FALSE
  SHUTDOWN = SHUTDOWN
  None = None
