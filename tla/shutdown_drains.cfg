\* Shutdown with workers that stop in time; the server is meant to stop.
SPECIFICATION ShutdownFairSpec
PROPERTIES PendingRequestsServed RegisteredWorkersStop
CHECK_DEADLOCK FALSE
CONSTANTS
  Ident = {w1, w2}
  Task = {t1, t2, t3}
  NWorkers = 2
  MaxRequests = 0
  SpawnIfUnder = 0
  MaxZombies = 0
  HungCheckPeriod = 0
  CanKill = FALSE
  IdleBeforeCull = 3
  ThreadLimit = FALSE
  SHUTDOWN = SHUTDOWN
  None = None
  JoinTimesOut = FALSE
