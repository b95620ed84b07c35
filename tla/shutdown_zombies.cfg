\* Too many zombies; the server is meant to stop.
SPECIFICATION ShutdownSpec
PROPERTIES ZombiesStopTheServer
SYMMETRY Symmetric
CHECK_DEADLOCK FALSE
CONSTANTS
  Ident = {w1, w2, w3}
  Task = {t1, t2}
  NWorkers = 1
  MaxRequests = 0
  SpawnIfUnder = 0
  MaxZombies = 1
  HungCheckPeriod = 1
  CanKill = TRUE
  IdleBeforeCull = 3
  ThreadLimit = TRUE
  SHUTDOWN = SHUTDOWN
  None = None
  JoinTimesOut = TRUE
