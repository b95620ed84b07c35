\* Two requests on a connection, with bodies, Expect headers and clients that leave.
SPECIFICATION FairSpec
INVARIANTS AnswersInOrder NothingBeyondTheBody
PROPERTIES EveryRequestAnswered
CHECK_DEADLOCK FALSE
CONSTANTS
  MaxSent = 2
  MaxBody = 2
  MaxChunk = 1
  AppExceptions = {"error", "base"}
  None = None
