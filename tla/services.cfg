\* One component a behaviour, with all that its inputs below may be.
SPECIFICATION MCSpec
SYMMETRY Symmetric
INVARIANTS
   NotKeptBeyond ResponsesApart ResultsAreCurrent OperationIsRight ClosedOnce
  RefusedIfOvertaken SubmittedAsShown FieldsAsSent EveryErrorIsTold AnswersAsRaised
PROPERTIES UrlsStay
\* A component that has done all it may do stops.
CHECK_DEADLOCK FALSE
CONSTANTS
  None = None
  Components = {"fileapp", "headers", "response", "request", "intset", "wsgi", "auth",
    "webtest", "form", "reports", "errors", "url", "template", "debugger"}
  \* FileApp: two threads that share the application of a path; files on both sides of CACHE_SIZE.
  FileThread = {t, u}
  FileMethods = {"GET", "POST"}
  Sizes = {0, 1, 2}
  CacheSize = 2
  Stores = {"directory", "archive"}
  FileRanges <- MCRanges
  MaxVersion = 2
  MaxAsked = 3
  \* Response: two responses, of which each header has a default.
  Responses = {1, 2}
  Name = {"cache-control", "x"}
  Value = {"a"}
  Defaults <- MCDefaults
  Cookie = {"c"}
  ResponseCalls = 4
  \* Wsgi: all the servers and middlewares, an application that starts twice.
  WsgiRequest <- MCWsgiRequest
  Server = {"raw_interactive", "modpython", "scgi"}
  Middleware = {"none", "gzip", "cgitb", "translogger", "flup", "intercept", "capture", "wdg"}
  MaxStarts = 2
  MaxItems = 2
  \* Auth
  AuthThread = {1, 2}
  AuthRequest = {1, 2}
  Config <- MCConfig
  MaxNonces = 4
  MaxSends = 2
  \* Reports
  Exceptions <- MCExceptions
  Configs <- MCConfigs
  Limit = None
  \* HttpErrors: redirections, an answer without a body, and one whose template names a header.
  Raised = {302, 304, 406}
  GivenHeaders <- MCGivenHeaders
  ErrorPath = {"a"}
  HttpRequests <- MCHttpRequests
  MaxRaised = 2
  \* Url
  Segments <- MCSegments
  VarName = {"x"}
  VarValue = {"v"}
  ParamValue = {"p"}
  MaxUrls = 3
  \* Debugger
  DebugThread = {"t1", "t2"}
  DebugAsked <- MCDebugAsked
  DebugFrame = {"f"}
  Program <- MCProgram
  MaxInfos = 1
  MaxPrints = 2
