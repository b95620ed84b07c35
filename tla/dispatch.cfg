\* Requests that are sent on, files that are watched, scripts that are run: one component a behaviour.
SPECIFICATION MCSpec
INVARIANTS ErrorDocumentKeepsStatus BodyIsWhole MostSpecificAnswers PathIsKept ChangesAddUp
PROPERTIES  ChangeReloads EveryAnswerEnds
\* A request that ended is not followed by another.
CHECK_DEADLOCK FALSE
CONSTANTS
  None = None
  Components = {"dispatch", "urlmap", "urlparser", "pages", "reloader", "cgi", "filetest"}
  \* Dispatch: "e" is the error document of 404.
  Chains <- MCChains
  Path = {"a", "e"}
  ErrorPath <- MCErrorPath
  Catch = {404}
  Environs = {1, 2, 3, 4}
  OwnForwards <- MCOwnForwards
  Lazy = TRUE
  \* UrlMap
  Keys <- MCKeys
  Requests <- MCRequests
  Apps = {"x", "y"}
  DomainRank <- MCDomainRank
  MaxApps = 3
  \* UrlParser
  Directories = {"top", "sub"}
  Root = "top"
  Files <- MCFiles
  Asked <- MCAsked
  IndexNames <- MCIndexNames
  HideExtensions = {"pyc"}
  IgnoreExtensions = {}
  Hooks <- MCHooks
  Rewritten <- MCRewritten
  \* Pages
  PagesThread = {1, 2}
  PageDirectory <- MCPageDirectory
  PageFiles <- MCPageFiles
  Broken <- MCBroken
  BaseNames <- MCBaseNames
  ReadOnly <- MCReadOnly
  MaxModules = 3
  \* FileTest: a file, a directory with a file, and a hidden one with a file.
  TestPath = {"f", "d", "df", "h", "hf"}
  Above <- MCAbove
  Hidden = {"h"}
  IgnorePaths = {}
  IgnoreHidden = TRUE
  TestMaxTime = 2
  MaxWrites = 3
