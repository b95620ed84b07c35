------------------------------- MODULE Routing -------------------------------
(***************************************************************************)
(* The components that send a request on, and that look at files for it, and *)
(* that theorems are about.  Dispatch is here by its own names.  The          *)
(* components share no state: a behaviour is one of one component, chosen at *)
(* the start, while the variables of the others keep a value of their own.   *)
(***************************************************************************)
EXTENDS Dispatch

CONSTANTS
    Components,   \* those a behaviour may be one of: of these, or of a module that adds others
    \* UrlMap
    Keys, Requests, Apps,
    DomainRank,   \* the order of the domains as strings
    MaxApps,      \* bound on the applications in the map
    \* UrlParser
    Directories, Root,
    Files,        \* listings of the directories
    Asked,        \* values of PATH_INFO
    IndexNames, HideExtensions, IgnoreExtensions,
    Hooks,        \* what the __init__.py of a directory defines
    Rewritten,    \* values of PATH_INFO that hooks set
    \* Pages
    PagesThread,
    PageDirectory,  \* the directory of the first parser
    PageFiles, Broken,
    BaseNames,    \* values of base_python_name
    ReadOnly,     \* directories that cannot be written to
    MaxModules,   \* bound on the modules made
    \* FileTest
    TestPath,
    Above,        \* path -> the path and the directories it is in
    Hidden, IgnorePaths, IgnoreHidden,
    TestMaxTime, MaxWrites  \* bounds

VARIABLES
    component,  \* the component of this behaviour; the others are idle
    applications, mapping,
    listing, kind, parser, script_name, path_info, init_application, not_found_parser,
    asked, doing,
    base, sysModules, made, inits, at,
    tree, clock, writes, running, raised, known

-----------------------------------------------------------------------------
M == INSTANCE UrlMap
P == INSTANCE UrlParser
G == INSTANCE Pages WITH Threads <- PagesThread, Root <- PageDirectory
T == INSTANCE FileTest WITH Path <- TestPath, MaxTime <- TestMaxTime

\* What is assumed of the constants; the components say what they are.
\* 1 is the server's environ; a chain is made of the three middlewares.
DispatchAssumed ==
    /\ 1 \in Environs /\ None \notin Environs
    /\ Chains \subseteq Seq({"recursive", "forward", "cascade"})

\* A path is a sequence; None is no application.
UrlMapAssumed ==
    /\ \A key \in Keys : P!IsPath(key.url)
    /\ \A req \in Requests : P!IsPath(req.path)
    /\ None \notin Apps

UrlParserAssumed == \A path \in Asked \cup Rewritten : P!IsPath(path)

\* Directories are in those that they are in, and so on up.
FileTestAssumed ==
    /\ \A p \in TestPath :
        /\ p \in Above[p] /\ Above[p] \subseteq TestPath
        /\ \A q \in Above[p] : Above[q] \subseteq Above[p]
    /\ None \notin [dir : BOOLEAN, mtime : Nat] /\ None # T!Directory
    /\ TestMaxTime \in Nat

ASSUME RoutingAssumption ==
    DispatchAssumed /\ UrlMapAssumed /\ UrlParserAssumed /\ FileTestAssumed

urlmapVars == <<applications, mapping>>
urlparserVars == <<listing, kind, parser, script_name, path_info, init_application,
    not_found_parser, asked, doing>>
pagesVars == <<base, sysModules, made, inits, at>>
fileTestVars == <<tree, clock, writes, running, raised, known>>

\* What the variables of a component are while another one is looked at.
DispatchIdle ==
    /\ chain = None /\ body = None /\ environ = None /\ visited = None /\ stream = None
    /\ frames = None /\ event = None /\ told = <<>> /\ given = {} /\ hungry = FALSE
    /\ over = "idle"
UrlMapIdle ==
    /\ applications = None /\ mapping = None
UrlParserIdle ==
    /\ listing = None /\ kind = None /\ parser = None /\ script_name = None
    /\ path_info = None /\ init_application = None /\ not_found_parser = None /\ asked = None
    /\ doing = None
PagesIdle ==
    /\ base = None /\ sysModules = None /\ made = None /\ inits = None /\ at = None
FileTestIdle ==
    /\ tree = None /\ clock = None /\ writes = None /\ running = None /\ raised = None
    /\ known = None

Init ==
    /\ component \in Components
    /\ IF component = "dispatch" THEN DispatchInit ELSE DispatchIdle
    /\ IF component = "urlmap" THEN M!UrlMapInit ELSE UrlMapIdle
    /\ IF component = "urlparser" THEN P!UrlParserInit ELSE UrlParserIdle
    /\ IF component = "pages" THEN G!PagesInit ELSE PagesIdle
    /\ IF component = "filetest" THEN T!FileTestInit ELSE FileTestIdle

Next ==
    /\ UNCHANGED component
    /\ IF component = "dispatch" THEN DispatchNext ELSE UNCHANGED dispatchVars
    /\ IF component = "urlmap" THEN M!UrlMapNext ELSE UNCHANGED urlmapVars
    /\ IF component = "urlparser" THEN P!UrlParserNext ELSE UNCHANGED urlparserVars
    /\ IF component = "pages" THEN G!PagesNext ELSE UNCHANGED pagesVars
    /\ IF component = "filetest" THEN T!FileTestNext ELSE UNCHANGED fileTestVars

vars == <<component, dispatchVars, urlmapVars, urlparserVars, pagesVars, fileTestVars>>

Spec == Init /\ [][Next]_vars

-----------------------------------------------------------------------------
(* The properties of the components, each where it is the one looked at;     *)
(* those of Dispatch hold where it is idle.                                  *)

\* The most specific application answers (UrlMap), or the page of the file (Pages).
MostSpecificAnswers ==
    (component = "urlmap" => M!MostSpecificAnswers) /\ (component = "pages" => G!OwnPageAnswers)

\* SCRIPT_NAME and PATH_INFO are the path that came in (UrlParser).
PathIsKept == component = "urlparser" => P!PathIsKept

\* What runs report adds up to what is on disk (FileTest).
ChangesAddUp == component = "filetest" => T!ChangesAddUp
=============================================================================
