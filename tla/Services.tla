------------------------------ MODULE Services ------------------------------
(***************************************************************************)
(* The components that answer a request.  They share no state: a behaviour   *)
(* is one of one component, chosen at the start, while the variables of the  *)
(* others keep a value of their own.                                         *)
(***************************************************************************)
EXTENDS Subsequences

CONSTANTS
    Components,   \* those a behaviour may be one of: of these, or of a module that adds others
    \* FileApp
    FileThread, FileMethods,
    Sizes,        \* of files
    CacheSize,    \* CACHE_SIZE: smaller files are kept in memory
    Stores,       \* directory, archive
    FileRanges,   \* of RANGE: sequences of <<begin, end or None>>, or None
    MaxVersion, MaxAsked,  \* bounds on the changes of the file and on the requests
    \* Response
    Responses,    \* numbers from 1
    Name, Value,  \* headers that are added, not content-type
    Defaults,     \* the headers of defaults: name -> [one: value] or [values: list]
    Cookie,       \* names of cookies
    ResponseCalls,  \* bound on the calls
    \* Wsgi
    WsgiRequest,  \* [uri, prefix, input]
    Server, Middleware,  \* the stack
    MaxStarts, MaxItems,  \* bounds on what an application does
    \* Auth
    AuthThread, AuthRequest,
    Config,       \* configurations: [ipMap, clobber, predicate, default, keeps]
    MaxNonces, MaxSends,  \* bounds
    \* Reports
    Exceptions,   \* [frames, importing]
    Configs,      \* sets of option names
    Limit,        \* of the frames that are collected, or None
    \* HttpErrors
    Raised,       \* codes of the exceptions a program raises
    GivenHeaders,  \* lists of headers, not empty, a program passes to exceptions
    ErrorPath,    \* details, which for a redirection may be its location
    HttpRequests,  \* [base, keys, html]
    MaxRaised,    \* bound on the exceptions made
    \* Url
    Segments,     \* what is added to paths
    VarName, VarValue, ParamValue,
    MaxUrls,      \* bound on the URLs of a program
    \* Debugger
    DebugThread,
    DebugAsked,   \* debugging requests: [method, count, frame, input]
    DebugFrame,   \* frames of an exception
    Program,      \* input -> [prints, ends]
    MaxInfos, MaxPrints,  \* bounds
    None

VARIABLES
    component,  \* the component of this behaviour; the others are idle
    store, file, versions, asked, app, cached, thread, copy, torn, mixed,
    dict, list, responsesMade, given, holders, responseSent, responseCalls,
    server, mid, lint, request, pc, where, body, page, starts, items, closes, seen,
    started, held, service,
    config, jar, nonces, issued, nonce, count, typed, requests, sends, wire, at,
    judged,
    exc, reportConfig, reportAt, exc_data, reported, extra_data, told,
    lists, excs, answer,
    urls, params, raised,
    debug_infos, stdout, exec_lock, out, request_id, doing, printed

-----------------------------------------------------------------------------
F == INSTANCE FileApp WITH Thread <- FileThread, Methods <- FileMethods, Ranges <- FileRanges
R == INSTANCE Response WITH
        response <- responsesMade, sent <- responseSent, calls <- responseCalls, MaxCalls <- ResponseCalls
W == INSTANCE Wsgi WITH Request <- WsgiRequest
A == INSTANCE Auth WITH Thread <- AuthThread, Request <- AuthRequest
E == INSTANCE Reports WITH config <- reportConfig, at <- reportAt
X == INSTANCE HttpErrors WITH Path <- ErrorPath
U == INSTANCE Url
B == INSTANCE Debugger WITH Threads <- DebugThread, Asked <- DebugAsked, Frames <- DebugFrame

\* What is assumed of the constants; the components say what they are.
FileAppAssumed ==
    /\ Sizes \subseteq Nat /\ MaxVersion \in Nat
    /\ None \notin FileThread /\ None \notin Nat /\ None \notin [version : Nat, size : Nat]

\* 0 is the number of the default headers.
ResponseAssumed ==
    /\ 0 \notin Responses
    /\ \A n \in DOMAIN Defaults : IF "values" \in DOMAIN Defaults[n] THEN IsTuple(Defaults[n].values)
                                  ELSE Defaults[n] = [one |-> Defaults[n].one]

WsgiAssumed == Server \subseteq {"raw_interactive", "modpython", "scgi"}

\* Threads are not what sys.stdout and what is printed are told from them by.
DebuggerAssumed ==
    /\ {None, "console", "application", "traceback"} \cap DebugThread = {}
    /\ \A r \in DebugAsked : r.method = "exec_input" /\ r.input # "" => Program[r.input].prints \in Nat

\* A traceback has frames, which are different objects; sys.tracebacklimit is not 0.
ReportsAssumed ==
    /\ Limit = None \/ Limit \in Nat \ {0}
    /\ \A e \in Exceptions :
        /\ IsTuple(e.frames) /\ e.frames # <<>> /\ \A i \in DOMAIN e.frames : e.frames[i] # None
        /\ \A i, j \in DOMAIN e.frames : e.frames[i] = e.frames[j] => i = j

\* replace_header asserts that a header is not there twice; a location that is given is one.
HttpErrorsAssumed ==
    \A headers \in GivenHeaders :
        /\ IsTuple(headers)
        /\ \A name \in {"content-type", "location"} : \A i, j \in X!At(headers, name) : i = j
        /\ \A i \in X!At(headers, "location") : headers[i][2] # None

ASSUME ServicesAssumption ==
    /\ FileAppAssumed /\ ResponseAssumed /\ WsgiAssumed /\ DebuggerAssumed /\ ReportsAssumed
    /\ HttpErrorsAssumed

fileVars == <<store, file, versions, asked, app, cached, thread, copy, torn, mixed>>
responseVars == <<dict, list, responsesMade, given, holders, responseSent, responseCalls>>
wsgiVars == <<server, mid, lint, request, pc, where, body, page, starts, items, closes, seen,
    started, held, service>>
authVars == <<config, jar, nonces, issued, nonce, count, typed, requests, sends, wire, at,
    judged>>
reportVars == <<exc, reportConfig, reportAt, exc_data, reported, extra_data, told>>
errorVars == <<lists, excs, answer>>
urlVars == <<urls, params, raised>>
debuggerVars == <<debug_infos, stdout, exec_lock, out, request_id, doing, printed>>

\* What the variables of a component are while another one is looked at.
FileAppIdle ==
    /\ store = None /\ file = None /\ versions = None /\ asked = None /\ app = None
    /\ cached = None /\ thread = None /\ copy = None /\ torn = None /\ mixed = None
ResponseIdle ==
    /\ dict = None /\ list = None /\ responsesMade = None /\ given = None /\ holders = None
    /\ responseSent = None /\ responseCalls = None
WsgiIdle ==
    /\ server = None /\ mid = None /\ lint = None /\ request = None /\ pc = None
    /\ where = None /\ body = None /\ page = None /\ starts = None /\ items = None
    /\ closes = None /\ seen = None /\ started = None /\ held = None /\ service = None
AuthIdle ==
    /\ config = None /\ jar = None /\ nonces = None /\ issued = None /\ nonce = None
    /\ count = None /\ typed = None /\ requests = None /\ sends = None /\ wire = None
    /\ at = None /\ judged = None
ReportsIdle ==
    /\ exc = None /\ reportConfig = None /\ reportAt = None /\ exc_data = None
    /\ reported = None /\ extra_data = None /\ told = None
HttpErrorsIdle ==
    /\ lists = None /\ excs = None /\ answer = None
UrlIdle ==
    /\ urls = <<>> /\ params = None /\ raised = None
DebuggerIdle ==
    /\ debug_infos = None /\ stdout = None /\ exec_lock = None /\ out = None
    /\ request_id = None /\ doing = None /\ printed = None

Init ==
    /\ component \in Components
    /\ IF component = "fileapp" THEN F!FileInit ELSE FileAppIdle
    /\ IF component = "response" THEN R!ResponseInit ELSE ResponseIdle
    /\ IF component = "wsgi" THEN W!WsgiInit ELSE WsgiIdle
    /\ IF component = "auth" THEN A!Init ELSE AuthIdle
    /\ IF component = "reports" THEN E!ReportsInit ELSE ReportsIdle
    /\ IF component = "errors" THEN X!ErrorsInit ELSE HttpErrorsIdle
    /\ IF component = "url" THEN U!UrlInit ELSE UrlIdle
    /\ IF component = "debugger" THEN B!DebuggerInit ELSE DebuggerIdle

Next ==
    /\ UNCHANGED component
    /\ IF component = "fileapp" THEN F!FileNext ELSE UNCHANGED fileVars
    /\ IF component = "response" THEN R!ResponseNext ELSE UNCHANGED responseVars
    /\ IF component = "wsgi" THEN W!WsgiNext ELSE UNCHANGED wsgiVars
    /\ IF component = "auth" THEN A!Next ELSE UNCHANGED authVars
    /\ IF component = "reports" THEN E!ReportsNext ELSE UNCHANGED reportVars
    /\ IF component = "errors" THEN X!ErrorsNext ELSE UNCHANGED errorVars
    /\ IF component = "url" THEN U!UrlNext ELSE UNCHANGED urlVars
    /\ IF component = "debugger" THEN B!DebuggerNext ELSE UNCHANGED debuggerVars

vars == <<component, fileVars, responseVars, wsgiVars, authVars, reportVars,
    errorVars, urlVars, debuggerVars>>

Spec == Init /\ [][Next]_vars

-----------------------------------------------------------------------------
(* The properties of the components, each where it is the one looked at.   *)

\* An answer is as new as the file was when it was looked at (FileApp).
NeverStale == component = "fileapp" => F!NeverStale

\* No response sends what another one was given (Response).
ResponsesApart == component = "response" => R!ResponsesApart

\* What an application returns is closed, and once (Wsgi).
ClosedOnce == component = "wsgi" => W!ClosedOnce

\* The right password is refused only to a request that was overtaken (Auth).
RefusedIfOvertaken == component = "auth" => A!RefusedIfOvertaken

\* Every exception is told to someone, whole or cut as its frames ask (Reports), and who debugs it
\* is told all that the code in its frames prints (Debugger).
EveryErrorIsTold == (component = "reports" => E!EveryErrorIsTold) /\ (component = "debugger" => B!OutputIsWhole)

\* An exception is answered with what it was raised with (HttpErrors).
AnswersAsRaised == component = "errors" => X!AnswersAsRaised

\* No operation changes a URL that was made before (Url).
UrlsStay == U!UrlsStay
=============================================================================
