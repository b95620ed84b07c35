------------------------------ MODULE Dispatch ------------------------------
(***************************************************************************)
(* One request on its way through RecursiveMiddleware, StatusBasedForward   *)
(* and Cascade (recursive.py, errordocument.py, cascade.py) to applications  *)
(* that answer, raise or forward.  The middlewares are the frames of a       *)
(* call stack.  An environ is a dictionary with an identity, as a cascade    *)
(* copies it, and copies share the list of visited paths and the body.       *)
(***************************************************************************)
EXTENDS Integers, Sequences, FiniteSetsExt

CONSTANTS
    Chains,         \* the orders of the middlewares that are looked at, outermost first
    Path,           \* values of PATH_INFO
    ErrorPath,      \* errordocument's codes: a status -> the path of its error document
    Catch,          \* the codes of the cascade
    Environs,       \* identities of environs, numbers: enough for those in use at a time
    OwnForwards,    \* by chain: from and to which paths applications forward with an environ of their own
    Lazy,           \* may applications call start_response when they are iterated over?
    None

VARIABLES
    chain,     \* the middlewares, from the server to the application
    body,      \* the request's body: none, small, large (more than 4096 bytes)
    environ,   \* the environs
    visited,   \* paste.recursive.old_path_info, by the environ that made the list
    stream,    \* wsgi.input: is the body in it, and was it read, by the environ it was made for?
    frames,    \* calls that wait for the one above them
    event,     \* what the topmost call is about to do
    told,      \* statuses the server's start_response has taken
    given,     \* history: statuses of applications that were not serving an error document
    hungry,    \* history: a cascade called an application with a body that was read
    over       \* None, or how the request ended

requestVars == <<chain, body>>
environVars == <<environ, visited, stream>>
dispatchVars == <<chain, body, environ, visited, stream, frames, event, told, given, hungry, over>>

Status == {200} \cup DOMAIN ErrorPath \cup Catch
Top == frames[Len(frames)]
Pop == SubSeq(frames, 1, Len(frames) - 1)

Call(layer, e) == [do |-> "call", layer |-> layer, environ |-> e, read |-> FALSE, started |-> FALSE]
Return == [do |-> "return", late |-> None, to |-> <<>>]
Raise(what) == [do |-> "raise", what |-> what]

\* Environs nobody refers to, whose list and stream nobody refers to either.
Unused ==
    LET used == {1} \cup {frames[i].environ : i \in DOMAIN frames}
                    \cup (IF "environ" \in DOMAIN event THEN {event.environ} ELSE {})
    IN  Environs \ UNION {{e, environ[e].list, environ[e].input} : e \in used}

\* The identity of the next copy, which does not matter.
Fresh == {copy \in Unused : copy = Min(Unused)}

-----------------------------------------------------------------------------
(* start_response, on its way down from the application to the server.       *)

\* A mutant: the error document decides about the status.
StatusAtPlain(fs, i, s) == s

\* What a status has become when it reaches the i-th frame: StatusKeeper
\* replaces it by its own.
StatusAt(fs, i, s) ==
    LET keepers == {j \in (i + 1)..Len(fs) : fs[j].at = "keeper"}
    IN  IF keepers = {} THEN s ELSE fs[Min(keepers)].status

\* repl_start_response and change_response keep a status to themselves.
Keeps(f, s) ==
    \/ f.at = "cascade" /\ s \in Catch
    \/ f.at = "forward" /\ s \in DOMAIN ErrorPath

Holders(fs, s) == {i \in DOMAIN fs : Keeps(fs[i], StatusAt(fs, i, s))}

\* The frames after start_response(s): the one that keeps it notes it; the
\* first URL counts.
Noted(fs, s) ==
    IF Holders(fs, s) = {} THEN fs
    ELSE LET i == Max(Holders(fs, s))
         IN  IF fs[i].at = "forward" /\ fs[i].kept # None
             THEN fs ELSE [fs EXCEPT ![i].kept = StatusAt(fs, i, s)]

\* The server refuses a second status, unless it comes with exc_info.
Refused(fs, s, excInfo) == Holders(fs, s) = {} /\ told # <<>> /\ ~excInfo

Told(fs, s) == IF Holders(fs, s) = {} THEN Append(told, StatusAt(fs, 0, s)) ELSE told

-----------------------------------------------------------------------------

DispatchInit ==
    /\ chain \in Chains /\ body \in {"none", "small", "large"}
    /\ \E p \in Path : environ = [e \in Environs |-> [path |-> p, list |-> None, input |-> 1, own |-> FALSE]]
    /\ visited = [e \in Environs |-> {}]
    /\ stream = [e \in Environs |-> [full |-> TRUE, read |-> FALSE]]
    /\ frames = <<>> /\ event = Call(1, 1)
    /\ told = <<>> /\ given = {} /\ hungry = FALSE /\ over = None

Called(kind) ==
    over = None /\ event.do = "call" /\ event.layer <= Len(chain) /\ chain[event.layer] = kind

Frame(kind) == [at |-> kind, layer |-> event.layer, environ |-> event.environ, kept |-> None]

\* RecursiveMiddleware.__call__, up to the call of its application, and
\* StatusBasedForward.__call__.
CallWrapper(kind) ==
    /\ Called(kind)
    /\ frames' = Append(frames, Frame(kind))
    /\ event' = Call(event.layer + 1, event.environ)
    /\ UNCHANGED <<requestVars, environVars, told, given, hungry, over>>

CallRecursive == CallWrapper("recursive")
CallForward == CallWrapper("forward")

\* Cascade.__call__: what is left of the body is copied into a stream that
\* can be rewound, and the environ for the first application.
CallCascade ==
    LET e == event.environ  old == stream[environ[e].input]  left == old.full /\ ~old.read
    IN  /\ Called("cascade")
        /\ IF body = "large" /\ ~left
           THEN event' = Raise("error") /\ UNCHANGED <<environVars, frames>>
           ELSE \E copy \in Fresh :
                   /\ environ' = IF body = "none" THEN [environ EXCEPT ![copy] = environ[e]]
                                 ELSE [environ EXCEPT ![e].input = e,
                                                      ![copy] = [environ[e] EXCEPT !.input = e]]
                   /\ stream' = IF body = "none" THEN stream
                                ELSE [stream EXCEPT ![e] = [full |-> left, read |-> FALSE]]
                   /\ frames' = Append(frames, Frame("cascade"))
                   /\ event' = Call(event.layer + 1, copy)
                   /\ visited' = visited
        /\ UNCHANGED <<requestVars, told, given, hungry, over>>

-----------------------------------------------------------------------------
(* An application.                                                           *)

InApp == over = None /\ event.do = "call" /\ event.layer > Len(chain)
ForErrorDocument == \E i \in DOMAIN frames : frames[i].at = "keeper"

\* Has anything been forwarded for this environ, or is it made for a forward?
Forwarded(e) == environ[e].list # None \/ environ[e].own

ReadBody ==
    LET e == event.environ  in == environ[e].input
    IN  /\ InApp /\ body # "none" /\ ~event.read /\ ~event.started
        /\ hungry' = (hungry \/ (~Forwarded(e) /\ (stream[in].read \/ ~stream[in].full)))
        /\ stream' = [stream EXCEPT ![in].read = TRUE]
        /\ event' = [event EXCEPT !.read = TRUE]
        /\ UNCHANGED <<requestVars, environ, visited, frames, told, given, over>>

Given(s) == IF ForErrorDocument THEN given ELSE given \cup {s}

\* start_response, through the replacements of the middlewares.
StartResponse(s) ==
    /\ InApp /\ ~event.started
    /\ frames' = Noted(frames, s)
    /\ told' = IF Refused(frames, s, FALSE) THEN told ELSE Told(frames, s)
    /\ event' = IF Refused(frames, s, FALSE) THEN Raise("error") ELSE [event EXCEPT !.started = TRUE]
    /\ given' = Given(s)
    /\ UNCHANGED <<requestVars, environVars, hungry, over>>

AppReturns ==
    /\ InApp /\ event.started /\ event' = Return
    /\ UNCHANGED <<requestVars, environVars, frames, told, given, hungry, over>>

\* A generator: start_response is called when the server asks for an item.
AppReturnsLazily(s) ==
    /\ Lazy /\ InApp /\ ~event.started
    /\ event' = [Return EXCEPT !.late = s, !.to = frames]
    /\ given' = Given(s)
    /\ UNCHANGED <<requestVars, environVars, frames, told, hungry, over>>

\* http: an HTTPException with a code the cascade catches.
AppRaises(what) ==
    /\ InApp /\ event' = Raise(what)
    /\ UNCHANGED <<requestVars, environVars, frames, told, given, hungry, over>>

Forward(p, status) == [do |-> "raise", what |-> "forward", path |-> p, status |-> status]

\* ForwardRequestException(url).
AppForwards(p) ==
    /\ InApp /\ event' = Forward(p, None)
    /\ UNCHANGED <<requestVars, environVars, frames, told, given, hungry, over>>

\* ForwardRequestException(environ=a copy with another PATH_INFO).
AppForwardsEnviron(p) ==
    /\ InApp /\ <<environ[event.environ].path, p>> \in OwnForwards[chain]
    /\ \E copy \in Fresh :
         /\ environ' = [environ EXCEPT ![copy] = [environ[event.environ] EXCEPT !.path = p, !.own = TRUE]]
         /\ event' = [do |-> "raise", what |-> "forward", environ |-> copy]
    /\ UNCHANGED <<requestVars, visited, stream, frames, told, given, hungry, over>>

-----------------------------------------------------------------------------
(* What the middlewares do with a result.                                    *)

Returned(kind) == over = None /\ event.do = "return" /\ frames # <<>> /\ Top.at = kind
Raised(kind) == over = None /\ event.do = "raise" /\ frames # <<>> /\ Top.at = kind

\* Nothing to do for this frame.
Pass ==
    /\ \/ Returned("recursive") \/ Returned("keeper")
       \/ (Returned("forward") \/ Returned("cascade")) /\ Top.kept = None
       \/ Raised("forward")
       \/ Raised("recursive") /\ event.what # "forward"
       \/ Raised("keeper") /\ event.what # "loop"
       \/ Raised("cascade") /\ event.what # "http"
    /\ frames' = Pop
    /\ UNCHANGED <<requestVars, environVars, event, told, given, hungry, over>>

\* A status with an error document: the answer is closed and thrown away.
RaiseForward ==
    /\ Returned("forward") /\ Top.kept # None
    /\ event' = Forward(ErrorPath[Top.kept], Top.kept)
    /\ frames' = Pop
    /\ UNCHANGED <<requestVars, environVars, told, given, hungry, over>>

\* A mutant: only error documents are checked.
LoopsPlain(e) ==
    /\ environ[e].list # None /\ environ[e].path \in visited[environ[e].list]
    /\ "status" \in DOMAIN event /\ event.status # None

\* CheckForRecursionMiddleware: a path from which this environ was forwarded
\* before is a loop.
Loops(e) == environ[e].list # None /\ environ[e].path \in visited[environ[e].list]

Visit(e) ==
    LET l == IF environ[e].list = None THEN e ELSE environ[e].list
        before == IF environ[e].list = None THEN {} ELSE visited[l]
    IN  visited' = [visited EXCEPT ![l] = before \cup {environ[e].path}]

\* The forwarded call: of the same middleware, with the path changed, and
\* under a StatusKeeper when it is for an error document.
ForwardRequest ==
    LET e == Top.environ  layer == Top.layer
        keeper == [at |-> "keeper", layer |-> layer, environ |-> e, kept |-> None, status |-> event.status]
        list == IF environ[e].list = None THEN e ELSE environ[e].list
    IN  /\ Raised("recursive") /\ event.what = "forward" /\ ~Loops(e)
        /\ Visit(e)
        /\ IF "environ" \in DOMAIN event
           THEN /\ event' = Call(layer, event.environ) /\ frames' = Pop
                /\ environ' = [environ EXCEPT ![e].list = list]
           ELSE /\ event' = Call(layer, e)
                /\ frames' = IF event.status = None THEN Pop ELSE Append(Pop, keeper)
                /\ environ' = [environ EXCEPT ![e].list = list, ![e].path = event.path]
        /\ UNCHANGED <<requestVars, stream, told, given, hungry, over>>

ForwardingLoop ==
    /\ Raised("recursive") /\ event.what = "forward" /\ Loops(Top.environ)
    /\ event' = Raise("loop") /\ frames' = Pop
    /\ UNCHANGED <<requestVars, environVars, told, given, hungry, over>>

\* StatusKeeper's own answer when the error document cannot be fetched.
ErrorPageNotFetched ==
    /\ Raised("keeper") /\ event.what = "loop"
    /\ told' = Told(frames, 500)
    /\ frames' = SubSeq(Noted(frames, 500), 1, Len(frames) - 1)
    /\ event' = Return
    /\ UNCHANGED <<requestVars, environVars, given, hungry, over>>

\* A mutant: the body is not rewound.
LastApplicationPlain(e) ==
    stream' = stream /\ event' = Call(Len(chain) + 1, e) /\ frames' = Pop

\* What is left to do of Cascade.__call__ when the first application failed.
LastApplication(e) ==
    /\ stream' = IF body = "none" THEN stream ELSE [stream EXCEPT ![environ[e].input].read = FALSE]
    /\ event' = Call(Len(chain) + 1, e)
    /\ frames' = Pop

\* The answer of an application that failed is read to its end, which may
\* fail, or an exception says that it failed.
NextApplication ==
    /\ \/ Returned("cascade") /\ Top.kept # None
       \/ Raised("cascade") /\ event.what = "http"
    /\ LastApplication(Top.environ)
    /\ UNCHANGED <<requestVars, environ, visited, told, given, hungry, over>>

ExhaustingFails ==
    /\ Returned("cascade") /\ Top.kept # None
    /\ event' = Raise("error") /\ frames' = Pop
    /\ UNCHANGED <<requestVars, environVars, told, given, hungry, over>>

\* The server: it asks a generator for its first item, and an answer is sent
\* if start_response was called by then.
Served ==
    /\ over = None /\ frames = <<>> /\ event.do = "return"
    /\ told' = IF event.late = None THEN told
               ELSE IF Refused(event.to, event.late, FALSE) THEN <<>>
               ELSE Told(event.to, event.late)
    /\ over' = IF told' = <<>> THEN "error" ELSE "answer"
    /\ UNCHANGED <<requestVars, environVars, frames, event, given, hungry>>

Failed ==
    /\ over = None /\ frames = <<>> /\ event.do = "raise"
    /\ over' = "error"
    /\ UNCHANGED <<requestVars, environVars, frames, event, told, given, hungry>>

DispatchNext ==
    \/ CallRecursive \/ CallForward \/ CallCascade
    \/ ReadBody \/ AppReturns
    \/ \E s \in Status : StartResponse(s) \/ AppReturnsLazily(s)
    \/ \E what \in {"http", "error"} : AppRaises(what)
    \/ \E p \in Path : AppForwards(p) \/ AppForwardsEnviron(p)
    \/ Pass \/ RaiseForward \/ ForwardRequest \/ ForwardingLoop \/ ErrorPageNotFetched
    \/ NextApplication \/ ExhaustingFails \/ Served \/ Failed

\* Applications return, and the middlewares go on.
DispatchSpec == DispatchInit /\ [][DispatchNext]_dispatchVars /\ WF_dispatchVars(DispatchNext)

-----------------------------------------------------------------------------

\* An error document never decides about the status: whatever becomes of the
\* forwarded requests, the client is told a status that an application gave
\* which was not called for an error document (errordocument.py 57-83: also
\* the answer to a loop goes through keep_status_start_response).
ErrorDocumentKeepsStatus == {told[i] : i \in DOMAIN told} \subseteq given

\* Each application finds the request's body whole, whatever the ones tried
\* before it have read of it (cascade.py 86-121), unless it was forwarded.
BodyIsWhole == ~hungry

\* Whatever is forwarded to whatever, and whichever error documents are
\* missing themselves, a request ends (recursive.py 41-49).
EveryRequestEnds == <>(over # None)
=============================================================================
