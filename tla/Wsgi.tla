-------------------------------- MODULE Wsgi --------------------------------
(***************************************************************************)
(* One request through a gateway, perhaps lint, a middleware and an           *)
(* application: raw_interactive, mod_python or SCGI call the application,      *)
(* take what it writes and yields and close it.  The application starts its   *)
(* answer when it is called or when its iterator runs, again, or never, and   *)
(* fails at any step.  A status is the number of the call that gave it; an    *)
(* item of the body is its number, "page" one that a middleware made.         *)
(***************************************************************************)
EXTENDS Integers, Sequences, SequencesExt

CONSTANTS
    Request,     \* [uri, prefix, input]: sequences of characters; does raw_interactive get a body?
    Server,      \* of "raw_interactive", "modpython", "scgi"
    Middleware,  \* of "none", "gzip", "cgitb", "translogger", "flup", "intercept", "capture", "wdg"
    MaxStarts, MaxItems

NoBody == "none"

VARIABLES
    server, mid, lint,  \* the stack: is lint below the server?
    request,
    pc,          \* what runs: start, call, drain, iterate, close, raised, done
    where,       \* what the exception interrupted
    body,        \* what the application returned: none, a list, an iterator
    page,        \* does an answer of the middleware stand for it?
    starts, items,      \* of the application: calls of start_response, items given and written
    closes,      \* calls of close of the iterator
    seen,        \* by the server: status (0 before one), sent, out, error
    started,     \* start_response_started of lint
    held,        \* what the middleware keeps: status, items, compress, with the wrapper decided for it
    service      \* calls of close of the session service of flup

wsgiVars == <<server, mid, lint, request, pc, where, body, page, starts, items, closes, seen, started, held, service>>

InText == {"intercept", "capture", "wdg"}      \* collect in a StringIO, which takes no bytes
Drains == InText \cup {"gzip"}                 \* run the iterator before they return
Keeps == {"gzip", "intercept"}                 \* do not pass start_response on

WsgiInit ==
    /\ server \in Server /\ mid \in Middleware /\ lint \in BOOLEAN /\ request \in Request
    /\ pc = "start" /\ where = "call" /\ body = NoBody /\ page = FALSE
    /\ starts = 0 /\ items = 0 /\ closes = 0 /\ service = 0
    /\ seen = [status |-> 0, sent |-> FALSE, out |-> <<>>, error |-> FALSE]
    /\ started = FALSE
    /\ held = [status |-> 0, items |-> <<>>, compress |-> FALSE, zip |-> FALSE]

Stack == <<server, mid, lint, request>>
Raise(at) == pc' = "raised" /\ where' = at

-----------------------------------------------------------------------------
(* The environ that each gateway makes of a request.                         *)

Path(uri) ==
    LET query == SelectInSeq(uri, LAMBDA c : c = "?")
    IN  IF query = 0 THEN uri ELSE SubSeq(uri, 1, query - 1)
Behind(uri, prefix) == SubSeq(uri, Len(prefix) + 1, Len(uri))

\* raw_interactive counts the bytes of its input, as a number.
RawEnviron(r) == [script |-> <<>>, path |-> Path(r.uri), length |-> IF r.input THEN "int" ELSE "none"]
ModpythonEnviron(r) == [script |-> r.prefix, path |-> Behind(Path(r.uri), r.prefix), length |-> "str"]
ScgiEnviron(r) == [script |-> r.prefix, path |-> Path(Behind(r.uri, r.prefix)), length |-> "str"]

Environ ==
    CASE server = "raw_interactive" -> RawEnviron(request)
      [] server = "modpython" -> ModpythonEnviron(request)
      [] server = "scgi" -> ScgiEnviron(request)

\* What lint asserts of an environ: strings, and paths that begin with a slash.
CheckEnviron(environ) ==
    /\ environ.length # "int"
    /\ environ.script # <<>> => environ.script[1] = "/" /\ environ.script # <<"/">>
    /\ environ.path # <<>> => environ.path[1] = "/"

Call ==
    /\ pc = "start"
    /\ IF lint /\ ~CheckEnviron(Environ) THEN Raise("lint") ELSE pc' = "call" /\ UNCHANGED where
    /\ UNCHANGED <<Stack, body, page, starts, items, closes, seen, started, held, service>>

-----------------------------------------------------------------------------
(* start_response, from the application up to the server.                    *)

\* Each gateway's start_response: its headers are sent, or set already.  SCGI keeps all
\* output until the end; mod_python takes any number of calls.
RawRefuses(exc) == IF exc THEN seen.sent ELSE seen.status # 0
ScgiRefuses(exc) == ~exc /\ seen.status # 0
ModpythonRefuses(exc) == exc /\ seen.sent

Refuses(exc) ==
    CASE server = "raw_interactive" -> RawRefuses(exc)
      [] server = "scgi" -> ScgiRefuses(exc)
      [] server = "modpython" -> ModpythonRefuses(exc)

\* What lint refuses an answer for.
Illegal == {"status", "headers", "content_type", "exc_info"}

\* translogger forgets exc_info.
Forwarded(exc) == exc /\ mid # "translogger"

\* lint sees the call; the server takes or refuses it.
Pass(status, exc, at) ==
    /\ started' = TRUE
    /\ IF Refuses(exc) THEN Raise(at) /\ UNCHANGED seen
       ELSE UNCHANGED <<pc, where>> /\ seen' = [seen EXCEPT !.status = status]

Running == pc = "call" \/ (pc \in {"drain", "iterate"} /\ body = "iterator" /\ ~page)

\* gzip, intercept_output, capture_output and wdg note the status.
Noted(compressible) ==
    IF mid \in Drains THEN [held EXCEPT !.status = starts', !.compress = compressible] ELSE held

\* lint checks before it passes anything on.
LintRefuses(fault) == lint /\ fault \in Illegal

\* The application gives a status; compressible is its type, fault what is wrong with it.
StartResponse(exc, compressible, fault) ==
    /\ Running /\ starts < MaxStarts
    /\ exc => starts > 0
    /\ starts' = starts + 1
    /\ held' = Noted(compressible)
    /\ IF mid \in Keeps THEN UNCHANGED <<pc, where, seen, started>>
       ELSE IF LintRefuses(fault) THEN Raise(pc) /\ UNCHANGED <<seen, started>>
       ELSE Pass(starts', Forwarded(exc), pc)
    /\ UNCHANGED <<Stack, body, page, items, closes, service>>

\* mod_python sends an item at once, SCGI keeps it.
ModpythonSends == server = "modpython"

\* The write callable that start_response returned.
Write ==
    /\ Running /\ starts > 0 /\ items < MaxItems
    /\ items' = items + 1
    /\ CASE mid \in InText -> Raise(pc) /\ UNCHANGED <<seen, held>>
         [] mid = "gzip" -> held' = [held EXCEPT !.items = Append(@, items')] /\ UNCHANGED <<pc, where, seen>>
         [] OTHER -> /\ seen' = [seen EXCEPT !.out = Append(@, items'), !.sent = ModpythonSends \/ @]
                     /\ UNCHANGED <<pc, where, held>>
    /\ UNCHANGED <<Stack, body, page, starts, closes, started, service>>

Fail ==
    /\ Running /\ Raise(pc)
    /\ UNCHANGED <<Stack, body, page, starts, items, closes, seen, started, held, service>>

-----------------------------------------------------------------------------
(* The return of the application, and its items.                             *)

\* intercept_output looks at the status before it runs the iterator.
InterceptFails == held.status = 0

Return(kind) ==
    /\ pc = "call"
    /\ body' = kind
    /\ IF mid = "intercept" /\ InterceptFails THEN Raise("call")
       ELSE pc' = (IF mid \in Drains THEN "drain" ELSE "iterate") /\ UNCHANGED where
    /\ held' = [held EXCEPT !.zip = @ \/ held.compress]
    /\ UNCHANGED <<Stack, page, starts, items, closes, seen, started, service>>

\* raw_interactive takes bytes, and only after a status; lint wants the status too.
RawRefusesItem == (seen.status = 0) \/ mid \in InText
LintRefusesItem == ~started

Receive(item, refused) ==
    IF refused THEN Raise("taken") /\ UNCHANGED seen
    ELSE /\ UNCHANGED <<pc, where>>
         /\ seen' = [seen EXCEPT !.sent = server = "raw_interactive" \/ ModpythonSends, !.out = Append(@, item)]

\* What the server iterates over gives an item.
TakeItem(item) ==
    Receive(item, (lint /\ LintRefusesItem) \/ (server = "raw_interactive" /\ RawRefusesItem))

Give ==
    /\ pc \in {"drain", "iterate"} /\ ~page /\ items < MaxItems
    /\ items' = items + 1
    /\ CASE pc = "iterate" -> TakeItem(items') /\ UNCHANGED held
         [] pc = "drain" /\ mid = "gzip" ->
              held' = [held EXCEPT !.items = Append(@, items')] /\ UNCHANGED <<pc, where, seen>>
         [] OTHER -> Raise("drain") /\ UNCHANGED <<seen, held>>
    /\ UNCHANGED <<Stack, body, page, starts, closes, started, service>>

\* close of the iterator, which may fail; a list has none.
Close == closes' = IF body = "iterator" THEN closes + 1 ELSE closes

\* gzip that found only later that it should compress has closed its own buffer.
GzipFails == held.status = 0 \/ (held.compress /\ ~held.zip)
WdgFails == starts # 1

\* The middleware has what it wanted: it closes, and gives its own answer.
Drained(fails) ==
    /\ pc = "drain" /\ Close
    /\ fails => body = "iterator"
    /\ IF fails \/ (mid = "gzip" /\ GzipFails) \/ (mid = "wdg" /\ WdgFails)
       THEN Raise("closed") /\ UNCHANGED <<page, seen, started>>
       ELSE /\ page' = TRUE
            /\ IF mid \notin Keeps THEN pc' = "iterate" /\ UNCHANGED <<where, seen, started>>
               ELSE /\ started' = TRUE /\ pc' = "iterate" /\ UNCHANGED where
                    /\ seen' = [seen EXCEPT !.status = held.status]
    /\ UNCHANGED <<Stack, body, starts, items, held, service>>

\* A page is one item; then as after the last item of an iterator.
GivePage ==
    /\ pc = "iterate" /\ page /\ items <= MaxItems
    /\ items' = MaxItems + 1
    /\ TakeItem("page")
    /\ UNCHANGED <<Stack, body, page, starts, closes, started, held, service>>

-----------------------------------------------------------------------------
(* The end: what is closed, by whom.                                         *)

\* raw_interactive needs a status to return; SCGI makes an answer of its own.
Finish(fails) ==
    /\ pc' = "done"
    /\ seen' = [seen EXCEPT !.error = @ \/ fails \/ seen.status = 0]

\* add_close closes the iterator and then the session.
AddClose(fails) == mid = "flup" /\ ~fails

\* cgitb's generator closes the iterator itself, and gives a page if that fails.
Exhausted(fails) ==
    /\ pc = "iterate" /\ (page => items > MaxItems)
    /\ fails => body = "iterator" /\ ~page
    /\ IF page THEN UNCHANGED closes ELSE Close
    /\ service' = IF AddClose(fails) THEN service + 1 ELSE service
    /\ IF mid = "cgitb" /\ fails
       THEN page' = TRUE /\ UNCHANGED <<pc, seen>>
       ELSE Finish(fails) /\ UNCHANGED page
    /\ UNCHANGED <<Stack, where, body, starts, items, started, held>>

\* The exception of the application reaches cgitb: a page, which has a status of its own
\* only if the application was not iterating.
CaughtByCgitb ==
    /\ pc = "raised" /\ mid = "cgitb" /\ where \in {"call", "iterate"}
    /\ page' = TRUE
    /\ IF where = "call"
       THEN /\ started' = TRUE
            /\ IF Refuses(TRUE) THEN Finish(TRUE)
               ELSE pc' = "iterate" /\ seen' = [seen EXCEPT !.status = MaxStarts + 1]
            /\ UNCHANGED closes
       ELSE pc' = "iterate" /\ Close /\ UNCHANGED <<started, seen>>
    /\ UNCHANGED <<Stack, where, body, starts, items, held, service>>

\* A mutant: gzip closes, and the server closes what it was given.
RawClosesPlain == where \in {"drain", "iterate", "taken", "closed"}

\* Who closes after an exception: the draining middleware, and raw_interactive and SCGI,
\* not mod_python; a generator of cgitb that is abandoned closes nothing.
DrainCloses == where = "drain"
RawCloses == where = "iterate" \/ (where = "taken" /\ mid # "cgitb" /\ ~page)
ScgiCloses == where = "iterate" \/ (where = "taken" /\ mid # "cgitb" /\ ~page)

ClosesAfter ==
    \/ DrainCloses
    \/ server = "raw_interactive" /\ RawCloses
    \/ server = "scgi" /\ ScgiCloses

\* flup closes its session when the application raises, and after what the server closes.
FlupCloses(fails) == mid = "flup" /\ ~fails /\ (where = "call" \/ ClosesAfter)

\* Nobody catches it, and the server gives up.
Uncaught(fails) ==
    /\ pc = "raised" /\ (mid = "cgitb" => where \notin {"call", "iterate"})
    /\ fails => ClosesAfter /\ body = "iterator"
    /\ IF ClosesAfter THEN Close ELSE UNCHANGED closes
    /\ service' = IF FlupCloses(fails) THEN service + 1 ELSE service
    /\ Finish(TRUE)
    /\ UNCHANGED <<Stack, where, body, page, starts, items, started, held>>

WsgiNext ==
    \/ \E exc, compressible \in BOOLEAN, fault \in Illegal \cup {"none"} : StartResponse(exc, compressible, fault)
    \/ Call \/ Write \/ Fail \/ Give \/ GivePage \/ CaughtByCgitb
    \/ \E kind \in {"list", "iterator"} : Return(kind)
    \/ \E fails \in BOOLEAN : Drained(fails) \/ Exhausted(fails) \/ Uncaught(fails)

WsgiSpec == WsgiInit /\ [][WsgiNext]_wsgiVars

-----------------------------------------------------------------------------

\* The iterator of the application is closed once, and not again by the next
\* who may: by the middleware that ran it, by the server, after the last item
\* or after a failure anywhere (wsgilib.py 360-374, 481-487, scgiserver.py
\* 110-133, gzipper.py 76-92, cgitb_catcher.py 52-76).  mod_python does not after a
\* failure, cgitb not when it is abandoned, intercept_output not without a status.
ClosedOnce ==
    /\ closes <= 1
    /\ pc = "done" /\ body = "iterator" /\ closes = 0 =>
          \/ server = "modpython" /\ seen.error
          \/ mid = "cgitb" /\ where = "taken"
          \/ mid = "intercept" /\ held.status = 0

=============================================================================
