----------------------------- MODULE HttpErrors -----------------------------
(***************************************************************************)
(* The exceptions of httpexceptions.py: how they are made from a detail and  *)
(* a list of headers, which is an object that stays the raiser's, and how    *)
(* HTTPExceptionHandler answers a request with one, as often as it is        *)
(* raised.                                                                   *)
(*                                                                           *)
(* A header is <<name, value>>.  A location is [base, path], where base is   *)
(* None for one that is sent as it was given.  Of an answer's body the model *)
(* keeps its kind and the location it links to; titles and explanations are  *)
(* left out.                                                                 *)
(***************************************************************************)
EXTENDS Subsequences

CONSTANTS
    Raised,         \* codes of the exceptions a program raises
    GivenHeaders,   \* lists of headers, not empty, a program passes to exceptions
    Path,           \* details, which for a redirection may be its location
    HttpRequests,   \* requests: base (the URL), keys (of the environ), html (accepted)
    MaxRaised,      \* bound on the exceptions made
    None

VARIABLES
    lists,      \* the lists of headers a program passes, by number: now; history: built, told
                \* (the locations written in it or told by those it was passed by), passed, shared
    excs,       \* exceptions made: code, list (0: no headers), told (history)
    answer      \* the last answer: exc, request, headers, body, link; failed

errorVars == <<lists, excs, answer>>

\* Classes with a code; a move needs its location, 405 what it allows.
Moves == {300, 301, 302, 303, 305, 307}
Redirections == Moves \cup {304}
ClientErrors == 400..417 \cup {429}
ServerErrors == 500..505

\* get_exception: only these codes have a class.
Codes == Redirections \cup ClientErrors \cup ServerErrors

Required(code) ==
    CASE code \in Moves -> {"location"} [] code = 405 -> {"allow"} [] OTHER -> {}

\* What a template of its own takes from the environ or the headers.
Keys(code) ==
    CASE code \in Moves -> {"location"}
      [] code \in {405, 501} -> {"REQUEST_METHOD"}
      [] code = 406 -> {"HTTP_ACCEPT"}
      [] code = 415 -> {"CONTENT_TYPE"}
      [] OTHER -> {}

Lower(name) == IF name = "Location" THEN "location" ELSE name

\* A mutant: names are compared as they are.
NamedPlain(headers, name) == ElementsAt(headers, {i \in DOMAIN headers : headers[i][1] = name})

\* Names of headers are compared in lower case: header_value and has_header.
At(headers, name) == {i \in DOMAIN headers : Lower(headers[i][1]) = name}
Named(headers, name) == ElementsAt(headers, At(headers, name))

\* replace_header: the header takes the place of the one there was, or the end.
ReplaceHeader(headers, name, value) ==
    IF At(headers, name) = {} THEN Append(headers, <<name, value>>)
    ELSE [i \in DOMAIN headers |-> IF Lower(headers[i][1]) = name THEN <<name, value>> ELSE headers[i]]

ErrorsInit ==
    /\ lists = <<>> /\ excs = <<>> /\ answer = None

\* Bound on the headers that a list is passed with.
MaxHeaders == MaxRaised + 1

Locations(headers) == {headers[i][2] : i \in At(headers, "location")}

NewList(headers) ==
    [now |-> headers, built |-> headers, told |-> Locations(headers), passed |-> FALSE, shared |-> FALSE]

\* A program makes a list of headers, when it has used those it made before.
BuildList(headers) ==
    /\ Len(excs) < MaxRaised /\ Len(lists) < MaxRaised
    /\ \A l \in DOMAIN lists : lists[l].passed
    /\ lists' = Append(lists, NewList(headers))
    /\ UNCHANGED <<excs, answer>>

\* One list may be passed to any number of exceptions.
Passes(l) == /\ Len(excs) < MaxRaised
             /\ l \in {0} \cup {k \in DOMAIN lists : Len(lists[k].now) < MaxHeaders}
PutList(l, headers, told) ==
    [lists EXCEPT ![l] = [lists[l] EXCEPT !.now = headers, !.told = lists[l].told \cup told,
                                          !.shared = lists[l].passed, !.passed = TRUE]]
Passed(l) == IF l = 0 THEN <<>> ELSE lists[l].now

\* History: the location the raiser wrote in the list, or else the detail.
Told(l, detail) ==
    LET there == IF l = 0 THEN {} ELSE At(lists[l].built, "location")
    IN  IF there = {} THEN detail ELSE lists[l].built[Pick(there)][2]

\* HTTPException.__init__, for classes that need no location
Make(code, l) ==
    /\ Passes(l) /\ code \notin Moves
    /\ \A name \in Required(code) : Named(Passed(l), name) # <<>>
    /\ excs' = Append(excs, [code |-> code, list |-> l, told |-> None])
    /\ lists' = IF l = 0 THEN lists ELSE PutList(l, Passed(l), {})
    /\ UNCHANGED answer

\* _HTTPMove.__init__: the detail is the location if no header is; it is
\* appended to the raiser's list, even if it is none and the assertion after it
\* fails.  Then it is in the list, and a later exception fails to join it with
\* others.  A list with no header, or none, is replaced.
Moved(code, l, headers, detail, told) ==
    LET location == Named(headers, "location")
        full == IF location = <<>> THEN Append(headers, <<"location", detail>>) ELSE headers
        n == IF l = 0 THEN Len(lists) + 1 ELSE l
        fails == None \in Locations(full)
    IN  /\ lists' = IF l # 0 THEN PutList(l, full, {told})
                    ELSE IF fails THEN lists
                    ELSE Append(lists, [NewList(full) EXCEPT !.passed = TRUE])
        /\ excs' = IF fails THEN excs ELSE Append(excs, [code |-> code, list |-> n, told |-> told])
        /\ UNCHANGED answer

MakeMove(code, l, detail) ==
    /\ Passes(l) /\ code \in Moves
    /\ Len(lists) < 2 * MaxRaised
    /\ Moved(code, l, Passed(l), detail, Told(l, detail))

\* relative_redirect: the location, resolved, is appended to the list.  A
\* caller that gives a location does not also give it in the headers.
RelativeRedirect(code, l, path, request) ==
    LET location == [base |-> request.base, path |-> path]
    IN  /\ Passes(l) /\ code \in Moves /\ Told(l, None) = None
        /\ Len(lists) < 2 * MaxRaised
        /\ Moved(code, l, Append(Passed(l), <<"Location", location>>), None, location)

Headers(e) == IF excs[e].list = 0 THEN <<>> ELSE lists[excs[e].list].now

\* make_body: a template of its own is filled in from the environ and the
\* headers, of which a later one overrides an earlier one.
Arguments(e, request) == request.keys \cup {Lower(Headers(e)[i][1]) : i \in DOMAIN Headers(e)}
BodyFails(e, request) == ~(Keys(excs[e].code) \subseteq Arguments(e, request))

\* prepare_content, plain and html, on a copy of the headers
Content(request) == IF request.html THEN "html" ELSE "plain"
Last(headers) == headers[Len(headers)]
Link(e) == IF excs[e].code \in Moves THEN Last(Named(Headers(e), "location"))[2] ELSE None
Prepared(e, request) ==
    [exc |-> e, request |-> request,
     headers |-> ReplaceHeader(Headers(e), "content-type", Content(request)),
     body |-> IF excs[e].code = 304 THEN "empty" ELSE Content(request),
     link |-> Link(e), failed |-> FALSE]

\* wsgi_application, or response, of an exception that is raised
Answer(e, request) ==
    /\ e \in DOMAIN excs
    /\ answer' = IF excs[e].code # 304 /\ BodyFails(e, request)     \* KeyError
                 THEN [exc |-> e, request |-> request, failed |-> TRUE]
                 ELSE Prepared(e, request)
    /\ UNCHANGED <<lists, excs>>

ErrorsNext ==
    \/ \E headers \in GivenHeaders : BuildList(headers)
    \/ \E code \in Raised \cap Codes, l \in 0..(2 * MaxRaised) :
          \/ Make(code, l)
          \/ \E detail \in [base : {None}, path : Path] \cup {None} : MakeMove(code, l, detail)
          \/ \E path \in Path, request \in HttpRequests : RelativeRedirect(code, l, path, request)
    \/ \E e \in 1..MaxRaised, request \in HttpRequests : Answer(e, request)

ErrorsSpec == ErrorsInit /\ [][ErrorsNext]_errorVars

-----------------------------------------------------------------------------

\* However often an exception is raised, and whatever was answered or made before, the answer
\* has one content type, the one its request accepts.  A redirection whose list was passed to
\* no other exception has one location, the one its raiser told, which its body links to too;
\* the locations of any exception are among those that were told with its own list: they never
\* come from an exception with another one (httpexceptions.py 174-263, 317-349).
AnswersAsRaised ==
    answer # None /\ ~answer.failed =>
        LET exc == excs[answer.exc]
            given == Named(answer.headers, "location")
        IN  /\ Named(answer.headers, "content-type") = <<<<"content-type", Content(answer.request)>>>>
            /\ exc.told # None /\ ~lists[exc.list].shared =>
                   answer.link = exc.told /\ [i \in DOMAIN given |-> given[i][2]] = <<exc.told>>
            /\ \A i \in DOMAIN given : given[i][2] \in lists[exc.list].told
            /\ exc.code \in Moves => answer.link \in lists[exc.list].told

\* Every exception that could be made can be answered with, whatever headers the
\* request has.  It does not hold: the templates of 406 and 415 name headers.
EveryExceptionAnswers == answer # None => ~answer.failed
=============================================================================
