----------------------------- MODULE MCServices -----------------------------
(***************************************************************************)
(* Services for TLC, and beside its components those for the data that       *)
(* requests and answers are made of, in the same way: a behaviour is one of  *)
(* Services with variables that it does not have.  What a configuration file *)
(* cannot write of the constants is here.                                    *)
(***************************************************************************)
EXTENDS Services, TLC

\* Nothing tells the two threads of FileApp apart.
Symmetric == Permutations(FileThread)

\* FileApp: single and several ranges.
MCRanges == {None, <<<<0, 0>>>>, <<<<1, 1>>, <<0, 1>>>>, <<<<0, None>>, <<1, None>>>>}

\* Headers: of an application that says nothing, and of one that says it twice.
Field(name, value) == [name |-> name, value |-> value]
Given == {<<>>, <<Field("content-type", "text"), Field("expires", 9), Field("x-other", "x"),
                  Field("expires", 8)>>}
MaxAge == {0, 3}
Guessed == {"text", None}
MaxClock == 2
MaxChanges == 2
Unknown == "application/octet-stream"

\* Response: default headers of both kinds.
MCDefaults == "cache-control" :> [one |-> "no-cache"] @@ "x" :> [values |-> <<"b">>]

\* Request: a query and a body with repeated names, a body without fields.
Query == "q" :> <<"a", "b", "a">> @@ "r" :> <<"a">>
Body == "form" :> <<"a", "c", "a">> @@ "none" :> <<>>
CookieHeader == {{}, {"k"}, {"k", "l"}}
Form == TRUE
RequestCalls == 3

\* IntSet: ranges that touch, overlap, reach both infinities or are empty.
Low == 0
High == 5
RangeLists ==
    {<<>>, <<<<2, 2>>, <<1, 2>>>>, <<<<2, 2>>, <<3, 3>>>>, <<<<2, 2>>, <<1, 3>>>>,
     <<<<Low, 2>>, <<1, 1>>>>, <<<<3, High>>>>}
Arguments == [ranges : RangeLists, min : {Low}, max : {High, 2}]
             \cup [ranges : RangeLists, min : {2}, max : {High}]
Operation == {"intersection", "union", "difference", "symmetric_difference", "issubset",
              "istruesubset", "issuperset", "eq", "overlaps"}

\* Wsgi: a path that doubles its prefix, and one with a question mark.
MCWsgiRequest == [uri : {<<"/", "a", "/", "x">>, <<"/", "a", "x", "?">>},
                  prefix : {<<>>, <<"/", "a">>}, input : BOOLEAN]

\* Auth: digest authentication alone, and a range of addresses, a form or basic
\* authentication that a cookie keeps.
Map(in, user) == <<[in |-> in, user |-> user], [in |-> ~in, user |-> IF in THEN "ann" ELSE ""]>>
Choice == <<[holds |-> FALSE, method |-> "form"], [holds |-> TRUE, method |-> "digest"]>>
MCConfig ==
    {[ipMap |-> Map(FALSE, "joe"), clobber |-> FALSE, predicate |-> Choice, default |-> "form",
      keeps |-> "none"]}
    \cup [ipMap : {Map(TRUE, "joe"),
                   <<[in |-> TRUE, user |-> "joe"], [in |-> TRUE, user |-> "__remove__"]>>},
          clobber : BOOLEAN, predicate : {<<>>}, default : {"basic", "form"},
          keeps : {"none", "cookie", "tkt"}]

\* WebTest: pages with a form of each method and every kind of field, and a
\* redirection, an error and an unexpected status.
Tag(tag, type, name, value, on) == [tag |-> tag, type |-> type, name |-> name, value |-> value, on |-> on]
Open(method, action) == Tag("form", method, None, action, FALSE)
Close == Tag("/form", None, None, None, FALSE)
Page ==
    [search |-> <<Tag("text", None, None, None, FALSE), Open("GET", ""),
                  Tag("input", "text", "q", None, FALSE), Tag("input", "checkbox", "all", None, FALSE),
                  Tag("input", "submit", "go", "Go", FALSE), Close>>,
     order |-> <<Tag("text", None, None, None, FALSE), Open("POST", "/buy"),
                 Tag("input", "radio", "size", "s", FALSE), Tag("input", "hidden", "q", "h", FALSE),
                 Tag("input", "radio", "size", "m", TRUE), Tag("select", None, "many", None, FALSE),
                 Tag("option", None, None, "1", FALSE), Tag("option", None, None, "2", TRUE), Close,
                 Open("POST", "/buy"), Tag("select", None, "many", None, FALSE),
                 Tag("/select", None, None, None, FALSE), Close>>,
     first |-> <<Open("GET", ""), Close>>]
AnswerOf(status, name, location, set, errors) ==
    [status |-> status, page |-> name, location |-> location, cookies |-> set, errors |-> errors]
Answers == {AnswerOf(200, "search", None, [c |-> "1"], FALSE), AnswerOf(404, "order", None, [d |-> "1"], FALSE),
            AnswerOf(302, "first", "/buy", [c |-> "2"], FALSE), AnswerOf(200, "first", None, [d |-> "1"], TRUE)}
TestPath == {"/"}
TestMethods == {"POST"}
Params == {<<<<"q", "x">>>>}
Expected == {None, {404}}
Values == {"s", ""}
MaxRequests == 3
MaxEdits == 1

\* FormData: values around the lengths of a chunk, of what stays in memory and of
\* the ends of lines; nested forms, and forms of the other two types.
Chunk == 3
Memory == 2
MaxFields == 3
KeepBlank == TRUE
NewLine == <<"cr", "lf">>
Contents ==
    {<<>>, <<"x">>, <<"cr", "lf">>, <<"x", "x", "x", "cr", "lf">>, <<"x", "x", "cr", "lf", "x">>,
     <<"x", "x", "x", "outer", "cr", "lf">>, <<"cr", "cr", "lf">>, <<"x", "u1", "u2">>,
     <<"x", "x", "u1", "u2">>, <<"x", "x", "cr", "outer", "x">>, <<"lf", "x">>, <<"x", "x", "cr">>,
     <<"x", "outer--">>, <<"x", "x", "cr", "x", "lf">>}
Part(name, kind, value) == [name |-> name, kind |-> kind, value |-> value, parts |-> <<>>]
Leaf == {Part("a", kind, value) : kind \in {"field", "file"}, value \in Contents}
Nested == {[name |-> "a", kind |-> "multi", value |-> <<>>, parts |-> inside] :
           inside \in {<<p>> : p \in Leaf} \cup
                    {<<Part("b", "file", <<"x">>), Part("a", "field", <<>>)>>}}
Queries == {<<>>, <<Part("a", "field", <<"x">>)>>}
Sent(type, before, fields, sized, parts, ended, preamble) ==
    [type |-> type, query |-> before, fields |-> fields, sized |-> sized, parts |-> parts,
     ended |-> ended, preamble |-> preamble]
FormRequests ==
    {Sent("multi", q, <<>>, sized, <<p>>, end, pre) :
        q \in Queries, sized \in BOOLEAN, p \in Leaf, end \in {<<>>, NewLine}, pre \in {<<>>, <<"x">> \o NewLine}}
    \cup {Sent("multi", <<>>, <<>>, sized, <<p, Part("b", "field", <<"x">>)>>, NewLine, <<>>) :
        sized \in BOOLEAN, p \in Leaf}
    \cup {Sent("multi", <<>>, <<>>, TRUE, <<Part("a", "field", <<>>), p, Part("b", "file", <<"x">>)>>, <<>>, <<>>) :
        p \in Nested}
    \cup {Sent("multi", q, <<>>, FALSE, <<p>>, NewLine, <<>>) : q \in Queries, p \in Nested}
    \cup {Sent("fields", q, f, sized, <<>>, <<>>, <<>>) : q \in Queries, sized \in BOOLEAN,
           f \in {<<>>, <<Part("b", "field", <<>>), Part("a", "field", <<"x">>)>>}}
    \cup {Sent("single", q, <<>>, sized, <<p>>, <<>>, <<>>) :
        q \in Queries, sized \in BOOLEAN, p \in {l \in Leaf : l.kind = "field"}}
HeaderFields ==
    [ha |-> [name |-> "a", kind |-> "field"], fa |-> [name |-> "a", kind |-> "file"],
     hb |-> [name |-> "b", kind |-> "field"], fb |-> [name |-> "b", kind |-> "file"],
     ma |-> [name |-> "a", kind |-> "multi"]]

\* Reports: tracebacks of four frames with every pair of ways to hide them, and of
\* three with supplements, decorators and the collector itself.
Frame(hide, supplement, decorator, collecting) ==
    [n |-> 0, hide |-> hide, supplement |-> supplement, decorator |-> decorator, collecting |-> collecting]
Extra(importance, title) == [importance |-> importance, title |-> title]
Supplement(url, extra) == [raises |-> FALSE, url |-> url, extra |-> extra]
OfRequest == Supplement(TRUE, {Extra("extra", "CGI Variables")})
Hides == {"no", "yes", "before", "before_and_this", "after", "after_and_this", "reset", "reset_and_this"}
Numbered(frames) == [n \in DOMAIN frames |-> [frames[n] EXCEPT !.n = n]]
MCExceptions ==
    {[frames |-> Numbered(<<Frame("no", OfRequest, "none", FALSE), Frame(h, None, "none", FALSE),
                            Frame(g, None, "none", FALSE), Frame(k, None, "none", FALSE)>>),
      importing |-> FALSE] : h \in Hides, g \in Hides, k \in {"no", "after_and_this"}}
    \cup {[frames |-> Numbered(<<Frame("no", s, "none", FALSE), Frame("yes", None, d, FALSE),
                                 Frame("no", None, "none", c)>>),
           importing |-> imp] :
           imp \in BOOLEAN, c \in BOOLEAN, d \in {"none", "last"},
           s \in {OfRequest, [OfRequest EXCEPT !.raises = TRUE], None,
                  Supplement(FALSE, {Extra("extra", "a"), Extra("extra", None)}),
                  Supplement(FALSE, {Extra("normal", None)})}}
MCConfigs == {{}, {"email", "stream"}, {"log", "html", "debug"}, {"email", "log", "stream", "html", "simple"}}

\* HttpErrors: redirections, an answer without a body, and one whose template
\* names a header that a request need not have.
There == [base |-> None, path |-> "there"]
MCGivenHeaders == {<<<<"set-cookie", "c">>>>, <<<<"set-cookie", "c">>, <<"Location", There>>>>,
                 <<<<"allow", "GET">>, <<"content-type", "odd">>>>}
MCHttpRequests == [base : {"host"}, html : BOOLEAN,
                 keys : {{"REQUEST_METHOD"}, {"REQUEST_METHOD", "HTTP_ACCEPT"}}]

\* Url: a path, a variable and a parameter.
MCSegments == {<<>>, <<"a">>}

\* Template: every directive beside every other, conditions in loops with jumps and line
\* ends, and a statement with a blank before it.
Means(d, var, arg, colon, good, html) ==
    [d |-> d, var |-> var, arg |-> arg, colon |-> colon, good |-> good, html |-> html]
Simple(d) == Means(d, None, None, FALSE, FALSE, FALSE)
Directive ==
    [if |-> Means("if", None, "x", FALSE, TRUE, FALSE), ifi |-> Means("if", None, "i", TRUE, TRUE, FALSE),
     elif |-> Means("elif", None, "y", FALSE, TRUE, FALSE), else |-> Simple("else"),
     elsec |-> Means("else", None, None, TRUE, FALSE, FALSE), endif |-> Simple("endif"),
     for |-> Means("for", "i", "x", FALSE, TRUE, FALSE), forbad |-> Simple("for"), endfor |-> Simple("endfor"),
     break |-> Simple("break"), continue |-> Simple("continue"), bare |-> Simple("bare"),
     comment |-> Simple("comment"), py |-> Means("py", "y", <<"b">>, FALSE, TRUE, FALSE),
     default |-> Means("default", "y", <<"c">>, FALSE, TRUE, FALSE),
     x |-> Means("expr", None, "x", FALSE, TRUE, FALSE), y |-> Means("expr", None, "y", FALSE, TRUE, TRUE),
     i |-> Means("expr", None, "i", FALSE, TRUE, FALSE), junk |-> Simple("expr")]
Braced(name) == <<"{{", name, "}}">>
Pieces == {Braced(name) : name \in DOMAIN Directive \ {"junk"}}
          \cup {<<"nl">>, <<"t">>, <<"{{", "sp", "if", "}}">>, <<"{{">>}
Inner == {Braced(name) : name \in {"i", "else", "continue", "break"}} \cup {<<"nl">>, <<"t", "sp">>}
Loop == Braced("for") \o <<"t", "nl">>
Sources ==
    {p \o q : p \in Pieces, q \in Pieces} \cup {Braced("if") \o p \o Braced("endif") : p \in Pieces}
    \cup {Loop \o Braced("ifi") \o p \o q \o r \o Braced("endif") \o <<"nl">> \o Braced("endfor") :
            p \in Inner, q \in Inner, r \in Inner}
    \cup {Loop \o Braced("for") \o p \o q \o Braced("endfor") \o Braced("i") \o Braced("endfor") :
            p \in Inner, q \in Inner}
    \cup {Braced("py") \o Braced("if") \o p \o Braced("elif") \o q \o Braced("else") \o Braced("x")
            \o Braced("endif") : p \in Pieces, q \in Pieces}
Namespace == "z" :> <<"z">>
Calls == {"x" :> <<"a", "b">>, "x" :> <<>> @@ "y" :> <<"<">>}
MaxSubstitutes == 2

\* Debugger: one exception, code that prints twice, fails, or leaves; a frame that is not there.
ToDebug(method, n, f, in) == [method |-> method, count |-> n, frame |-> f, input |-> in]
MCDebugAsked == {ToDebug("view", 1, "f", ""), ToDebug("show_frame", 1, "f", ""), ToDebug("show_frame", 2, "f", "")}
              \cup {ToDebug("exec_input", 1, f, in) : f \in {"f", "g"}, in \in {"print", "fail", "leave", ""}}
MCProgram == [print |-> [prints |-> 2, ends |-> "well"], fail |-> [prints |-> 1, ends |-> "exception"],
            leave |-> [prints |-> 1, ends |-> "exit"]]

VARIABLES
    clock, headers, expires, control, changes, sent, ordered,
    query, cookie, input, stream, object, cache, result, calls,
    args, operation, i, j, curval, states, segments,
    namespace, cookies, testResponse, pending, edited, testRequests, edits,
    formRequest, rest, stack, outcome,
    source, quotes, parsed, rendered, substitutes

-----------------------------------------------------------------------------
H == INSTANCE Headers
Q == INSTANCE Request WITH MaxCalls <- RequestCalls
I == INSTANCE IntSet
T == INSTANCE WebTest WITH
        response <- testResponse, requests <- testRequests, Methods <- TestMethods, Path <- TestPath
D == INSTANCE FormData WITH request <- formRequest
L == INSTANCE Template

headersVars == <<clock, headers, expires, control, changes, sent, ordered>>
requestVars == <<query, cookie, input, stream, object, cache, result, calls>>
intsetVars == <<args, operation, i, j, curval, states, segments>>
webtestVars == <<namespace, cookies, testResponse, pending, edited, testRequests, edits>>
formVars == <<formRequest, rest, stack, outcome>>
templateVars == <<source, quotes, parsed, rendered, substitutes>>

HeadersIdle ==
    /\ clock = None /\ headers = None /\ expires = None /\ control = None /\ changes = None
    /\ sent = None /\ ordered = None
RequestIdle ==
    /\ query = None /\ cookie = None /\ input = None /\ stream = None /\ object = None
    /\ cache = None /\ result = None /\ calls = None
IntSetIdle ==
    /\ args = None /\ operation = None /\ i = None /\ j = None /\ curval = None
    /\ states = None /\ segments = None
WebTestIdle ==
    /\ namespace = None /\ cookies = None /\ testResponse = None /\ pending = None
    /\ edited = None /\ testRequests = None /\ edits = None
FormDataIdle ==
    /\ formRequest = None /\ rest = None /\ stack = None /\ outcome = None
TemplateIdle ==
    /\ source = None /\ quotes = None /\ parsed = None /\ rendered = None
    /\ substitutes = None

MCInit ==
    /\ Init
    /\ IF component = "headers" THEN H!HeadersInit ELSE HeadersIdle
    /\ IF component = "request" THEN Q!RequestInit ELSE RequestIdle
    /\ IF component = "intset" THEN I!IntSetInit ELSE IntSetIdle
    /\ IF component = "webtest" THEN T!WebTestInit ELSE WebTestIdle
    /\ IF component = "form" THEN D!FormInit ELSE FormDataIdle
    /\ IF component = "template" THEN L!TemplateInit ELSE TemplateIdle

MCNext ==
    /\ Next
    /\ IF component = "headers" THEN H!HeadersNext ELSE UNCHANGED headersVars
    /\ IF component = "request" THEN Q!RequestNext ELSE UNCHANGED requestVars
    /\ IF component = "intset" THEN I!IntSetNext ELSE UNCHANGED intsetVars
    /\ IF component = "webtest" THEN T!WebTestNext ELSE UNCHANGED webtestVars
    /\ IF component = "form" THEN D!FormNext ELSE UNCHANGED formVars
    /\ IF component = "template" THEN L!TemplateNext ELSE UNCHANGED templateVars

MCSpec == MCInit /\ [][MCNext]_<<vars, headersVars, requestVars, intsetVars, webtestVars, formVars, templateVars>>

-----------------------------------------------------------------------------
\* Nothing is kept longer than the program said (Headers).
NotKeptBeyond == component = "headers" => H!NotKeptBeyond

\* What a request is asked for is what its environ says now (Request).
ResultsAreCurrent == component = "request" => Q!ResultsAreCurrent /\ Q!ViewsAgree

\* An operation on two sets of integers is the one on sets (IntSet).
OperationIsRight == component = "intset" => I!OperationIsRight

\* A form is submitted with what it shows (WebTest).
SubmittedAsShown == component = "webtest" => T!SubmittedAsShown

\* What is read is what was written: the fields of a form that was sent (FormData), and the
\* directives of a template (Template).
FieldsAsSent == (component = "form" => D!FieldsAsSent) /\ (component = "template" => L!RendersAsWritten)
=============================================================================
