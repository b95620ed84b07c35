------------------------------ MODULE Request ------------------------------
(***************************************************************************)
(* The environ of one request in the hands of middlewares and an application *)
(* that look at the query, the form and the cookies through the parsers of   *)
(* request.py and WSGIRequest (wsgiwrappers.py), in any order, change the     *)
(* environ in between, and change what they were given.  The parsers keep    *)
(* their results in the environ.                                             *)
(***************************************************************************)
EXTENDS MultiDict, FiniteSetsExt

CONSTANTS
    Query,      \* values of QUERY_STRING: name -> the words of its pairs
    Body,       \* bodies: name -> the words of its fields
    CookieHeader,  \* values of HTTP_COOKIE: sets of cookies
    Form,       \* is the content type one that FieldStorage parses?
    MaxCalls,   \* bound on the calls
    None

VARIABLES
    query,      \* QUERY_STRING, "" or a name of Query
    cookie,     \* HTTP_COOKIE
    input,      \* wsgi.input: the number of a stream
    stream,     \* streams: the body in each, and was it read
    object,     \* MultiDicts and lists that were returned: items, and was it changed by its reader?
    cache,      \* paste.parsed_querystring, parsed_dict_querystring, parsed_formvars, cookies.dict
    result,     \* what the last call returned
    calls

requestVars == <<query, cookie, input, stream, object, cache, result, calls>>

Caches == {"list", "dict", "form", "cookies"}
Str(word) == [word |-> word, type |-> "str"]
Pairs(words) == [i \in DOMAIN words |-> Item(Str(words[i]), i)]
ParsedQuery == IF query = "" THEN <<>> ELSE Pairs(Query[query])

RequestInit ==
    /\ query \in {""} \cup DOMAIN Query /\ cookie \in CookieHeader
    /\ input = 1 /\ \E body \in DOMAIN Body : stream = <<[body |-> body, state |-> "new"]>>
    /\ object = <<>> /\ cache = [c \in Caches |-> None] /\ result = None /\ calls = 0

Called == calls < MaxCalls /\ calls' = calls + 1

\* Middlewares change the environ: a forward has another query, a middleware
\* that reads the body puts a new stream with it in its place.
SetQuery(q) ==
    /\ Called /\ query' = q /\ result' = None
    /\ UNCHANGED <<cookie, input, stream, object, cache>>

SetCookieHeader(c) ==
    /\ Called /\ cookie' = c /\ result' = None
    /\ UNCHANGED <<query, input, stream, object, cache>>

ReplaceInput(body) ==
    /\ Called /\ result' = None
    /\ stream' = Append(stream, [body |-> body, state |-> "new"]) /\ input' = Len(stream) + 1
    /\ UNCHANGED <<query, cookie, object, cache>>

\* A mutant: what was parsed for this request is good.
GoodPlain(c, source) == cache[c] # None

\* A cached result is good if its source is what the environ has now.
Good(c, source) == cache[c] # None /\ cache[c].source = source

Cached(c) == /\ result' = [kind |-> c, object |-> cache[c].object]
             /\ UNCHANGED <<object, cache>>

\* A new object, which the environ keeps if there was something to parse.
New(c, items, source, keep) ==
    /\ object' = Append(object, [items |-> items, changed |-> FALSE])
    /\ result' = [kind |-> c, object |-> Len(object) + 1]
    /\ cache' = IF keep THEN [cache EXCEPT ![c] = [object |-> Len(object) + 1, source |-> source]] ELSE cache

\* parse_querystring and parse_dict_querystring; no query gives a new empty one.
ParseQuerystring(c) ==
    /\ Called /\ c \in {"list", "dict"}
    /\ IF query # "" /\ Good(c, query) THEN Cached(c) ELSE New(c, ParsedQuery, query, query # "")
    /\ UNCHANGED <<query, cookie, input, stream>>

\* get_cookies, get_cookie_dict
GetCookieDict ==
    /\ Called
    /\ IF cookie # {} /\ Good("cookies", cookie) THEN Cached("cookies")
       ELSE New("cookies", Pairs(SetToSeq(cookie)), cookie, cookie # {})
    /\ UNCHANGED <<query, cookie, input, stream>>

\* keys() of FieldStorage is the list of a set, and what has one name is fetched together.
Grouped(items) ==
    {FlattenSeq([i \in DOMAIN order |-> SelectSeq(items, LAMBDA item : item.key = order[i])]) :
        order \in SetToSeqs(Range(KeysOf(items)))}

\* parse_formvars: FieldStorage reads the body, if it is one of a form, and gives its fields in
\* any order of their names; the variables of the query come after the result is cached,
\* through the list of parse_querystring.
ParseFormvars(get) ==
    LET reads == Form /\ stream[input].state = "new"
        listed == IF query # "" /\ Good("list", query) THEN object[cache["list"].object].items ELSE ParsedQuery
    IN  /\ Called /\ UNCHANGED <<query, cookie, input>>
        /\ IF Good("form", input) THEN Cached("form") /\ UNCHANGED stream
           ELSE /\ stream' = IF reads THEN [stream EXCEPT ![input].state = "parsed"] ELSE stream
                /\ \E fields \in IF reads THEN Grouped(Pairs(Body[stream[input].body])) ELSE {<<>>} :
                      New("form", IF get THEN Updated(fields, listed) ELSE fields, input, TRUE)

\* FieldStorage fails, on an input that breaks off: the query it was not to see
\* has been taken away and is not put back.
FormFails ==
    /\ Called /\ Form /\ ~Good("form", input) /\ stream[input].state = "new"
    /\ query' = "" /\ stream' = [stream EXCEPT ![input].state = "broken"] /\ result' = None
    /\ UNCHANGED <<cookie, input, object, cache>>

Change(o, items, changed) == object' = [object EXCEPT ![o] = [items |-> items, changed |-> @.changed \/ changed]]

\* WSGIRequest.GET with decode_param_names: a UnicodeMultiDict takes over the
\* MultiDict that was returned, which the environ may have too.
Decode ==
    /\ Called /\ result # None /\ result.kind \in {"dict", "form"}
    /\ Change(result.object, Encoded(object[result.object].items), FALSE)
    /\ UNCHANGED <<query, cookie, input, stream, cache, result>>

\* The reader changes what it got, through any method of MultiDict.
Write(key) ==
    LET o == result.object  items == object[o].items
    IN  /\ Called /\ result # None /\ result.kind \in {"dict", "form"}
        /\ \E after \in {AddItem(items, key, 0), SetItem(items, key, 0), DeleteItem(items, key), PopKey(items, key),
                         SetDefault(items, key, 0), Updated(items, items)}
                        \cup (IF items = <<>> THEN {} ELSE {PopItem(items)}) : Change(o, after, TRUE)
        /\ UNCHANGED <<query, cookie, input, stream, cache, result>>

RequestNext ==
    \/ \E q \in {""} \cup DOMAIN Query : SetQuery(q)
    \/ \E c \in CookieHeader : SetCookieHeader(c)
    \/ \E body \in DOMAIN Body : ReplaceInput(body)
    \/ \E c \in {"list", "dict"} : ParseQuerystring(c)
    \/ GetCookieDict \/ \E get \in BOOLEAN : ParseFormvars(get)
    \/ FormFails \/ Decode \/ Write(Str("a"))

RequestSpec == RequestInit /\ [][RequestNext]_requestVars

-----------------------------------------------------------------------------

Returned == object[result.object]

\* What was returned begins with these fields; the order across names is not told.
FieldsFirst(fields) ==
    LET items == Decoded(Returned.items)
    IN  /\ Len(fields) <= Len(items)
        /\ \A key \in Range(KeysOf(fields)) : GetAll(SubSeq(items, 1, Len(fields)), key) = GetAll(fields, key)

\* Who asks for the query, the form or the cookies gets those of the environ as
\* it is now, whoever has asked before and whatever has been replaced since,
\* unless a reader changed the object: the pairs of the query in their order, the
\* fields of a body that has not broken off, before those of a query and those
\* of one name in their order, the cookies (request.py 44-76, 84-96, 118-133,
\* 146-189).
ResultsAreCurrent ==
    result # None /\ ~Returned.changed =>
        CASE result.kind \in {"list", "dict"} -> Decoded(Returned.items) = ParsedQuery
          [] result.kind = "form" ->
                Form /\ stream[input].state # "broken" => FieldsFirst(Pairs(Body[stream[input].body]))
          [] OTHER -> {item.key.word : item \in Range(Returned.items)} = cookie

\* All ways of looking at a MultiDict agree, whatever has been done to it
\* (multidict.py 30-110).
ViewsAgree ==
    \A o \in DOMAIN object :
        LET items == object[o].items
            mixed == Mixed(items)
        IN  \A key \in Range(KeysOf(items)) :
                /\ mixed[key].values = GetAll(items, key) /\ DictOfLists(items)[key] = GetAll(items, key)
                /\ mixed[key].multi <=> GetOne(items, key) = <<>>
=============================================================================
