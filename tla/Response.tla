------------------------------ MODULE Response ------------------------------
(***************************************************************************)
(* Responses that are made at the same time in one process: WSGIResponse     *)
(* (wsgiwrappers.py) and its HeaderDict (response.py).  Dictionaries and the *)
(* lists in them are objects that responses may share; the headers of        *)
(* WSGIResponse.defaults are one of them, whose values may be lists.         *)
(*                                                                           *)
(* Names are in lower case, as normalize makes them.  The value of            *)
(* content-type is [type, charset]; other values are words.                  *)
(***************************************************************************)
EXTENDS Integers, Sequences

CONSTANTS
    Responses,      \* responses, numbers from 1: each has the dictionary of its number
    Name, Value,    \* headers that are added, not content-type
    Defaults,       \* the headers of defaults: name -> [one: value] or [values: list]
    Cookie,         \* names of cookies
    MaxCalls,       \* bound on the calls
    None

VARIABLES
    dict,       \* HeaderDicts, and as 0 the default headers: name -> [one: value] or [list: the list's number]
    list,       \* lists of values of headers: <<number of the call that made it or 0, name>> -> values
    response,   \* responses that were made: headers (a dict), cookies, body, charset of what was sent
    given,      \* history: pairs of name and value each response was given, and as 0 those of
                \* lists of the defaults
    holders,    \* history: the responses that each list came to, 0 for the defaults
    sent,       \* what start_response was called with last
    calls

responseVars == <<dict, list, response, given, holders, sent, calls>>

One(value) == [one |-> value]
IsList(entry) == "list" \in DOMAIN entry
Put(f, key, value) == [k \in DOMAIN f \cup {key} |-> IF k = key THEN value ELSE f[k]]
Updated(f, g) == [k \in DOMAIN f \cup DOMAIN g |-> IF k \in DOMAIN g THEN g[k] ELSE f[k]]
Without(f, key) == [k \in DOMAIN f \ {key} |-> f[k]]

\* headeritems, as a set: a list gives an item for each of its values.
Items(d) ==
    UNION {IF IsList(d[n]) THEN {<<n, list[d[n].list][i]>> : i \in DOMAIN list[d[n].list]}
           ELSE {<<n, d[n].one>>} : n \in DOMAIN d}

\* The headers of the defaults whose value is a list.
Listed == {n \in DOMAIN Defaults : "values" \in DOMAIN Defaults[n]}

ResponseInit ==
    /\ dict = [d \in {0} |-> [n \in DOMAIN Defaults |-> IF n \in Listed THEN [list |-> <<0, n>>] ELSE Defaults[n]]]
    /\ list = [l \in {0} \X Listed |-> Defaults[l[2]].values]
    /\ holders = [l \in {0} \X Listed |-> {0}]
    /\ response = <<>> /\ sent = None /\ calls = 0
    /\ given = [r \in Responses \cup {0} |->
                  IF r = 0 THEN UNION {{<<n, Defaults[n].values[i]>> : i \in DOMAIN Defaults[n].values} : n \in Listed}
                  ELSE {<<n, Defaults[n].one>> : n \in DOMAIN Defaults \ Listed}]

Made == DOMAIN response
Headers(r) == dict[response[r].headers]
Calls == calls < MaxCalls /\ calls' = calls + 1

\* A response takes over headers, and the lists among them themselves.
Takes(r, d) ==
    holders' = [l \in DOMAIN holders |->
                  IF \E n \in DOMAIN d : IsList(d[n]) /\ d[n].list = l THEN holders[l] \cup {r} ELSE holders[l]]
Singles(d) == {<<n, d[n].one>> : n \in {m \in DOMAIN d : ~IsList(d[m])}}

\* A mutant: a response works on the default headers themselves.
DictOfPlain(r) == 0

\* The dictionary of a new response.
DictOf(r) == r

\* WSGIResponse.__init__: the default headers are copied, their values are not.
New(r, type, body) ==
    /\ Calls /\ r \notin Made
    /\ dict' = Put(dict, DictOf(r), Put(dict[0], "content-type", One(type)))
    /\ response' = Put(response, r, [headers |-> DictOf(r), cookies |-> <<>>, body |-> body, written |-> 0])
    /\ given' = [given EXCEPT ![r] = @ \cup {<<"content-type", type>>}]
    /\ Takes(r, dict[0])
    /\ UNCHANGED <<list, sent>>

SetDict(r, d) == dict' = [dict EXCEPT ![response[r].headers] = d]
Gives(r, name, value) == given' = [given EXCEPT ![r] = @ \cup {<<name, value>>}]

\* HeaderDict.__setitem__, update, setdefault
SetHeader(r, name, value) ==
    /\ Calls /\ r \in Made
    /\ SetDict(r, Put(Headers(r), name, One(value)))
    /\ Gives(r, name, value)
    /\ UNCHANGED <<list, response, holders, sent>>

\* HeaderDict.add: a second value makes a list of the first, a third is
\* appended to the list wherever it comes from.
Add(r, name, value) ==
    LET entry == Headers(r)[name]
    IN  /\ Calls /\ r \in Made /\ Gives(r, name, value)
        /\ IF name \notin DOMAIN Headers(r)
           THEN SetDict(r, Put(Headers(r), name, One(value))) /\ UNCHANGED <<list, holders>>
           ELSE IF IsList(entry)
           THEN list' = [list EXCEPT ![entry.list] = Append(@, value)] /\ UNCHANGED <<dict, holders>>
           ELSE /\ list' = Put(list, <<calls', name>>, <<entry.one, value>>)
                /\ holders' = Put(holders, <<calls', name>>, {r})
                /\ SetDict(r, Put(Headers(r), name, [list |-> <<calls', name>>]))
        /\ UNCHANGED <<response, sent>>

\* headers.update(another response's headers): the two share the lists.
CopyFrom(r, other) ==
    /\ Calls /\ {r, other} \subseteq Made /\ r # other
    /\ SetDict(r, Updated(Headers(r), Headers(other)))
    /\ Takes(r, Headers(other))
    /\ given' = [given EXCEPT ![r] = @ \cup Singles(Headers(other))]
    /\ UNCHANGED <<list, response, sent>>

\* HeaderDict.__delitem__, pop, and content_type__del
DeleteHeader(r, name) ==
    /\ Calls /\ r \in Made /\ name \in DOMAIN Headers(r)
    /\ SetDict(r, Without(Headers(r), name))
    /\ UNCHANGED <<list, response, given, holders, sent>>

\* charset__set, charset__del and content_type__set: the one keeps the type, the
\* other the charset, unless it is given one.
SetType(r, value) ==
    /\ SetDict(r, Put(Headers(r), "content-type", One(value)))
    /\ Gives(r, "content-type", value)
    /\ UNCHANGED <<list, response, holders, sent>>

SetCharset(r, charset) ==
    /\ Calls /\ r \in Made /\ "content-type" \in DOMAIN Headers(r)
    /\ SetType(r, [Headers(r)["content-type"].one EXCEPT !.charset = charset])

SetContentType(r, value) ==
    LET old == IF "content-type" \in DOMAIN Headers(r) THEN Headers(r)["content-type"].one.charset ELSE None
    IN  /\ Calls /\ r \in Made
        /\ SetType(r, IF value.charset = None THEN [value EXCEPT !.charset = old] ELSE value)

\* set_cookie and delete_cookie change a morsel, whose other attributes stay.
SetCookie(r, key, age) ==
    LET old == response[r].cookies
        kept == IF key \in DOMAIN old THEN old[key] ELSE None
    IN  /\ Calls /\ r \in Made
        /\ response' = [response EXCEPT ![r].cookies =
                            Put(old, key, IF age = None THEN kept ELSE age)]
        /\ UNCHANGED <<dict, list, given, holders, sent>>

DeleteCookie(r, key) == SetCookie(r, key, 0)

\* write: an iterator cannot be written to.
Write(r) ==
    /\ Calls /\ r \in Made /\ response[r].body = "str"
    /\ response' = [response EXCEPT ![r].written = @ + 1]
    /\ UNCHANGED <<dict, list, given, holders, sent>>

\* WSGIResponse.__call__ and wsgi_response
Send(r) ==
    /\ Calls /\ r \in Made
    /\ sent' = [of |-> r, items |-> Items(Headers(r)), cookies |-> response[r].cookies,
                body |-> response[r].written]
    /\ UNCHANGED <<dict, list, response, given, holders>>

Types == [type : {"html", "plain"}, charset : {"utf-8", None}]

ResponseNext ==
    \E r \in Responses :
       \/ \E type \in Types, body \in {"str", "iterator"} : New(r, type, body)
       \/ \E name \in Name, value \in Value : SetHeader(r, name, value) \/ Add(r, name, value)
       \/ \E name \in Name \cup {"content-type"} : DeleteHeader(r, name)
       \/ \E other \in Responses : CopyFrom(r, other)
       \/ \E charset \in {"latin1", None} : SetCharset(r, charset)
       \/ \E value \in Types : SetContentType(r, value)
       \/ \E key \in Cookie : DeleteCookie(r, key) \/ \E age \in {None, 5} : SetCookie(r, key, age)
       \/ Write(r) \/ Send(r)

ResponseSpec == ResponseInit /\ [][ResponseNext]_responseVars

-----------------------------------------------------------------------------

\* Each header that a response is sent with was given to it, is the default, or is in a list
\* that came to it, from the defaults or from a response whose headers it took over, and was
\* put there by the defaults or by a response that the same list came to, perhaps later and by
\* way of a third; never one of any other response (response.py 54-66, wsgiwrappers.py 316-317).
ResponsesApart ==
    sent # None =>
        \A item \in sent.items :
            \/ item \in given[sent.of]
            \/ \E l \in DOMAIN holders : /\ l[2] = item[1] /\ sent.of \in holders[l]
                                         /\ \E x \in holders[l] : item \in given[x]
=============================================================================
