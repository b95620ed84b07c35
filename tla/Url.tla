-------------------------------- MODULE Url ---------------------------------
(***************************************************************************)
(* The URLs of url.py, values from which a program derives others: with      *)
(* variables, a longer path, attributes or parameters, or as a tag of        *)
(* another class.  The parameters of a URL are a dictionary of its own, which*)
(* starts as a copy of the class's default_params; rendering a JSPopup       *)
(* writes into it.  Vars, attributes and the parameters a URL was made with  *)
(* are never changed in place, so they are values here.                      *)
(*                                                                           *)
(* A path is the sequence of its segments, the last of them "" where the URL *)
(* ends with a slash.  Names ending in an underscore, with which every       *)
(* operation raises, nested dictionaries and quoting are left out.           *)
(***************************************************************************)
EXTENDS Integers, Sequences, SequencesExt, FiniteSets

CONSTANTS
    Segments,       \* what is added to paths: sequences of segments
    VarName, VarValue,
    ParamValue,     \* values of the parameters a program gives
    MaxUrls,        \* bound on the URLs of a program
    None

Classes == {"URL", "Image", "Button", "JSPopup"}

VARIABLES
    urls,       \* URLs made, by number: class, path, vars, view, attrs, original (params)
    params,     \* the dictionaries of parameters: <<class, 0>> is the class's default_params
    raised      \* what the last operation raised

urlVars == <<urls, params, raised>>

DefaultParams(class) ==
    CASE class = "URL" -> [tag |-> "a"]
      [] class = "Image" -> [tag |-> "img"]
      [] class = "Button" -> [tag |-> "button"]
      [] class = "JSPopup" -> [tag |-> "a", target |-> "_blank"]

Get(f, key) == IF key \in DOMAIN f THEN f[key] ELSE None
Put(f, key, value) == [k \in DOMAIN f \cup {key} |-> IF k = key THEN value ELSE f[k]]

\* copy.update(f)
Updated(copy, f) == [k \in DOMAIN copy \cup DOMAIN f |-> IF k \in DOMAIN f THEN f[k] ELSE copy[k]]
Without(f, keys) == [k \in DOMAIN f \ keys |-> f[k]]

\* A mutant: the parameters of a class are not copied for each URL.
ParamsOfPlain(class, n) == <<class, 0>>

\* The dictionary of a URL: default_params.copy()
ParamsOf(class, n) == <<class, n>>
Params(n) == params[ParamsOf(urls[n].class, n)]

UrlInit ==
    /\ urls = <<>> /\ raised = None
    /\ params = [d \in Classes \X {0} |-> DefaultParams(d[1])]

\* URLResource.__init__, from vars and attributes of another URL or none
Make(class, url) ==
    LET n == Len(urls) + 1
        copy == params[<<class, 0>>]
    IN  /\ n <= MaxUrls
        /\ urls' = Append(urls, [url EXCEPT !.class = class])
        /\ params' = Put(params, ParamsOf(class, n), Updated(copy, url.original))
        /\ raised' = None

Url(path, vars, attrs, original) ==
    [class |-> None, path |-> path, vars |-> vars, view |-> FALSE, attrs |-> attrs, original |-> original]

\* URLResource(url, vars) and from_environ, with the variables of the query string
FromEnviron(class, path, vars) == Make(class, Url(path, vars, <<>>, <<>>))

\* addpath: the slashes a path begins with are dropped.
Longer(path, segments) ==
    (IF Last(path) = "" THEN Front(path) ELSE path) \o (IF segments = <<>> THEN <<"">> ELSE segments)
AddPath(u, segments) == [u EXCEPT !.path = Longer(@, segments)]

\* setvars hands over the items of a dictionary, which is no list.
SetVars(u, items) == [u EXCEPT !.vars = items, !.view = items # <<>>]
SetVar(u, name, value) ==
    [u EXCEPT !.vars = SelectSeq(@, LAMBDA item : item[1] # name) \o <<<<name, value>>>>, !.view = FALSE]

\* var: a view cannot be added to a list.
VarFails(u) == u.view
Var(u, items) == [u EXCEPT !.vars = @ \o items]
Attr(u, name, value) == [u EXCEPT !.attrs = Put(@, name, value)]
Param(u, name, value) == [u EXCEPT !.original = Put(@, name, value)]

\* What a class takes as parameters or attributes when it is called with them.
TakenParams(class) ==
    CASE class = "URL" -> {"confirm", "content"}
      [] class = "Button" -> {"confirm", "content"}
      [] class = "JSPopup" -> {"width", "height", "stripped", "content"}
      [] class = "Image" -> {}

\* _add_vars: each URLResource has its own.
CallFails(u, name) == u.class # "Image" /\ VarFails(u)
AddVar(u, name, value) ==
    CASE u.class = "Image" \/ (u.class = "URL" /\ name = "target") -> Attr(u, name, value)
      [] name \in TakenParams(u.class) -> Param(u, name, value)
      [] OTHER -> Var(u, <<<<name, value>>>>)

Exists(n) == n \in DOMAIN urls
Fails(what) == raised' = what /\ UNCHANGED <<urls, params>>

\* Operations that give a new URL of the same class
Derive(n, u) == Exists(n) /\ Make(urls[n].class, u)

DeriveAddPath(n, segments) == Exists(n) /\ Derive(n, AddPath(urls[n], segments))
DeriveSetVars(n, name, value) == Exists(n) /\ Derive(n, SetVars(urls[n], <<<<name, value>>>>))
DeriveSetVar(n, name, value) == Exists(n) /\ Derive(n, SetVar(urls[n], name, value))
DeriveAttr(n, name, value) == Exists(n) /\ Derive(n, Attr(urls[n], name, value))
DeriveParam(n, name, value) == Exists(n) /\ Derive(n, Param(urls[n], name, value))
DeriveVar(n, name, value) ==
    /\ Exists(n)
    /\ IF VarFails(urls[n]) THEN Fails("TypeError") ELSE Derive(n, Var(urls[n], <<<<name, value>>>>))

\* __call__ and __getitem__: a segment of the path, or a variable, attribute or parameter
Call(n, segments, name, value) ==
    /\ Exists(n)
    /\ IF CallFails(urls[n], name) THEN Fails("TypeError")
       ELSE Derive(n, AddVar(IF segments = <<>> THEN urls[n] ELSE AddPath(urls[n], segments), name, value))

\* become: button and js_popup
Become(n, class) == Exists(n) /\ urls[n].class # class /\ Make(class, urls[n])

\* href: variables that are None are not in the query string.
Query(items) == SelectSeq(items, LAMBDA item : item[2] # None)
Href(n) == [path |-> urls[n].path, query |-> Query(urls[n].vars)]

ContentFails(n) ==
    CASE urls[n].class \in {"URL", "JSPopup"} -> Get(Params(n), "content") = None
      [] urls[n].class = "Button" -> Get(Params(n), "content") = None /\ Get(urls[n].attrs, "value") # None
                                       /\ "content" \notin DOMAIN urls[n].attrs
      [] OTHER -> FALSE
Content(n) ==
    IF urls[n].class = "Image" THEN None
    ELSE IF Get(Params(n), "content") # None THEN Params(n).content
    ELSE IF Get(urls[n].attrs, "value") # None THEN urls[n].attrs.content
    ELSE None

\* _window_args: a window that is stripped has none of these bars.
Stripped(p) ==
    IF Get(p, "stripped") = None THEN p
    ELSE Updated(p, [location |-> "0", status |-> "0", toolbar |-> "0"])

\* Only these features are written; width and height never are.
Features(p) == [f \in {"location", "status"} \cap DOMAIN p |-> p[f]]

\* html: the tag, as a record of what is in it
HtmlOf(n, p) ==
    [tag |-> p.tag, href |-> Href(n), content |-> Content(n),
     attrs |-> IF urls[n].class = "JSPopup" THEN Put(urls[n].attrs, "target", p.target) ELSE urls[n].attrs,
     confirm |-> IF urls[n].class \in {"URL", "Button"} THEN Get(p, "confirm") ELSE None,
     features |-> IF urls[n].class = "JSPopup" THEN Features(Stripped(p)) ELSE <<>>]

Shown(n) == IF ContentFails(n) THEN None ELSE HtmlOf(n, Params(n))

\* html of a JSPopup writes into the dictionary of its parameters.
Render(n) ==
    /\ Exists(n)
    /\ IF ContentFails(n) THEN Fails(IF urls[n].class = "Button" THEN "KeyError" ELSE "ValueError")
       ELSE /\ raised' = None /\ UNCHANGED urls
            /\ params' = IF urls[n].class # "JSPopup" THEN params
                         ELSE [params EXCEPT ![ParamsOf("JSPopup", n)] = Stripped(@)]

UrlNext ==
    \/ \E class \in Classes, path \in {<<"", "">>, <<"", "base">>}, vars \in {<<>>, <<<<"q", "1">>>>} :
          FromEnviron(class, path, vars)
    \/ \E n \in 1..MaxUrls :
          \/ \E segments \in Segments : DeriveAddPath(n, segments)
          \/ \E name \in VarName, value \in VarValue \cup {None} :
                DeriveSetVars(n, name, value) \/ DeriveSetVar(n, name, value)
          \/ \E name \in VarName, value \in VarValue : DeriveVar(n, name, value)
          \/ \E name \in {"value", "content"}, value \in VarValue : DeriveAttr(n, name, value)
          \/ \E name \in {"content", "stripped", "location"}, value \in ParamValue : DeriveParam(n, name, value)
          \/ \E segments \in Segments, name \in VarName \cup {"content", "target"}, value \in VarValue :
                Call(n, segments, name, value)
          \/ \E class \in {"Button", "JSPopup"} : Become(n, class)
          \/ Render(n)

UrlSpec == UrlInit /\ [][UrlNext]_urlVars

-----------------------------------------------------------------------------

\* A URL stays what it is: whatever is derived from it, and whatever is rendered,
\* its reference and its tag are the same for as long as a program holds it
\* (url.py 49-63, 120-199, 415-432).
UrlsStay == [][\A n \in DOMAIN urls : Shown(n)' = Shown(n)]_urlVars
=============================================================================
