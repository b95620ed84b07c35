------------------------------ MODULE UrlParser ------------------------------
(***************************************************************************)
(* One request to a tree of directories served by URLParser, or by           *)
(* StaticURLParser and PkgResourcesParser (urlparser.py): each parser takes  *)
(* a segment of the path, finds the file it names, and calls the parser of a *)
(* directory or the application of a file.                                   *)
(*                                                                           *)
(* Paths are sequences as in UrlMap.  A segment, or the name of a file, is    *)
(* the sequence of what its dots separate; the last is the extension if      *)
(* there are several, and <<>> is the empty segment.                         *)
(***************************************************************************)
EXTENDS Integers, Sequences, SequencesExt, Functions

CONSTANTS
    Directories, Root,   \* directories, and the one of the first parser
    Files,               \* listings: directory -> sequences of [name, leads], leads a directory or a kind of file
    Asked,               \* values of PATH_INFO
    IndexNames,          \* index_names, a sequence
    HideExtensions, IgnoreExtensions,
    Hooks,               \* what the __init__.py of a directory defines
    Rewritten,           \* values of PATH_INFO that hooks set
    None

\* A directory is listed by the operating system in any order.
Listing(d) == {s \in [DOMAIN Files[d] -> {Files[d][i] : i \in DOMAIN Files[d]}] : IsInjective(s)}

VARIABLES
    listing,       \* os.listdir
    kind,          \* url, static or egg: which parser serves the tree
    parser,        \* the directory of the parser that is called
    script_name, path_info,
    init_application,  \* environ['paste.urlparser.init_application']
    not_found_parser,  \* environ['paste.urlparser.not_found_parser']
    asked,         \* history: the path that came in, or that a hook set
    doing          \* who has the request (a parser: call, find; module, hook), or how it ended

urlparserVars == <<listing, kind, parser, script_name, path_info, init_application,
                   not_found_parser, asked, doing>>

Extension(name) == IF Len(name) > 1 THEN Last(name) ELSE None
Base(name) == IF Len(name) > 1 THEN Front(name) ELSE name

\* The names that find_file collects for a name without or with an extension.
Possible(d, wanted) ==
    LET Fits(file) ==
            /\ Extension(file.name) \notin HideExtensions
            /\ \/ file.name = wanted
               \/ Extension(file.name) \notin IgnoreExtensions /\ Base(file.name) = wanted
    IN  SelectSeq(listing[d], Fits)

\* find_file: of several the one that was listed last, if it is among them.
FindFile(d, wanted) ==
    LET possible == Possible(d, wanted)
    IN  CASE possible = <<>> -> None
          [] Len(possible) = 1 -> possible[1]
          [] Len(possible) > 1 ->
                IF Last(listing[d]) = Last(possible) THEN Last(possible) ELSE None

IndexFile(d) ==
    LET i == SelectInSeq(IndexNames, LAMBDA name : FindFile(d, name) # None)
    IN  IF i = 0 THEN None ELSE FindFile(d, IndexNames[i])

\* A path is a sequence.
IsPath(path) == Len(path) \in Nat /\ path = [i \in 1..Len(path) |-> path[i]]
NotEmpty(segment) == segment # <<>>
NoSlash(path) == SelectInSeq(path, NotEmpty)

\* request.path_info_split: the first segment that is not empty and what is
\* after it.
Segment(path) == IF NoSlash(path) = 0 THEN <<>> ELSE path[NoSlash(path)]
Rest(path) == IF NoSlash(path) = 0 THEN <<>> ELSE SubSeq(path, NoSlash(path) + 1, Len(path))

-----------------------------------------------------------------------------

UrlParserInit ==
    /\ kind \in {"url", "static", "egg"} /\ listing \in [Directories -> UNION {Listing(d) : d \in Directories}]
    /\ \A d \in Directories : listing[d] \in Listing(d)
    /\ parser = Root /\ script_name = <<>>
    /\ path_info \in Asked /\ asked = path_info
    /\ init_application = None /\ not_found_parser = None
    /\ doing = "call"

Called(k) == doing = "call" /\ kind = k

Ends(how) ==
    /\ doing' = how
    /\ UNCHANGED <<listing, kind, parser, script_name, path_info, init_application, not_found_parser, asked>>

AddSlash == doing = "call" /\ path_info = <<>> /\ Ends("redirect")

\* urlparser_hook: it may take a segment of the path.
UrlparserHook ==
    /\ Called("url") /\ path_info # <<>> /\ "urlparser_hook" \in Hooks[parser]
    /\ doing' = "find"
    /\ \/ UNCHANGED <<script_name, path_info>>
       \/ /\ script_name' = Append(script_name, Segment(path_info))
          /\ path_info' = Rest(path_info)
    /\ UNCHANGED <<listing, kind, parser, init_application, not_found_parser, asked>>

Finds ==
    \/ doing = "find"
    \/ Called("url") /\ path_info # <<>> /\ "urlparser_hook" \notin Hooks[parser]

\* The application of __init__.py is called, once for each SCRIPT_NAME.
Overridden == "application" \in Hooks[parser] /\ init_application # script_name

FindOverriding ==
    /\ Finds /\ Overridden
    /\ init_application' = script_name /\ doing' = "module"
    /\ UNCHANGED <<listing, kind, parser, script_name, path_info, not_found_parser, asked>>

\* It answers, or gives the request back to the parser.
ModuleApplication ==
    /\ doing = "module" /\ doing' \in {"served", "call"}
    /\ UNCHANGED <<listing, kind, parser, script_name, path_info, init_application, not_found_parser, asked>>

Found == IF Segment(path_info) = <<>> THEN IndexFile(parser) ELSE FindFile(parser, Segment(path_info))

\* An application for a file, by its constructor: a module may have none.
Construct(file) == IF file = None \/ file.leads = "broken" THEN None ELSE file.leads

Descend ==
    /\ script_name' = Append(script_name, Segment(path_info))
    /\ path_info' = Rest(path_info)

FindApplication ==
    LET application == Construct(Found)
    IN  /\ Finds /\ ~Overridden /\ application # None
        /\ Descend
        /\ IF application \in Directories
           THEN parser' = application /\ doing' = "call"
           ELSE parser' = parser /\ doing' = "served"
        /\ UNCHANGED <<listing, kind, init_application, not_found_parser, asked>>

\* A mutant: only PATH_INFO is given back to the hook.
NotFoundPlain ==
    /\ Finds /\ ~Overridden /\ Construct(Found) = None
    /\ script_name' = Append(script_name, Segment(path_info))
    /\ IF "not_found_hook" \in Hooks[parser] /\ not_found_parser # parser
       THEN doing' = "hook" /\ not_found_parser' = parser /\ UNCHANGED path_info
       ELSE doing' = "notfound" /\ path_info' = Rest(path_info) /\ UNCHANGED not_found_parser
    /\ UNCHANGED <<listing, kind, parser, init_application, asked>>

\* Nothing found: not_found_hook gets the environ as it came in, unless it was
\* the one that sent it.
NotFound ==
    /\ Finds /\ ~Overridden /\ Construct(Found) = None
    /\ IF "not_found_hook" \in Hooks[parser] /\ not_found_parser # parser
       THEN doing' = "hook" /\ not_found_parser' = parser /\ UNCHANGED <<script_name, path_info>>
       ELSE doing' = "notfound" /\ Descend /\ UNCHANGED not_found_parser
    /\ UNCHANGED <<listing, kind, parser, init_application, asked>>

\* It answers 404, or gives the request, perhaps with another path, back to
\* its own parser.
NotFoundHook ==
    /\ doing = "hook"
    /\ \/ doing' = "notfound" /\ UNCHANGED <<path_info, asked>>
       \/ \E p \in {path_info} \cup Rewritten :
             doing' = "call" /\ path_info' = p /\ asked' = script_name \o p
    /\ UNCHANGED <<listing, kind, parser, script_name, init_application, not_found_parser>>

\* path_info_pop, and what the file system or the egg has of that name; above the root
\* is out of bounds.
StaticFile(d, name) ==
    IF name = <<>> THEN d
    ELSE LET i == SelectInSeq(listing[d], LAMBDA file : file.name = name)
         IN  IF i = 0 THEN None ELSE listing[d][i].leads

\* How a file is answered if nothing but a slash is left of the path.
Step(answers) ==
    LET index == path_info = <<<<>>>>
        file == StaticFile(parser, IF index THEN <<"index", "html">> ELSE Segment(path_info))
    IN  /\ IF index THEN UNCHANGED <<script_name, path_info>> ELSE Descend
        /\ CASE file = None -> doing' = "notfound" /\ UNCHANGED parser
             [] file \in Directories -> doing' = "call" /\ parser' = file
             [] OTHER -> /\ UNCHANGED parser
                         /\ doing' \in IF NoSlash(path_info') = 0 /\ Len(path_info') <= 1
                                       THEN answers ELSE {"notfound"}
        /\ UNCHANGED <<listing, kind, init_application, not_found_parser, asked>>

\* StaticURLParser.__call__: a file the client has is not sent again.
StaticStep == Called("static") /\ path_info # <<>> /\ Step({"served", "notmodified"})

\* PkgResourcesParser.__call__: a resource may not be readable.
EggStep == Called("egg") /\ path_info # <<>> /\ Step({"served", "forbidden"})

UrlParserNext ==
    \/ AddSlash \/ UrlparserHook \/ FindOverriding \/ ModuleApplication \/ FindApplication
    \/ NotFound \/ NotFoundHook \/ StaticStep \/ EggStep

UrlParserSpec == UrlParserInit /\ [][UrlParserNext]_urlparserVars /\ WF_urlparserVars(UrlParserNext)

-----------------------------------------------------------------------------

\* Two paths have the same names in the same order.
Named(path) == {i \in DOMAIN path : NotEmpty(path[i])}
SameNames(s, t) ==
    \E f \in [Named(s) -> Named(t)] :
        /\ \A i \in Named(s) : t[f[i]] = s[i]
        /\ \A i, j \in Named(s) : i < j => f[i] < f[j]
        /\ \A k \in Named(t) : \E i \in Named(s) : f[i] = k

\* Whoever is called, a parser, a hook or an application, SCRIPT_NAME and
\* PATH_INFO are together the path that was asked for, but for empty segments
\* (urlparser.py 51-56, 196-207).
PathIsKept == SameNames(script_name \o path_info, asked)

\* Hooks and overriding applications that give the request back to the parser
\* do so once, and the request ends (urlparser.py 161, 189).
EveryPathEnds == <>(doing \in {"redirect", "notfound", "served", "notmodified", "forbidden"})

\* A name that fits several files is not found, whichever way the directory is
\* listed, unless one of the files has exactly this name (urlparser.py 36-39, 258-270).
\* It does not hold: find_file asks whether the file it listed last is possible.
AmbiguousIsNotFound ==
    \A d \in Directories, p \in Asked :
        LET possible == Possible(d, Segment(p))
            exact == SelectInSeq(possible, LAMBDA file : file.name = Segment(p))
        IN  Len(possible) > 1 =>
                FindFile(d, Segment(p)) = IF exact = 0 THEN None ELSE possible[exact]
=============================================================================
