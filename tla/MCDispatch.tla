----------------------------- MODULE MCDispatch -----------------------------
(***************************************************************************)
(* Routing for TLC, and beside its components those that watch files and     *)
(* talk to another process, in the same way: a behaviour is one of Routing   *)
(* with variables that it does not have.  What a configuration file cannot   *)
(* write of the constants is here.                                           *)
(***************************************************************************)
EXTENDS Routing, TLC

\* Dispatch: three middlewares above the application, in different orders;
\* paths "a" and "e", where "e" is the error document of 404.
MCChains == {<<"recursive", "forward", "cascade">>, <<"cascade", "recursive", "forward">>,
           <<"recursive", "cascade", "forward">>}
MCErrorPath == 404 :> "e"
\* An environ of their own only where the number of environs stays small.
MCOwnForwards == [c \in MCChains |-> IF c[1] = "cascade" THEN {<<"a", "e">>} ELSE {}]

\* UrlMap: with and without a domain or a port; slashes before, after and between.
MCKeys == [domain : {None, <<"h">>, <<"h", "80">>}, url : {<<>>, <<"">>, <<"a">>, <<"a", "", "b", "">>, <<"b">>}]
MCRequests == [host : {"h", "g"}, port : {"80", "81"},
             path : {<<>>, <<"">>, <<"a">>, <<"", "a">>, <<"a", "">>, <<"a", "b", "c">>,
                     <<"a", "", "", "b">>, <<"c">>}]
MCDomainRank == <<"h">> :> 1 @@ <<"h", "80">> :> 2

\* UrlParser: a directory with a subdirectory, names with extensions, hooks in both.
Entry(name, leads) == [name |-> name, leads |-> leads]
MCFiles ==
    "top" :> <<Entry(<<"a", "py">>, "app"), Entry(<<"a", "html">>, "file"), Entry(<<"d">>, "sub")>>
    @@ "sub" :> <<Entry(<<"index", "html">>, "file"), Entry(<<"b", "py">>, "broken"), Entry(<<"a", "pyc">>, "file")>>
MCAsked == {<<>>, <<<<"a">>>>, <<<<"a", "html">>>>, <<<<"d">>>>, <<<<"d">>, <<>>>>,
          <<<<>>, <<"d">>, <<>>, <<"b">>>>, <<<<"d">>, <<"a">>, <<"x">>>>,
          <<<<"d">>, <<"index", "html">>>>, <<<<"a", "html">>, <<"x">>>>}
MCIndexNames == <<<<"main">>, <<"index">>>>
MCHooks == "top" :> {"urlparser_hook", "application"} @@ "sub" :> {"not_found_hook", "application"}
MCRewritten == {<<<<"a">>>>, <<<<"zz">>>>}

\* Pages: two pages of one name in different directories, one that fails, and a directory
\* without an __init__.py; below a package or not.
MCPageDirectory == <<"srv", "p">>
Page(dir, name) == [dir |-> dir, name |-> name]
MCPageFiles == {Page(<<>>, "x"), Page(<<"a">>, "x"), Page(<<"a">>, "y"), Page(<<"b">>, "x")}
MCBroken == {Page(<<"a">>, "y")}
MCBaseNames == {<<>>, <<"p">>}
MCReadOnly == {<<"srv", "p", "b">>, <<"srv">>}

\* Reloader: a module with a source, and a file that is named by a call or a callback.
File == {"m.pyc", "m.py", "x"}
Source == "m.pyc" :> "m.py"
Named == {"x"}
FromCallback == {"x"}
Module == {"m.pyc"}
Concurrent == FALSE
ReloaderMaxTime == 2

\* Cgi: children that write before they read, do not read, write to both pipes,
\* close one of them, write no headers, or bad ones; pipes smaller than what they say.
Scripts ==
    {<<"name", "nl", "status", "nl", "nl", "data", "nl", "data">>,
     <<"drain", "nl", "data", "data", "nl", "nl">>,
     <<"name", "name", "nl", "read", "error", "nl", "data", "read">>,
     <<"close", "name", "nl", "name">>, <<"error", "error", "bad", "nl", "nl">>,
     <<"data", "name", "nl", "nl", "data", "data", "drain">>, <<>>,
     <<"drain", "error", "close", "data", "name", "nl", "data">>}
Bodies == {0, 2, 3}
Capacity == 2

\* FileTest: a file, a directory with a file, and a hidden one with a file.
MCAbove == [p \in TestPath |-> {p} \cup CASE p = "df" -> {"d"} [] p = "hf" -> {"h"} [] OTHER -> {}]

VARIABLES
    disk, modules, named, global_files, calling, install, extra_files, module_mtimes,
    filenames, monitor,
    script, ends, waiting, client, stdin, stdout, stderr, open, ready, writing, writer,
    logged, cgiOver, written, failed

-----------------------------------------------------------------------------
R == INSTANCE Reloader WITH MaxTime <- ReloaderMaxTime
C == INSTANCE Cgi WITH over <- cgiOver

reloaderVars == <<disk, modules, named, global_files, calling, install, extra_files,
    module_mtimes, filenames, monitor>>
cgiVars == <<script, ends, waiting, client, stdin, stdout, stderr, open, ready, writing, writer,
    logged, cgiOver, written, failed>>

ReloaderIdle ==
    /\ disk = None /\ modules = {} /\ named = {} /\ global_files = {} /\ calling = None
    /\ install = None /\ extra_files = {} /\ module_mtimes = <<>> /\ filenames = {}
    /\ monitor = [at |-> "dead"]
CgiIdle ==
    /\ script = None /\ ends = None /\ waiting = None /\ client = None /\ stdin = None
    /\ stdout = None /\ stderr = None /\ open = None /\ ready = None /\ writing = None
    /\ writer = None /\ logged = None /\ cgiOver = "idle" /\ written = None /\ failed = None

MCInit ==
    /\ Init
    /\ IF component = "reloader" THEN R!ReloaderInit ELSE ReloaderIdle
    /\ IF component = "cgi" THEN C!CgiInit ELSE CgiIdle

MCNext ==
    /\ Next
    /\ IF component = "reloader" THEN R!ReloaderNext ELSE UNCHANGED reloaderVars
    /\ IF component = "cgi" THEN C!CgiNext ELSE UNCHANGED cgiVars

\* The fairness of the components (see their specifications).
Fairness ==
    /\ WF_urlparserVars(component = "urlparser" /\ P!UrlParserNext)
    /\ WF_dispatchVars(component = "dispatch" /\ DispatchNext)
    /\ WF_reloaderVars(component = "reloader" /\ R!MonitorNext)
    /\ WF_reloaderVars(component = "reloader" /\ R!Install)
    /\ WF_reloaderVars(component = "reloader" /\ R!WatchFileGlobally)
    /\ WF_cgiVars(component = "cgi" /\ C!Child)
    /\ WF_cgiVars(component = "cgi" /\ C!Communicate)

MCSpec == MCInit /\ [][MCNext]_<<vars, reloaderVars, cgiVars>> /\ Fairness

-----------------------------------------------------------------------------
(* The properties of the components, each where it is the one looked at.   *)

\* A forwarded request ends (Dispatch), and so does one for a path (UrlParser).
EveryRouteEnds == EveryRequestEnds /\ (component = "urlparser" => P!EveryPathEnds)

\* A change of a watched file ends the process (Reloader).
ChangeReloads == R!ChangeReloads

\* The server and a CGI script never wait for each other, and the client gets all of what the
\* script wrote (Cgi).
EveryAnswerEnds == C!EveryAnswerEnds /\ [](component = "cgi" => C!AnswerIsWhole)
=============================================================================
