-------------------------------- MODULE Session --------------------------------
(***************************************************************************)
(* Sessions kept in files: paste/session.py, with add_start_close of       *)
(* paste/wsgilib.py, for the requests of one browser.                      *)
(*                                                                         *)
(* A request asks its SessionFactory for the session's dictionary, which   *)
(* is read from the file the cookie names; the middleware puts the cookie  *)
(* of a new session into the headers and writes the dictionary back when   *)
(* the server closes the response.  The first session a request opens      *)
(* after every cleanup cycle starts a thread that removes expired files.   *)
(***************************************************************************)
EXTENDS Integers, FiniteSets

CONSTANTS Request,  \* requests that can run at one time
          Sid,      \* bound: session ids that are ever made
          Item,     \* what a session's dictionary can hold
          Cleaner,  \* bound: cleanup threads that can run at one time
          None

ASSUME SessionAssumption ==
    /\ None \notin Sid
    /\ \A S \in SUBSET Sid : S # None
    /\ \A S \in SUBSET Item : S # None

VARIABLES
    jar,          \* the session cookie of the browser
    file,         \* of each session id: None, or what is in the file; {} is a file
                  \* that was opened for writing and not written, as a dictionary
                  \* without items is never stored
    made,         \* the session ids made so far
    old,          \* those whose time, with the expiration, is past
    due,          \* last_cleanup is None or a cleanup_cycle ago
    cleaning_up,
    lost,         \* cleaning_up stands for a request that was killed between setting
                  \* it and starting the thread
    walk,         \* expired files each cleanup thread has yet to remove, or None
    stage,        \* of a request: "idle"; "app": in the application's call;
                  \* "body": in the iteration; "close", "write": in close()
    calling,      \* where the request is in SessionFactory.__call__: "no",
                  \* "cleanup", "start", "marked", "load"
    cookie,       \* the cookie the request came with
    sid, created, \* SessionFactory.sid and created
    opened,       \* SessionFactory.session is not None
    data,         \* FileSession._data
    started,      \* last start_response: "no"; "plain", when its arguments are in
                  \* remember_headers; or "cookie", with the cookie
    headersSent,  \* the server has sent the headers
    overlap,      \* the requests that run have overlapped
    late,         \* the session was created in the iteration, or a second time,
                  \* after a cleanup thread could not be started
    left          \* what the browser's last request left in its session; None if
                  \* requests overlapped or the cookie did not reach the browser

fileVars    == <<file, made, old>>
cleanVars   == <<due, cleaning_up, lost, walk>>
factoryVars == <<sid, created, opened, data>>
headerVars  == <<started, headersSent>>
noteVars    == <<overlap, late, left>>
vars == <<jar, fileVars, cleanVars, stage, calling, cookie, factoryVars, headerVars,
          noteVars>>

\* The browser, the files and the requests stay within their types.
TypeOK ==
    /\ jar \in Sid \cup {None}
    /\ made \in SUBSET Sid /\ old \in SUBSET made
    /\ file \in [Sid -> (SUBSET Item) \cup {None}]
    /\ \A s \in Sid : file[s] # None => s \in made
    /\ due \in BOOLEAN /\ cleaning_up \in BOOLEAN /\ lost \in BOOLEAN
    /\ walk \in [Cleaner -> (SUBSET Sid) \cup {None}]
    /\ stage \in [Request -> {"idle", "app", "body", "close", "write"}]
    /\ calling \in [Request -> {"no", "cleanup", "start", "marked", "load"}]
    /\ cookie \in [Request -> Sid \cup {None}] /\ sid \in [Request -> Sid \cup {None}]
    /\ created \in [Request -> BOOLEAN] /\ opened \in [Request -> BOOLEAN]
    /\ data \in [Request -> (SUBSET Item) \cup {None}]
    /\ started \in [Request -> {"no", "plain", "cookie"}]
    /\ headersSent \in [Request -> BOOLEAN]
    /\ overlap \in BOOLEAN /\ late \in [Request -> BOOLEAN]
    /\ left \in (SUBSET Item) \cup {None}
    /\ \A r \in Request :
        /\ stage[r] = "write" => data[r] # None
        /\ data[r] # None => opened[r]
        /\ opened[r] \/ calling[r] # "no" => sid[r] # None
        /\ started[r] = "cookie" => created[r]

Init ==
    /\ jar = None /\ file = [s \in Sid |-> None] /\ made = {} /\ old = {}
    /\ due = TRUE /\ cleaning_up = FALSE /\ lost = FALSE
    /\ walk = [c \in Cleaner |-> None]
    /\ stage = [r \in Request |-> "idle"] /\ calling = [r \in Request |-> "no"]
    /\ cookie = [r \in Request |-> None] /\ sid = [r \in Request |-> None]
    /\ created = [r \in Request |-> FALSE] /\ opened = [r \in Request |-> FALSE]
    /\ data = [r \in Request |-> None] /\ started = [r \in Request |-> "no"]
    /\ headersSent = [r \in Request |-> FALSE]
    /\ overlap = FALSE /\ late = [r \in Request |-> FALSE]
    /\ left = {}

-----------------------------------------------------------------------------
(* Requests, and the clock.                                                *)

\* The browser sends a request; SessionMiddleware.__call__ calls the application.
Begin(r) ==
    /\ stage[r] = "idle"
    /\ stage' = [stage EXCEPT ![r] = "app"]
    /\ cookie' = [cookie EXCEPT ![r] = jar]
    /\ overlap' = (\E u \in Request : stage[u] # "idle")
    /\ left' = IF overlap' THEN None ELSE left
    /\ UNCHANGED <<jar, fileVars, cleanVars, calling, factoryVars, headerVars, late>>

\* A request is over; what it leaves is known if it was the only one.
Over(r, known) ==
    /\ stage' = [stage EXCEPT ![r] = "idle"]
    /\ calling' = [calling EXCEPT ![r] = "no"]
    /\ cookie' = [cookie EXCEPT ![r] = None] /\ sid' = [sid EXCEPT ![r] = None]
    /\ created' = [created EXCEPT ![r] = FALSE]
    /\ opened' = [opened EXCEPT ![r] = FALSE]
    /\ data' = [data EXCEPT ![r] = None]
    /\ started' = [started EXCEPT ![r] = "no"]
    /\ headersSent' = [headersSent EXCEPT ![r] = FALSE]
    /\ late' = [late EXCEPT ![r] = FALSE]
    /\ left' = IF overlap THEN None ELSE known
    /\ UNCHANGED overlap

\* A session outlives the request that made it.
Expire(s) ==
    /\ s \in made \ old
    /\ \A r \in Request : created[r] => sid[r] # s
    /\ old' = old \cup {s}
    /\ UNCHANGED <<jar, file, made, cleanVars, stage, calling, cookie, factoryVars,
                   headerVars, noteVars>>

\* A cleanup takes less than a cycle of 15 minutes.
CycleOver ==
    /\ ~due /\ \A c \in Cleaner : walk[c] = None
    /\ due' = TRUE
    /\ UNCHANGED <<jar, fileVars, cleaning_up, lost, walk, stage, calling, cookie,
                   factoryVars, headerVars, noteVars>>

-----------------------------------------------------------------------------
(* SessionFactory.__call__                                                 *)

Running(r) == stage[r] \in {"app", "body"} /\ calling[r] = "no"

\* The session of the cookie, if its file exists, or a new one.
Open(r) ==
    /\ Running(r) /\ ~opened[r]
    /\ IF cookie[r] # None /\ file[cookie[r]] # None
          THEN /\ sid' = [sid EXCEPT ![r] = cookie[r]]
               /\ UNCHANGED <<made, created, late>>
          ELSE \E s \in Sid \ made :
               /\ made' = made \cup {s}
               /\ sid' = [sid EXCEPT ![r] = s]
               /\ created' = [created EXCEPT ![r] = TRUE]
               /\ late' = [late EXCEPT ![r] = stage[r] = "body" \/ created[r]]
    /\ left' = IF ~overlap /\ cookie[r] \in old \cup {None} THEN {} ELSE left
    /\ calling' = [calling EXCEPT ![r] = "cleanup"]
    /\ UNCHANGED <<jar, file, old, cleanVars, stage, cookie, opened, data, headerVars,
                   overlap>>

\* FileSession.clean_up: the tests.
CleanUpCheck(r) ==
    /\ calling[r] = "cleanup"
    /\ IF cleaning_up \/ ~due
          THEN /\ calling' = [calling EXCEPT ![r] = "load"]
               /\ opened' = [opened EXCEPT ![r] = TRUE]
          ELSE /\ calling' = [calling EXCEPT ![r] = "start"]
               /\ UNCHANGED opened
    /\ UNCHANGED <<jar, fileVars, cleanVars, stage, cookie, sid, created, data,
                   headerVars, noteVars>>

\* The mark is set before the time and the thread.
CleanUpMark(r) ==
    /\ calling[r] = "start"
    /\ cleaning_up' = TRUE
    /\ calling' = [calling EXCEPT ![r] = "marked"]
    /\ UNCHANGED <<jar, fileVars, due, lost, walk, stage, cookie, factoryVars,
                   headerVars, noteVars>>

CleanUpStart(r) ==
    /\ calling[r] = "marked"
    /\ \E c \in Cleaner : /\ walk[c] = None
                          /\ walk' = [walk EXCEPT ![c] = {s \in old : file[s] # None}]
    /\ due' = FALSE
    /\ calling' = [calling EXCEPT ![r] = "load"]
    /\ opened' = [opened EXCEPT ![r] = TRUE]
    /\ UNCHANGED <<jar, fileVars, cleaning_up, lost, stage, cookie, sid, created, data,
                   headerVars, noteVars>>

\* The thread cannot be started, and the application gets the exception.
CleanUpNotStarted(r) ==
    /\ calling[r] = "marked"
    /\ cleaning_up' = FALSE /\ lost' = FALSE /\ due' = FALSE
    /\ calling' = [calling EXCEPT ![r] = "no"]
    /\ UNCHANGED <<jar, fileVars, walk, stage, cookie, factoryVars, headerVars,
                   noteVars>>

\* A request is killed; SystemExit passes the handler of a thread that cannot be
\* started, and nobody resets the mark.
KilledIn(r) ==
    /\ lost' = (lost \/ (cleaning_up /\ calling[r] = "marked"))
    /\ due' \in (IF calling[r] = "marked" THEN {due, FALSE} ELSE {due})
    /\ UNCHANGED <<cleaning_up, walk>>

\* What FileSession.data returns: EOFError, None here, for a file that is not written;
\* a file that others remove after the test for it cannot be opened either.
Loaded(r) ==
    LET content == file[sid[r]] IN
    CASE content = None -> IF overlap \/ \E c \in Cleaner : walk[c] # None
                           THEN {{}, None} ELSE {{}}
      [] content = {}   -> {None}
      [] OTHER          -> {content}

\* The application gets the dictionary or the exception, and may ask again.
Load(r) ==
    /\ calling[r] = "load"
    /\ \E d \in Loaded(r) : data' = [data EXCEPT ![r] = d]
    /\ calling' = [calling EXCEPT ![r] = "no"]
    /\ UNCHANGED <<jar, fileVars, cleanVars, stage, cookie, sid, created, opened,
                   headerVars, noteVars>>

\* A later call after data() has failed.
CallAgain(r) ==
    /\ Running(r) /\ opened[r] /\ data[r] = None
    /\ calling' = [calling EXCEPT ![r] = "load"]
    /\ UNCHANGED <<jar, fileVars, cleanVars, stage, cookie, factoryVars, headerVars,
                   noteVars>>

-----------------------------------------------------------------------------
(* The application below SessionMiddleware, and the server above.          *)

\* The application changes the dictionary.
Change(r, items) ==
    /\ Running(r) /\ data[r] # None /\ items # data[r]
    /\ data' = [data EXCEPT ![r] = items]
    /\ UNCHANGED <<jar, fileVars, cleanVars, stage, calling, cookie, sid, created,
                   opened, headerVars, noteVars>>

\* session_start_response, called once.
StartResponse(r) ==
    /\ Running(r) /\ started[r] = "no"
    /\ started' = [started EXCEPT ![r] = IF created[r] THEN "cookie" ELSE "plain"]
    /\ UNCHANGED <<jar, fileVars, cleanVars, stage, calling, cookie, factoryVars,
                   headersSent, noteVars>>

\* The browser's cookie when the headers, if not sent before, have reached it.
CookieOut(r) == IF started[r] = "cookie" /\ ~headersSent[r] THEN sid[r] ELSE jar

\* The first item, or a call of write().
Send(r) ==
    /\ Running(r) /\ started[r] # "no" /\ ~headersSent[r]
    /\ headersSent' = [headersSent EXCEPT ![r] = TRUE]
    /\ jar' = CookieOut(r)
    /\ UNCHANGED <<fileVars, cleanVars, stage, calling, cookie, factoryVars, started,
                   noteVars>>

\* The server closes the response, and what concerns its headers is over.
Closing(r) ==
    /\ stage' = [stage EXCEPT ![r] = "close"]
    /\ started' = [started EXCEPT ![r] = "no"]
    /\ headersSent' = [headersSent EXCEPT ![r] = FALSE]
    /\ late' = [late EXCEPT ![r] = FALSE]
    /\ UNCHANGED <<overlap, left>>

\* Mutant: the headers are not set again.
ReturnPlain(r) ==
    /\ Running(r) /\ stage[r] = "app"
    /\ stage' = [stage EXCEPT ![r] = "body"]
    /\ UNCHANGED <<jar, fileVars, cleanVars, calling, cookie, factoryVars, headerVars,
                   noteVars>>

\* The call returns, and add_start_close.next calls start() before it asks for the
\* first item: if the session was created after start_response the server gets the
\* headers again, with an exc_info, which it raises if it has sent them.
Return(r) ==
    /\ Running(r) /\ stage[r] = "app"
    /\ IF created[r] /\ started[r] = "plain" /\ headersSent[r]
          THEN Closing(r)
          ELSE /\ stage' = [stage EXCEPT ![r] = "body"]
               /\ started' = IF created[r] /\ started[r] = "plain"
                             THEN [started EXCEPT ![r] = "cookie"] ELSE started
               /\ UNCHANGED <<headersSent, noteVars>>
    /\ UNCHANGED <<jar, fileVars, cleanVars, calling, cookie, factoryVars>>

\* The iteration is over; the server sends the headers if no item did.
Exhausted(r) ==
    /\ Running(r) /\ stage[r] = "body" /\ started[r] # "no"
    /\ jar' = CookieOut(r)
    /\ Closing(r)
    /\ UNCHANGED <<fileVars, cleanVars, calling, cookie, factoryVars>>

\* In the iteration the application raises, the thread is killed or the browser goes:
\* the server closes the response.
Interrupted(r) ==
    /\ stage[r] = "body"
    /\ Closing(r)
    /\ calling' = [calling EXCEPT ![r] = "no"]
    /\ KilledIn(r)
    /\ UNCHANGED <<jar, fileVars, cookie, factoryVars>>

\* In the call of the application there is no response to close, and an application's
\* close() that raises keeps the middleware's from being called.
Unsaved(r) ==
    /\ stage[r] \in {"app", "close"}
    /\ Over(r, left)
    /\ KilledIn(r)
    /\ UNCHANGED <<jar, fileVars>>

-----------------------------------------------------------------------------
(* FileSession.close                                                       *)

\* Mutant: a session without items is left as it is.
CloseKeepsEmptied(r) ==
    /\ stage[r] = "close" /\ (data[r] = None \/ data[r] = {})
    /\ UNCHANGED file
    /\ Over(r, IF data[r] = None THEN left ELSE data[r])
    /\ UNCHANGED <<jar, made, old, cleanVars>>

\* There is nothing to write: the session was not read, or has no items, and its
\* file is removed.
CloseEmpty(r) ==
    /\ stage[r] = "close" /\ (data[r] = None \/ data[r] = {})
    /\ file' = IF data[r] = None THEN file ELSE [file EXCEPT ![sid[r]] = None]
    /\ Over(r, IF data[r] = None THEN left ELSE data[r])
    /\ UNCHANGED <<jar, made, old, cleanVars>>

\* The file is opened for writing, and written.
CloseTruncate(r) ==
    /\ stage[r] = "close" /\ data[r] \notin {None, {}}
    /\ file' = [file EXCEPT ![sid[r]] = {}]
    /\ stage' = [stage EXCEPT ![r] = "write"]
    /\ UNCHANGED <<jar, made, old, cleanVars, calling, cookie, factoryVars, headerVars,
                   noteVars>>

CloseWrite(r) ==
    /\ stage[r] = "write"
    /\ file' = [file EXCEPT ![sid[r]] = data[r]]
    /\ Over(r, IF jar = sid[r] THEN data[r] ELSE None)
    /\ UNCHANGED <<jar, made, old, cleanVars>>

\* The thread is killed, or the dictionary cannot be pickled.
CloseFails(r) ==
    /\ stage[r] = "write"
    /\ Over(r, None)
    /\ UNCHANGED <<jar, fileVars, cleanVars>>

-----------------------------------------------------------------------------
(* FileSession._clean_up in its thread.                                    *)

\* Mutant: cleaning_up is reset only when all files were removed.
CleanUpFileNoFinally(c, s) ==
    /\ walk[c] # None /\ s \in walk[c]
    /\ file' = [file EXCEPT ![s] = None]
    /\ walk' = [walk EXCEPT ![c] = IF file[s] # None THEN @ \ {s} ELSE None]
    /\ UNCHANGED <<cleaning_up, lost>>
    /\ UNCHANGED <<jar, made, old, due, stage, calling, cookie, factoryVars, headerVars,
                   noteVars>>

\* os.remove; the file that is gone ends the thread.
CleanUpFile(c, s) ==
    /\ walk[c] # None /\ s \in walk[c]
    /\ file' = [file EXCEPT ![s] = None]
    /\ IF file[s] # None
          THEN /\ walk' = [walk EXCEPT ![c] = @ \ {s}]
               /\ UNCHANGED <<cleaning_up, lost>>
          ELSE /\ walk' = [walk EXCEPT ![c] = None]
               /\ cleaning_up' = FALSE /\ lost' = FALSE
    /\ UNCHANGED <<jar, made, old, due, stage, calling, cookie, factoryVars, headerVars,
                   noteVars>>

CleanUpEnd(c) ==
    /\ walk[c] = {}
    /\ walk' = [walk EXCEPT ![c] = None]
    /\ cleaning_up' = FALSE /\ lost' = FALSE
    /\ UNCHANGED <<jar, fileVars, due, stage, calling, cookie, factoryVars, headerVars,
                   noteVars>>

-----------------------------------------------------------------------------

FactoryStep(r) ==
    \/ Open(r) \/ CleanUpCheck(r) \/ CleanUpMark(r)
    \/ CleanUpStart(r) \/ CleanUpNotStarted(r) \/ Load(r) \/ CallAgain(r)

ResponseStep(r) ==
    \/ Begin(r) \/ StartResponse(r) \/ Send(r) \/ Return(r)
    \/ Exhausted(r) \/ Interrupted(r) \/ Unsaved(r)
    \/ CloseEmpty(r) \/ CloseTruncate(r) \/ CloseWrite(r) \/ CloseFails(r)
    \/ \E items \in SUBSET Item : Change(r, items)

CleanerStep(c) == CleanUpEnd(c) \/ \E s \in Sid : CleanUpFile(c, s)

Next ==
    \/ \E r \in Request : FactoryStep(r) \/ ResponseStep(r)
    \/ \E c \in Cleaner : CleanerStep(c)
    \/ \E s \in Sid : Expire(s)
    \/ CycleOver

Spec == Init /\ [][Next]_vars

-----------------------------------------------------------------------------
(* Properties.                                                             *)

\* A request that overlaps no other one finds in the session what the browser's last
\* request left there, if the session has not expired: the cookie has reached the
\* browser, names the file, and nothing but the request has changed it.
FindsWhatWasLeft ==
    [][\A r \in Request :
          data[r] = None /\ data'[r] # None /\ stage'[r] = stage[r]
          /\ ~overlap /\ left # None
          /\ ~(cookie[r] \in old) => data'[r] = left]_vars

\* The browser gets the cookie of a session that is created, once, before the
\* iteration over the response, also when start_response was called earlier.
CookieInTime ==
    \A r \in Request :
        stage[r] = "body" /\ created[r] /\ ~late[r] /\ headersSent[r] =>
            started[r] = "cookie"

\* Whatever cleanup threads run or fail at one time, the mark that keeps others from
\* starting stands only while one of them runs or is about to be started; only a
\* request that is killed before it has started its thread leaves it for good.
CleanUpNotBlocked ==
    cleaning_up =>
        \/ \E c \in Cleaner : walk[c] # None
        \/ \E r \in Request : calling[r] = "marked"
        \/ lost
=============================================================================
