------------------------------- MODULE FileApp -------------------------------
(***************************************************************************)
(* A file served by DirectoryApp and FileApp, or a member of an archive by   *)
(* ArchiveStore and DataApp (fileapp.py), to threads that share the cached   *)
(* application objects, while the file is changed, removed and made again,   *)
(* and to a client that keeps a copy and asks whether it is still good       *)
(* (IF_NONE_MATCH, IF_MODIFIED_SINCE and RANGE of httpheaders.py).            *)
(*                                                                           *)
(* Each state of the file has a version, which stands for its contents and   *)
(* for its time of modification: changes are a second apart at least.        *)
(***************************************************************************)
EXTENDS Integers, Sequences, FiniteSetsExt

CONSTANTS
    Thread,
    Sizes,        \* of files
    CacheSize,    \* CACHE_SIZE: smaller files are kept in memory
    Stores,       \* directory, archive
    Methods,
    Ranges,       \* of RANGE: sequences of <<begin, end or None>>, or None
    MaxVersion,   \* bound on the changes of the file
    MaxAsked,     \* bound on the requests
    None

VARIABLES
    store,     \* what serves the path
    file,      \* [version, size] or None, on disk or in the archive
    versions,  \* the number of versions there were
    asked,     \* the number of requests
    app,       \* applications, by the thread that made them
    cached,    \* cached_apps or cache: the application of the path
    thread,    \* per thread: where it is, its request, and its local variables
    copy,      \* the client's copy: version, etag and Last-Modified it came with;
               \* history: marred, if it came with an answer that another thread marred
    torn,      \* history: threads that use an object while another one fills it
    mixed      \* history: objects that two threads filled at once, and none alone since

fileVars == <<store, file, versions, asked, app, cached, thread, copy, torn, mixed>>

NewApp == [last_modified |-> 0, content |-> None, content_length |-> None, header |-> None]
Idle == [at |-> "idle"]

FileInit ==
    /\ store \in Stores /\ versions = 1 /\ asked = 0
    /\ file \in {None} \cup [version : {1}, size : Sizes] /\ (store = "archive" => file # None)
    /\ app = [t \in Thread |-> NewApp] /\ cached = None
    /\ thread = [t \in Thread |-> Idle] /\ copy = None
    /\ torn = {} /\ mixed = {}

\* The file is rewritten or removed, at any time; an archive stays as it is.
FileChanges ==
    /\ store = "directory" /\ versions < MaxVersion
    /\ \E size \in Sizes : file' = [version |-> versions + 1, size |-> size]
    /\ versions' = versions + 1
    /\ UNCHANGED <<store, asked, app, cached, thread, copy>>

FileRemoved ==
    /\ store = "directory" /\ file # None /\ versions < MaxVersion
    /\ file' = None
    /\ UNCHANGED <<store, versions, asked, app, cached, thread, copy>>

At(t, where) == thread[t].at = where

\* A record with these fields, new ones or in place of its own.
With(r, fields) ==
    [x \in DOMAIN fields \cup DOMAIN r |-> IF x \in DOMAIN fields THEN fields[x] ELSE r[x]]

Become(t, fields) == thread' = [thread EXCEPT ![t] = With(@, fields)]
Goto(t, where) == Become(t, [at |-> where])

\* What the client does with an answer is part of the step that sends it.
Answer(t, status) ==
    /\ thread' = [thread EXCEPT ![t] = Idle]
    /\ UNCHANGED <<store, file, versions, asked, app, cached, copy>>

-----------------------------------------------------------------------------
(* DirectoryApp.__call__ and ArchiveStore.__call__                           *)

\* A request; seen is the version of the file when it came.  Its method and its headers
\* are chosen where they are looked at.
Ask(t) ==
    /\ At(t, "idle") /\ asked < MaxAsked /\ asked' = asked + 1
    /\ thread' = [thread EXCEPT ![t] =
           [at |-> "lookup", mine |-> copy, seen |-> IF file = None THEN versions + 1 ELSE file.version]]
    /\ UNCHANGED <<store, file, versions, app, cached, copy>>

Begin == IF store = "archive" THEN "modified" ELSE "stat"

Lookup(t) ==
    /\ At(t, "lookup")
    /\ IF cached = None THEN Goto(t, "make") ELSE Become(t, [at |-> "method", app |-> cached])
    /\ UNCHANGED <<store, file, versions, asked, app, cached, copy>>

\* The path is not below the directory, or nothing is there.
Refuse(t) == At(t, "make") /\ (file = None \/ store = "directory") /\ Answer(t, IF file = None THEN 404 ELSE 403)

\* An application for a member of an archive is filled before it is cached.
Make(t) ==
    /\ At(t, "make") /\ file # None
    /\ app' = [app EXCEPT ![t] =
                  IF store = "directory" THEN NewApp
                  ELSE [last_modified |-> file.version, content |-> file,
                        content_length |-> file.size, header |-> file.version]]
    /\ cached' = t
    /\ Become(t, [at |-> "method", app |-> t])
    /\ UNCHANGED <<store, file, versions, asked, copy>>

My(t) == app[thread[t].app]

Method(t) ==
    /\ At(t, "method")
    /\ \E method \in Methods :
         IF method \in {"GET", "HEAD"}
         THEN /\ Become(t, [at |-> Begin, method |-> method])
              /\ UNCHANGED <<store, file, versions, asked, app, cached, copy>>
         ELSE Answer(t, 405)

-----------------------------------------------------------------------------
(* FileApp.update and set_content: assignments to the shared object, one at  *)
(* a time.                                                                   *)

\* A mutant: the length tells whether the file has changed.
UpToDatePlain(t) == file.size = My(t).content_length

UpToDate(t) == file.version = My(t).last_modified

\* os.stat of a file that was removed raises OSError; max-age=0 forces an update.
Stat(t) ==
    /\ At(t, "stat")
    /\ IF file = None THEN Answer(t, "error")
       ELSE /\ \/ UpToDate(t) /\ Goto(t, "open")
               \/ \E force \in BOOLEAN :
                      /\ force \/ ~UpToDate(t)
                      /\ Become(t, [at |-> "assign", stat |-> file,
                                    todo |-> <<<<"last_modified", file.version>>>>])
            /\ UNCHANGED <<store, file, versions, asked, app, cached, copy>>

Assign(t) ==
    LET todo == thread[t].todo
    IN  /\ At(t, "assign") /\ todo # <<>>
        /\ app' = [app EXCEPT ![thread[t].app][Head(todo)[1]] = Head(todo)[2]]
        /\ Become(t, [todo |-> Tail(todo)])
        /\ UNCHANGED <<store, file, versions, asked, cached, copy>>

SetContent(content, time) ==
    <<<<"last_modified", time>>, <<"content", content>>, <<"content_length", content.size>>,
      <<"header", time>>>>

\* After the first assignment: the content of a small file is read, a large
\* one is read when it is sent.
Assigned(t) ==
    LET stat == thread[t].stat
    IN  /\ At(t, "assign") /\ thread[t].todo = <<>>
        /\ IF stat = None THEN Goto(t, "open")
           ELSE IF stat.size >= CacheSize
           THEN Become(t, [stat |-> None, todo |-> <<<<"content", None>>, <<"content_length", stat.size>>,
                                                     <<"header", stat.version>>>>])
           ELSE IF file = None THEN thread' = [thread EXCEPT ![t] = Idle]
           ELSE Become(t, [stat |-> None, todo |-> SetContent(file, stat.version)])
        /\ UNCHANGED <<store, file, versions, asked, app, cached, copy>>

InMemory(t) == My(t).content # None /\ My(t).content.size > 0

\* FileApp.get: without content in memory (or with an empty one) the file is opened.
Open(t) ==
    /\ At(t, "open")
    /\ IF InMemory(t)
       THEN Become(t, [at |-> "modified", file |-> None])
       ELSE IF file = None THEN Goto(t, "notfound")
       ELSE Become(t, [at |-> "modified", file |-> file])
    /\ UNCHANGED <<store, file, versions, asked, app, cached, copy>>

\* The file is gone, or may not be read.
NotOpened(t) == At(t, "notfound") /\ Answer(t, 404)
Forbidden(t) == At(t, "open") /\ ~InMemory(t) /\ file # None /\ Answer(t, 403)

-----------------------------------------------------------------------------
(* DataApp.get                                                               *)

\* The headers are copied; the ETag is made of two attributes at once.
Headers(t) ==
    /\ At(t, "modified")
    /\ Become(t, [at |-> "etag", modified |-> My(t).header])
    /\ UNCHANGED <<store, file, versions, asked, app, cached, copy>>

Etag(t) ==
    /\ At(t, "etag")
    /\ Become(t, [at |-> "condition", etag |-> <<My(t).last_modified, My(t).content_length>>])
    /\ UNCHANGED <<store, file, versions, asked, app, cached, copy>>

\* A request with If-None-Match, or only with If-Modified-Since, as they came with the
\* client's copy, is answered by 304 if one holds; one that is ill-formed by 400.
NotModified(t) ==
    /\ thread[t].mine # None
    /\ \/ thread[t].mine.etag = thread[t].etag
       \/ thread[t].mine.modified # None /\ thread[t].mine.modified >= My(t).last_modified

AnswerNotModified(t) ==
    /\ At(t, "condition") /\ NotModified(t)
    /\ Goto(t, "kept")
    /\ UNCHANGED <<store, file, versions, asked, app, cached, copy>>

BadCondition(t) == At(t, "condition") /\ Answer(t, 400)

\* _Range.parse goes from range to range: one out of order makes it ignore the
\* header, and after one without an end a number is compared with None.
Faults(range) == {i \in 1..(Len(range) - 1) : range[i][2] = None \/ range[i + 1][1] <= range[i][2]}
Parse(range) == IF range = None \/ Faults(range) = {} THEN range ELSE None
Uncomparable(range) ==
    range # None /\ Faults(range) # {} /\ range[Min(Faults(range))][2] = None

\* The bytes that one range, or none, asks of a content of that length; the end
\* 0 counts as none.
Upper(end, length) == IF end \in {None, 0} THEN length - 1 ELSE end

Bytes(range, length) ==
    IF range # None /\ Len(range) = 1 THEN <<range[1][1], Upper(range[1][2], length)>> ELSE <<0, length - 1>>

Satisfiable(range, length) ==
    range # None /\ Len(range) = 1 =>
        LET b == Bytes(range, length) IN b[2] < length /\ b[1] <= b[2]

\* A request without a condition, or with one that does not hold.  The length may
\* not be there yet.
Length(t) ==
    LET length == My(t).content_length
    IN  /\ At(t, "condition")
        /\ \E range \in Ranges :
             IF length = None \/ Uncomparable(range) THEN Answer(t, "error")
             ELSE IF ~Satisfiable(Parse(range), length) THEN Answer(t, 416)
             ELSE /\ Become(t, [at |-> "body", whole |-> Parse(range) = None])
                  /\ UNCHANGED <<store, file, versions, asked, app, cached, copy>>

Marred(t) == t \in torn \/ thread[t].app \in mixed

\* The body: from memory, or from the file that was opened; HEAD has none.  The
\* client keeps a whole body with the ETag and the Last-Modified it got.
Body(t) ==
    LET me == thread[t]
        source == IF My(t).content # None THEN My(t).content ELSE me.file
    IN  /\ At(t, "body")
        /\ thread' = [thread EXCEPT ![t] = Idle]
        /\ copy' = IF me.method = "GET" /\ me.whole /\ source # None
                   THEN [version |-> source.version, etag |-> me.etag, modified |-> me.modified,
                         marred |-> Marred(t)]
                   ELSE copy
        /\ UNCHANGED <<store, file, versions, asked, app, cached>>

Kept(t) == At(t, "kept") /\ Answer(t, 304)

-----------------------------------------------------------------------------

\* From the comparison of the times on, until the request is answered.
Uses(t) ==
    thread[t].at \in {"assign", "open", "notfound", "modified", "etag", "condition", "body", "kept"}

Disturbed(t) == \E u \in Thread \ {t} : At(u, "assign") /\ thread[u].app = thread[t].app

\* History: who has been disturbed, and which objects were filled by two; one
\* that a thread filled from the beginning to the end alone is whole again.
Overlaps ==
    /\ torn' = {t \in Thread : Uses(t)' /\ (t \in torn \/ Disturbed(t)')}
    /\ mixed' = (mixed \ {thread[t].app : t \in {u \in Thread \ torn : At(u, "assign") /\ At(u, "open")'}})
                 \cup {thread'[t].app : t \in {u \in torn' : At(u, "assign")'}}

FileNext ==
    /\ \/ FileChanges \/ FileRemoved
       \/ \E t \in Thread :
             \/ Ask(t) \/ Lookup(t) \/ Refuse(t) \/ Make(t) \/ Method(t) \/ Stat(t) \/ Assign(t) \/ Assigned(t)
             \/ Open(t) \/ NotOpened(t) \/ Forbidden(t) \/ Headers(t) \/ Etag(t)
             \/ AnswerNotModified(t) \/ BadCondition(t) \/ Length(t) \/ Body(t) \/ Kept(t)
    /\ Overlaps

FileSpec == FileInit /\ [][FileNext]_fileVars

-----------------------------------------------------------------------------

\* A client is told that its copy is good when the file had already changed as it asked only if
\* another thread assigned to the shared object while this answer, or the one the copy came
\* with, was made from it, or if two threads had filled the object at once and none alone since:
\* never by what update and set_content leave in the object when they fail half way, nor
\* whenever the file changes (fileapp.py 126-153, 208-229).
NeverStale ==
    \A t \in Thread :
        At(t, "kept") => thread[t].mine.version >= thread[t].seen \/ thread[t].mine.marred \/ Marred(t)
=============================================================================
