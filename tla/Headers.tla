------------------------------- MODULE Headers -------------------------------
(***************************************************************************)
(* HTTPHeader and its subclasses (httpheaders.py) at work on the list of     *)
(* headers of a DataApp (fileapp.py): the application configures its         *)
(* headers, again and again, and answers requests from copies of them.       *)
(*                                                                           *)
(* A header is [name, value], its name in lower case, as every comparison    *)
(* makes it.  Values: of Expires and Last-Modified a time, of Cache-Control   *)
(* its directives, of others a word; None is the empty string.               *)
(***************************************************************************)
EXTENDS Integers, Sequences, SequencesExt

CONSTANTS
    Given,       \* lists of headers an application is constructed with
    MaxAge,      \* values of max_age
    Guessed,     \* what mimetypes guesses for the name of an attachment, perhaps None
    MaxClock,    \* bound on the clock
    MaxChanges,  \* bound on the calls that configure the application
    Unknown,     \* application/octet-stream
    None

VARIABLES
    clock,
    headers,   \* of the application
    expires,   \* its expires: a number of seconds or None
    control,   \* history: the arguments of its last cache_control
    changes,
    sent,      \* the headers of the last answer, when it was sent, and the history then
    ordered    \* was it put through normalize_headers?

headersVars == <<clock, headers, expires, control, changes, sent, ordered>>

EntityHeaders == {"content-type", "content-length", "content-range", "content-disposition", "expires",
           "last-modified"}

Header(name, value) == [name |-> name, value |-> value]

-----------------------------------------------------------------------------
(* HTTPHeader: values, delete and update of a list.                          *)

Values(list, name) ==
    LET of == SelectSeq(list, LAMBDA h : h.name = name) IN [i \in DOMAIN of |-> of[i].value]

Delete(list, name) == SelectSeq(list, LAMBDA h : h.name # name)

\* The first occurrence is replaced, others go; no value deletes the header.
Update(list, name, value) ==
    LET i == SelectInSeq(list, LAMBDA h : h.name = name)
    IN  IF value = None THEN Delete(list, name)
        ELSE IF i = 0 THEN Append(list, Header(name, value))
        ELSE SubSeq(list, 1, i - 1) \o <<Header(name, value)>>
             \o Delete(SubSeq(list, i + 1, Len(list)), name)

\* _MultiEntryHeader.update
UpdateEntries(list, name, values) ==
    Delete(list, name) \o [i \in DOMAIN values |-> Header(name, values[i])]

\* _DateHeader.compose: a difference of 0 is none.
Date(delta) == clock + delta

\* normalize_headers: a sort by category and name, which keeps the order of
\* equal names; unknown headers count as those of an entity.
Rank == <<"cache-control", "date", "accept-ranges", "etag", "set-cookie", "content-disposition",
          "content-length", "content-range", "content-type", "expires", "last-modified", "x-other">>
Normalized(list) ==
    FlattenSeq([i \in DOMAIN Rank |-> SelectSeq(list, LAMBDA h : h.name = Rank[i])])

-----------------------------------------------------------------------------

\* DataApp.__init__
HeadersInit ==
    /\ clock = 0 /\ expires = None /\ control = None /\ changes = 0
    /\ \E given \in Given :
          LET ranges == Update(given, "accept-ranges", "bytes")
              typed == IF Values(ranges, "content-type") = <<>>
                       THEN Update(ranges, "content-type", Unknown) ELSE ranges
          IN  headers = Update(typed, "last-modified", clock)
    /\ sent = None /\ ordered = FALSE

Tick == clock < MaxClock /\ clock' = clock + 1 /\ UNCHANGED <<headers, expires, control, changes, sent, ordered>>

Configures == changes < MaxChanges /\ changes' = changes + 1 /\ UNCHANGED <<clock, sent, ordered>>

\* _CacheControl._compose: the offset that Expires gets.
Offset(mode, age) == IF mode = "public" THEN age ELSE 0

\* A mutant: an application keeps the time it was given before.
KeptPlain(offset) == IF offset \in {None, 0} THEN expires ELSE offset

\* DataApp.cache_control keeps the offset, if there is one.
KeptOffset(offset) == IF offset = 0 THEN None ELSE offset

\* _CacheControl.apply sets Expires too, to now or to the time of max_age.
CacheControl(mode, age) ==
    LET offset == Offset(mode, age)
        dated == IF offset = None THEN headers ELSE Update(headers, "expires", Date(offset))
    IN  /\ Configures
        /\ mode = "no-cache" => age \in {None, 0}
        /\ headers' = Update(dated, "cache-control", [mode |-> mode, age |-> age])
        /\ expires' = KeptOffset(offset)
        /\ control' = [mode |-> mode, age |-> age]

\* _ContentDisposition.apply: a file name tells the type if nothing else does.
Disposition(type) ==
    LET old == Values(headers, "content-type")
        typed == IF old \in {<<>>, <<Unknown>>} /\ type \notin {None, Unknown}
                 THEN Update(headers, "content-type", type) ELSE headers
    IN  /\ Configures /\ Len(old) <= 1
        /\ headers' = Update(typed, "content-disposition", "attachment")
        /\ UNCHANGED <<expires, control>>

\* SET_COOKIE.update
Cookies(values) ==
    /\ Configures
    /\ headers' = UpdateEntries(headers, "set-cookie", values)
    /\ UNCHANGED <<expires, control>>

SetContent ==
    /\ Configures
    /\ headers' = Update(headers, "last-modified", Date(0))
    /\ UNCHANGED <<expires, control>>

\* DataApp.get
Answer(notModified) ==
    LET tagged == Update(headers, "etag", "etag")
        dated == IF expires = None THEN tagged ELSE Update(tagged, "expires", Date(expires))
    IN  /\ sent' = [at |-> clock, control |-> control,
                    headers |-> IF notModified
                                THEN SelectSeq(dated, LAMBDA h : h.name \notin EntityHeaders)
                                ELSE Update(Update(dated, "content-range", "range"), "content-length", "length")]
        /\ ordered' = FALSE
        /\ UNCHANGED <<clock, headers, expires, control, changes>>

\* normalize_headers is for those who get an answer.
Normalize ==
    /\ sent # None /\ ~ordered
    /\ sent' = [sent EXCEPT !.headers = Normalized(@)] /\ ordered' = TRUE
    /\ UNCHANGED <<clock, headers, expires, control, changes>>

HeadersNext ==
    \/ Tick \/ SetContent \/ Normalize
    \/ \E mode \in {"public", "private", "no-cache"}, age \in MaxAge \cup {None} : CacheControl(mode, age)
    \/ \E type \in Guessed : Disposition(type)
    \/ \E values \in {<<>>, <<"c1">>, <<"c1", "c2">>} : Cookies(values)
    \/ \E notModified \in BOOLEAN : Answer(notModified)

HeadersSpec == HeadersInit /\ [][HeadersNext]_headersVars

-----------------------------------------------------------------------------

\* However often an application is configured, an answer that is not to be
\* kept, or for so many seconds only, does not tell HTTP/1.0 clients to keep
\* it for longer in its one Expires header (httpheaders.py 671-681,
\* fileapp.py 118-120, 151-152).
NotKeptBeyond ==
    sent # None /\ sent.control # None /\ (sent.control.mode # "public" \/ sent.control.age # None) =>
        LET dates == Values(sent.headers, "expires")
            longest == IF sent.control.mode = "public" THEN sent.control.age ELSE 0
        IN  Len(dates) <= 1 /\ \A i \in DOMAIN dates : dates[i] <= sent.at + longest
=============================================================================
