------------------------------- MODULE Exchange -------------------------------
(***************************************************************************)
(* One request through a stack of middlewares that care how it ends:       *)
(*   "conn"     BasicTransactionHandler (paste/transaction.py)             *)
(*   "manager"  TransactionManagerMiddleware (paste/transaction.py)        *)
(*   "upload"   UploadProgressMonitor (paste/progress.py)                  *)
(*   "errors"   ErrorMiddleware (paste/exceptions/errormiddleware.py)      *)
(*   "http"     HTTPExceptionHandler (paste/httpexceptions.py)             *)
(* in any order, under the loop of the server (paste/httpserver.py).  The  *)
(* first three are built on catch_errors (paste/wsgilib.py).               *)
(*                                                                         *)
(* Level 0 is the application, level i the i-th middleware from the        *)
(* inside, and Len(stack) + 1 the server.  What the application's call, or *)
(* the next() of its iterator, ends with is an event that rises through    *)
(* the levels.  HTTPFound stands for the HTTPExceptions below 400 and      *)
(* HTTPForbidden for the others; a "base" is an exception that is not an   *)
(* Exception.                                                              *)
(***************************************************************************)
EXTENDS Integers, SequencesExt

CONSTANTS Stacks,           \* the stacks of middlewares, inside first
          MaxTransactions   \* bound: transactions the application registers

Layers == {"conn", "manager", "upload", "errors", "http"}

\* Any of the middlewares, in any order: what Stacks may be.
AllStacks == UNION {{s \in [1..n -> Layers] : IsInjective(s)} : n \in 0..Cardinality(Layers)}

ASSUME ExchangeAssumption ==
    /\ Stacks \subseteq Seq(Layers) /\ \A s \in Stacks : IsInjective(s)
    /\ MaxTransactions \in Nat

VARIABLES
    stack,
    big,           \* CONTENT_LENGTH is over the threshold of the monitor
    phase,         \* "in": on the way to the application, "app": in its call,
                   \* "out": on the way back; "next": the server asks for the
                   \* next item, "up": what it gets; "close", "over"
    level,         \* where the event is
    event,         \* what rises
    throw_errors,  \* environ: paste.throw_errors
    expected,      \* environ: HTTPException is in paste.expected_exceptions
    catching,      \* the ErrorMiddleware is not disabled
    started,       \* ResponseStartChecker.response_started
    caught,        \* CatchingIter.closed
    exhausted,     \* the application's iterator has ended
    curr_status,   \* wsgi_curr_headers, 0 when there are none
    head,          \* the status sent to the client, 0 before
    page,          \* an error page was returned to the server
    conn,          \* the database connection
    should_commit, \* the last item of the list of that name
    transactions,  \* Manager.transactions
    aborted,       \* Manager.aborted
    calls,         \* history: calls of the finalizers, and of the iterator's close
    errorsFrom,    \* history: the levels where an Exception arose that is not an
                   \* HTTPException
    raised,        \* history: the HTTPException the application raised, if it did
                   \* so in its call and before start_response
    late,          \* history: the application raised after start_response, or an
                   \* HTTPException from its iterator
    broken         \* history: a database failed, or the client left, or the
                   \* exchange ended by an exception that nobody catches

flow     == <<phase, level, event>>
environ  == <<throw_errors, expected, catching>>
iterator == <<started, caught, exhausted>>
server   == <<curr_status, head, page>>
database == <<conn, should_commit, transactions, aborted>>
history  == <<calls, errorsFrom, raised, late, broken>>
vars == <<stack, big, flow, environ, iterator, server, database, history>>

HTTP   == {"HTTPFound", "HTTPForbidden"}
Raises == HTTP \cup {"error"}
Code(e) == IF e = "HTTPFound" THEN 302 ELSE 403
Status == {200, 404}

Outermost == Len(stack) + 1
At(i, layer) == i \in DOMAIN stack /\ stack[i] = layer
Has(layer) == layer \in Range(stack)

\* The state of an exchange stays within its type, at every level of its stack.
TypeOK ==
    /\ stack \in Seq(Layers) /\ IsInjective(stack) /\ big \in BOOLEAN
    /\ phase \in {"in", "app", "out", "next", "up", "close", "over"}
    /\ level \in 0..Outermost
    /\ event \in Raises \cup {"none", "list", "stop", "gone", "base"}
    /\ throw_errors \in BOOLEAN /\ expected \in BOOLEAN /\ catching \in BOOLEAN
    /\ started \in BOOLEAN /\ caught \in BOOLEAN /\ exhausted \in BOOLEAN
    /\ page \in BOOLEAN /\ aborted \in BOOLEAN /\ late \in BOOLEAN
    /\ broken \in BOOLEAN
    /\ curr_status \in Status \cup {0, 302, 403, 500}
    /\ head \in Status \cup {0, 302, 403, 500}
    /\ head # 0 => curr_status # 0
    /\ conn \in {"none", "open", "committed", "rolledback"}
    /\ should_commit \in Status \cup {302, 403, 500}
    /\ transactions \in Seq({"open", "committed", "rolledback"})
    /\ Len(transactions) <= MaxTransactions
    /\ calls \in [{"conn", "manager", "upload", "close"} -> 0..2]
    /\ errorsFrom \subseteq 0..Len(stack)
    /\ raised \in HTTP \cup {"none"}

Init ==
    /\ stack \in Stacks /\ big \in BOOLEAN
    /\ phase = "in" /\ level = Len(stack) /\ event = "none"
    /\ throw_errors = FALSE /\ expected = FALSE /\ catching = FALSE
    /\ started = FALSE /\ caught = FALSE /\ exhausted = FALSE
    /\ curr_status = 0 /\ head = 0 /\ page = FALSE
    /\ conn = "none" /\ should_commit = 500
    /\ transactions = <<>> /\ aborted = FALSE
    /\ calls = [f \in {"conn", "manager", "upload", "close"} |-> 0]
    /\ errorsFrom = {} /\ raised = "none" /\ late = FALSE /\ broken = FALSE

-----------------------------------------------------------------------------
(* The way in.                                                             *)

Deeper == phase' = "in" /\ level' = level - 1 /\ UNCHANGED event

EnterConn ==
    /\ phase = "in" /\ At(level, "conn")
    /\ \/ conn' = "open" /\ Deeper /\ UNCHANGED <<errorsFrom, broken>>
       \/ /\ phase' = "out" /\ level' = level + 1 /\ event' = "error"
          /\ errorsFrom' = errorsFrom \cup {level} /\ broken' = TRUE
          /\ UNCHANGED conn
    /\ UNCHANGED <<stack, big, environ, iterator, server, should_commit, transactions,
                   aborted, calls, raised, late>>

EnterManager ==
    /\ phase = "in" /\ At(level, "manager")
    /\ throw_errors' = TRUE
    /\ Deeper
    /\ UNCHANGED <<stack, big, expected, catching, iterator, server, database, history>>

EnterUpload ==
    /\ phase = "in" /\ At(level, "upload")
    /\ Deeper
    /\ UNCHANGED <<stack, big, environ, iterator, server, database, history>>

EnterErrors ==
    /\ phase = "in" /\ At(level, "errors")
    /\ catching' = ~throw_errors
    /\ throw_errors' = TRUE
    /\ Deeper
    /\ UNCHANGED <<stack, big, expected, iterator, server, database, history>>

\* Mutant: HTTPException is not announced as expected.
EnterHTTPPlain ==
    /\ phase = "in" /\ At(level, "http")
    /\ Deeper
    /\ UNCHANGED <<stack, big, environ, iterator, server, database, history>>

EnterHTTP ==
    /\ phase = "in" /\ At(level, "http")
    /\ expected' = TRUE
    /\ Deeper
    /\ UNCHANGED <<stack, big, throw_errors, catching, iterator, server, database,
                   history>>

EnterApp ==
    /\ phase = "in" /\ level = 0
    /\ phase' = "app"
    /\ UNCHANGED <<stack, big, level, event, environ, iterator, server, database,
                   history>>

-----------------------------------------------------------------------------
(* start_response, as called at a level: by way of the levels above, to    *)
(* the server, which accepts it or raises in the caller.                   *)

Above(l, layer) == \E i \in DOMAIN stack : i > l /\ stack[i] = layer

Accepts(with_exc_info) == IF with_exc_info THEN head = 0 ELSE curr_status = 0

CallStartResponse(l, status, with_exc_info) ==
    /\ should_commit' = IF Above(l, "conn") THEN status ELSE should_commit
    /\ started' = (started \/ (catching /\ Above(l, "errors")))
    /\ curr_status' = IF Accepts(with_exc_info) THEN status ELSE curr_status

-----------------------------------------------------------------------------
(* The application, in its call and in the next() of its iterator.         *)

AppRuns == phase = "app" \/ (phase = "next" /\ ~caught /\ ~exhausted)

Raising(e) ==
    /\ phase' = IF phase = "app" THEN "out" ELSE "up"
    /\ exhausted' = (phase = "next")
    /\ level' = 1 /\ event' = e
    /\ late' = (curr_status # 0 \/ (phase = "next" /\ e \in HTTP))
    /\ errorsFrom' = IF e = "error" THEN errorsFrom \cup {0} ELSE errorsFrom
    /\ raised' = IF e \in HTTP /\ ~late' THEN e ELSE "none"

\* A call that is not accepted raises, and the application lets it pass.
StartResponse(status, with_exc_info) ==
    /\ AppRuns
    /\ CallStartResponse(0, status, with_exc_info)
    /\ IF Accepts(with_exc_info)
          THEN UNCHANGED <<flow, exhausted, errorsFrom, raised, late>>
          ELSE Raising("error")
    /\ UNCHANGED <<stack, big, environ, caught, head, page, conn, transactions,
                   aborted, calls, broken>>

\* The write function, which the ErrorMiddleware does not give on.
Write ==
    /\ phase = "app" /\ curr_status # 0 /\ head = 0 /\ ~catching
    /\ head' = curr_status
    /\ UNCHANGED <<stack, big, flow, environ, iterator, curr_status, page, database,
                   history>>

Register ==
    /\ AppRuns /\ Has("manager") /\ Len(transactions) < MaxTransactions
    /\ transactions' = Append(transactions, "open")
    /\ UNCHANGED <<stack, big, flow, environ, iterator, server, conn, should_commit,
                   aborted, history>>

Abort ==
    /\ AppRuns /\ Has("manager") /\ ~aborted
    /\ aborted' = TRUE
    /\ UNCHANGED <<stack, big, flow, environ, iterator, server, conn, should_commit,
                   transactions, history>>

ReturnList ==
    /\ phase = "app"
    /\ phase' = "out" /\ level' = 1 /\ event' = "list"
    /\ UNCHANGED <<stack, big, environ, iterator, server, database, history>>

\* Every level wraps the iterator, or passes it on.
ReturnIterator ==
    /\ phase = "app"
    /\ phase' = "next"
    /\ UNCHANGED <<stack, big, level, event, environ, iterator, server, database,
                   history>>

Raise(e) ==
    /\ AppRuns
    /\ Raising(e)
    /\ UNCHANGED <<stack, big, environ, started, caught, server, database, calls,
                   broken>>

\* An exception that no level catches: only the server's finally clause runs.
RaiseBase ==
    /\ AppRuns
    /\ phase' = IF phase = "app" THEN "over" ELSE "close"
    /\ event' = "base"
    /\ exhausted' = (phase = "next")
    /\ broken' = TRUE
    /\ UNCHANGED <<stack, big, level, environ, started, caught, server, database,
                   calls, errorsFrom, raised, late>>

\* The end of the iterator, also when it is asked again.
Stop ==
    /\ phase = "next" /\ ~caught
    /\ phase' = "up" /\ level' = 1 /\ event' = "stop"
    /\ exhausted' = TRUE
    /\ UNCHANGED <<stack, big, environ, started, caught, server, database, history>>

-----------------------------------------------------------------------------
(* The finalizers that catch_errors calls, and _wrap_app_iter.next: with   *)
(* an exception, or at the end of a list or an iterator.  An exception of  *)
(* the finalizer takes the place of the event.                             *)

Failing == event \in Raises

Called(f) == calls' = [calls EXCEPT ![f] = IF @ = 2 THEN 2 ELSE @ + 1]

Rises == level' = level + 1 /\ UNCHANGED <<phase, event, errorsFrom>>

FinalizerRaises ==
    /\ level' = level + 1 /\ event' = "error"
    /\ errorsFrom' = errorsFrom \cup {level}
    /\ broken' = TRUE
    /\ UNCHANGED phase

Rising == phase \in {"out", "up"}

\* Mutant: the code of an HTTPException is not looked at.
CommitStatusPlain == should_commit

\* What should_commit.pop() gives.
CommitStatus == IF event \in HTTP THEN Code(event) ELSE should_commit

Commit ==
    /\ Rising /\ At(level, "conn") /\ CommitStatus < 400
    /\ Called("conn")
    /\ \/ conn' = "committed" /\ Rises /\ UNCHANGED broken
       \/ FinalizerRaises /\ UNCHANGED conn
    /\ UNCHANGED <<stack, big, environ, iterator, server, should_commit, transactions,
                   aborted, raised, late>>

\* A rollback that fails is passed over, and the connection is not closed.
Rollback ==
    /\ Rising /\ At(level, "conn") /\ CommitStatus >= 400
    /\ Called("conn")
    /\ Rises
    /\ \/ conn' = "rolledback" /\ UNCHANGED broken
       \/ broken' = TRUE /\ UNCHANGED conn
    /\ UNCHANGED <<stack, big, environ, iterator, server, should_commit, transactions,
                   aborted, raised, late>>

Aborts == aborted \/ Failing

\* Manager.error aborts, Manager.finish goes through the transactions; when one
\* of them fails, the rest stays as it is.
Finish ==
    /\ Rising /\ At(level, "manager")
    /\ Called("manager")
    /\ aborted' = Aborts
    /\ \E n \in 0..Len(transactions) :
          /\ transactions' = [i \in DOMAIN transactions |->
                                IF i > n THEN transactions[i]
                                ELSE IF aborted' THEN "rolledback" ELSE "committed"]
          /\ IF n = Len(transactions) THEN Rises /\ UNCHANGED broken
                                      ELSE FinalizerRaises
    /\ UNCHANGED <<stack, big, environ, iterator, server, conn, should_commit, raised,
                   late>>

FinishUpload ==
    /\ Rising /\ At(level, "upload")
    /\ Rises
    /\ IF big THEN Called("upload") ELSE UNCHANGED calls
    /\ UNCHANGED <<stack, big, environ, iterator, server, database, raised, late,
                   broken>>

-----------------------------------------------------------------------------
(* ErrorMiddleware and HTTPExceptionHandler.                               *)

PassErrors ==
    /\ Rising /\ At(level, "errors")
    /\ \/ ~catching
       \/ phase = "out" /\ (event = "list" \/ (event \in HTTP /\ expected))
    /\ Rises
    /\ UNCHANGED <<stack, big, environ, iterator, server, database, calls, raised,
                   late, broken>>

\* The except clause of ErrorMiddleware.__call__
AnswerError ==
    /\ phase = "out" /\ At(level, "errors") /\ catching
    /\ Failing /\ ~(event \in HTTP /\ expected)
    /\ CallStartResponse(level, 500, TRUE)
    /\ level' = level + 1
    /\ IF Accepts(TRUE)
          THEN event' = "list" /\ page' = TRUE /\ UNCHANGED errorsFrom
          ELSE /\ event' = "error" /\ errorsFrom' = errorsFrom \cup {level}
               /\ UNCHANGED page
    /\ UNCHANGED <<stack, big, phase, environ, caught, exhausted, head, conn,
                   transactions, aborted, calls, raised, late, broken>>

\* The page of CatchingIter.next, which is the server's next item.
Page ==
    /\ phase' = "next" /\ page' = TRUE
    /\ head' = IF head # 0 THEN head ELSE IF started THEN curr_status ELSE 500
    /\ IF started THEN UNCHANGED <<should_commit, started, curr_status>>
                  ELSE CallStartResponse(level - 1, 500, TRUE)
    /\ UNCHANGED <<level, event>>

Catches == phase = "up" /\ At(level, "errors") /\ catching

\* Mutant: closed is not set.
CatchExceptionPlain ==
    /\ Catches /\ Failing
    /\ Called("close")
    /\ Page
    /\ UNCHANGED <<stack, big, environ, caught, exhausted, conn, transactions, aborted,
                   errorsFrom, raised, late, broken>>

\* Mutant: an exception of the iterator is taken for its end.
CatchExceptionQuiet ==
    /\ Catches /\ Failing
    /\ caught' = TRUE
    /\ Called("close")
    /\ level' = level + 1 /\ event' = "stop" /\ UNCHANGED phase
    /\ UNCHANGED <<stack, big, environ, started, exhausted, server, database,
                   errorsFrom, raised, late, broken>>

\* CatchingIter.next: whether close raises or not, the server gets a page.
CatchException ==
    /\ Catches /\ Failing
    /\ caught' = TRUE
    /\ Called("close")
    /\ Page
    /\ UNCHANGED <<stack, big, environ, exhausted, conn, transactions, aborted,
                   errorsFrom, raised, late, broken>>

CatchStop ==
    /\ Catches /\ event = "stop"
    /\ caught' = TRUE
    /\ Called("close")
    /\ Rises
    /\ UNCHANGED <<stack, big, environ, started, exhausted, server, database, raised,
                   late, broken>>

\* When close raises at the end, its page is an item that is not bytes, and the
\* server, having sent the headers, fails to write it.
CatchStopCloseRaises ==
    /\ Catches /\ event = "stop"
    /\ caught' = TRUE
    /\ Called("close")
    /\ phase' = "close" /\ event' = "error" /\ UNCHANGED level
    /\ head' = IF head = 0 THEN curr_status ELSE head
    /\ broken' = TRUE
    /\ UNCHANGED <<stack, big, environ, started, exhausted, curr_status, page, database,
                   errorsFrom, raised, late>>

PassHTTP ==
    /\ Rising /\ At(level, "http")
    /\ ~(phase = "out" /\ event \in HTTP)
    /\ Rises
    /\ UNCHANGED <<stack, big, environ, iterator, server, database, calls, raised,
                   late, broken>>

\* The exception is called as an application, without an exc_info.
AnswerHTTP ==
    /\ phase = "out" /\ At(level, "http") /\ event \in HTTP
    /\ CallStartResponse(level, Code(event), FALSE)
    /\ level' = level + 1
    /\ IF Accepts(FALSE)
          THEN event' = "list" /\ UNCHANGED errorsFrom
          ELSE event' = "error" /\ errorsFrom' = errorsFrom \cup {level}
    /\ UNCHANGED <<stack, big, phase, environ, caught, exhausted, head, page, conn,
                   transactions, aborted, calls, raised, late, broken>>

-----------------------------------------------------------------------------
(* wsgi_execute of the server.                                             *)

\* The headers go out with the first item, or b''; without them it is an error.
SendHeaders == head' = IF head = 0 THEN curr_status ELSE head

\* The last except clause: an answer if nothing was sent.
ServerError ==
    /\ head' = IF head = 0 THEN 500 ELSE head
    /\ curr_status' = IF head = 0 THEN 500 ELSE curr_status

EndOfCall ==
    /\ phase = "out" /\ level = Outermost
    /\ phase' = "over"
    /\ IF Failing \/ curr_status = 0
          THEN ServerError
          ELSE SendHeaders /\ UNCHANGED curr_status
    /\ UNCHANGED <<stack, big, level, event, environ, iterator, page, database, history>>

Item ==
    /\ phase = "next" /\ ~caught /\ ~exhausted
    /\ SendHeaders
    /\ IF curr_status = 0
          THEN phase' = "close" /\ event' = "error" /\ broken' = TRUE
          ELSE UNCHANGED <<phase, event, broken>>
    /\ UNCHANGED <<stack, big, level, environ, iterator, curr_status, page, database,
                   calls, errorsFrom, raised, late>>

\* A write to the socket fails.
ClientLeaves ==
    /\ phase = "next" /\ head # 0
    /\ phase' = "close" /\ event' = "gone"
    /\ broken' = TRUE
    /\ UNCHANGED <<stack, big, level, environ, iterator, server, database, calls,
                   errorsFrom, raised, late>>

\* After its page the CatchingIter has nothing more.
EndOfPage ==
    /\ phase = "next" /\ caught
    /\ phase' = "up" /\ level' = level + 1 /\ event' = "stop"
    /\ UNCHANGED <<stack, big, environ, iterator, server, database, history>>

EndOfIteration ==
    /\ phase = "up" /\ level = Outermost
    /\ phase' = "close"
    /\ IF event = "stop"
          THEN SendHeaders /\ event' = IF curr_status = 0 THEN "error" ELSE event
          ELSE event' = "error" /\ UNCHANGED head
    /\ UNCHANGED <<stack, big, level, environ, iterator, curr_status, page, database,
                   history>>

\* result.close() in the finally clause: the CatchingIter's, which closes the
\* iterable below it once and keeps its exceptions, or else, through the wrappers
\* of catch_errors, the application's own.
Close ==
    /\ phase = "close"
    /\ phase' = "over"
    /\ IF caught THEN UNCHANGED calls ELSE Called("close")
    /\ event' \in IF catching THEN {event} ELSE {event, "error"}
    /\ IF event' = "error" THEN ServerError ELSE UNCHANGED <<head, curr_status>>
    /\ UNCHANGED <<stack, big, level, environ, iterator, page, database, errorsFrom,
                   raised, late, broken>>

\* The request is done with.
Over == phase = "over"
Finished == Over /\ UNCHANGED vars

-----------------------------------------------------------------------------

WayIn ==
    \/ EnterConn \/ EnterManager \/ EnterUpload \/ EnterErrors \/ EnterHTTP
    \/ EnterApp

Application ==
    \/ \E status \in Status, with_exc_info \in BOOLEAN :
            StartResponse(status, with_exc_info)
    \/ \E e \in Raises : Raise(e)
    \/ RaiseBase \/ Write \/ Register \/ Abort \/ ReturnList \/ ReturnIterator \/ Stop

WayOut ==
    \/ Commit \/ Rollback \/ Finish \/ FinishUpload
    \/ PassErrors \/ AnswerError \/ CatchException \/ CatchStop \/ CatchStopCloseRaises
    \/ PassHTTP \/ AnswerHTTP

Server ==
    \/ EndOfCall \/ Item \/ ClientLeaves \/ EndOfPage \/ EndOfIteration \/ Close
    \/ Finished

Next == WayIn \/ Application \/ WayOut \/ Server

Spec == Init /\ [][Next]_vars

-----------------------------------------------------------------------------
(* Properties.                                                             *)

\* No finalizer runs twice, whatever raises in a call, an iterator, a close or
\* another finalizer, and the application's iterator is closed once.  However the
\* application ends its answer, if the databases do not fail and the client stays,
\* no connection, no transaction, no upload and no iterator is left open.
EachEndedOnce ==
    /\ \A f \in DOMAIN calls : calls[f] <= 1
    /\ Over /\ ~broken =>
        /\ conn # "open"
        /\ "open" \notin Range(transactions)
        /\ Has("upload") /\ big => calls["upload"] = 1
        /\ exhausted => calls["close"] = 1

\* The connection is committed exactly when the client is told of a success, by
\* whichever level the status was set; it takes the HTTPExceptionHandler if an
\* HTTPException is raised, and an application that does not raise after
\* start_response.  An error that arises inside the TransactionManagerMiddleware,
\* in the application or in another middleware, is never taken for an answer
\* before the manager sees it: it commits nothing.
CommittedAsTold ==
    /\ Over /\ ~broken /\ ~late /\ Has("conn") /\ (raised # "none" => Has("http")) =>
           (conn = "committed" <=> head < 400)
    /\ \A m \in DOMAIN stack :
           At(m, "manager") /\ (\E l \in errorsFrom : l < m) => "committed" \notin Range(transactions)

\* An error that arises inside the ErrorMiddleware, unless it is disabled, ends in a
\* page or an error status: the client never has a shorter answer without a word.
NoSilentFailure ==
    \A e \in DOMAIN stack :
        Over /\ catching /\ At(e, "errors") /\ (\E l \in errorsFrom : l < e) =>
            page \/ head = 500

\* An HTTPException raised before start_response is the answer, wherever the
\* HTTPExceptionHandler and the ErrorMiddleware are.
ExpectedAnswered ==
    Over /\ ~broken /\ Has("http") /\ raised # "none" => head = Code(raised)
=============================================================================
