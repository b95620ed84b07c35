----------------------------- MODULE ExchangeProofs -----------------------------
(***************************************************************************)
(* Theorems about Exchange, for every order of the middlewares, with any   *)
(* of them left out, and any number of transactions.                       *)
(***************************************************************************)
EXTENDS Exchange, TLAPS

\* The application has not ended yet, by an answer, an exception or otherwise.
Running == phase \in {"in", "app"} \/ (phase = "next" /\ ~caught)

\* It has, and what it ended with is at `level`, or has been there.
Climbing == phase \in {"out", "up", "close"} \/ (phase = "next" /\ caught)

\* What rises has gone by the layer.
Past(layer) == \E i \in DOMAIN stack : i < level /\ stack[i] = layer

Finalizers == {"conn", "manager", "upload"}

\* An error that arose below level i is on its way there.
OnItsWay(i) == phase \in {"out", "up"} /\ level <= i /\ event = "error"

ErrorBelow(i) == \E l \in errorsFrom : l < i

\* What the way in has put into environ.  Inside a TransactionManagerMiddleware
\* no ErrorMiddleware catches anything.
EnvironOK ==
    /\ phase = "in" =>
          /\ \A i \in DOMAIN stack :
                i > level => /\ stack[i] = "manager" => throw_errors
                             /\ stack[i] = "http" => expected
          /\ event = "none"
    /\ phase # "in" => broken \/ (Has("http") => expected)
    /\ \A e, m \in DOMAIN stack :
          stack[e] = "errors" /\ stack[m] = "manager" /\ e < m => ~catching
    /\ catching => Has("errors")

\* Where the exchange is and what has been called on the way.
CallsOK ==
    /\ phase = "app" => level = 0
    /\ Running => /\ \A f \in DOMAIN calls : calls[f] = 0
                  /\ ~exhausted /\ ~caught /\ errorsFrom = {} /\ ~page
                  /\ raised = "none" /\ ~late
    /\ phase \in {"out", "up"} => level > 0
    /\ phase = "out" => ~exhausted /\ ~caught
    /\ phase \in {"up", "next"} /\ ~Running => exhausted
    /\ caught => catching
    /\ phase = "next" /\ caught => At(level, "errors") /\ page
    /\ phase = "up" => event \in Raises \cup {"stop"} /\ (caught => Past("errors"))
    /\ phase = "out" => event \in Raises \cup {"list"}
    /\ phase # "over" => calls["close"] = IF caught THEN 1 ELSE 0
    /\ phase \in {"out", "up", "next"} =>
           \A f \in Finalizers : calls[f] = 0 \/ (calls[f] = 1 /\ Past(f))
    /\ \A f \in DOMAIN calls : calls[f] <= 1

\* What is open, while no database fails and the client stays.
OpenOK ==
    /\ conn = "open" => Has("conn")
    /\ "open" \in Range(transactions) => Has("manager")
    /\ ~broken /\ phase = "close" => level = Outermost
    /\ ~broken /\ Climbing =>
           /\ Past("conn") => conn # "open"
           /\ Past("manager") => "open" \notin Range(transactions)
           /\ Past("upload") /\ big => calls["upload"] = 1
    /\ ~broken /\ phase = "over" =>
           /\ conn # "open" /\ "open" \notin Range(transactions)
           /\ Has("upload") /\ big => calls["upload"] = 1
           /\ exhausted => calls["close"] = 1

\* The status: what was sent is what was set last, and the ErrorMiddleware knows of
\* each start_response below it.
StatusOK ==
    /\ head # 0 => head = curr_status
    /\ phase = "in" => curr_status = 0 /\ ~started
    /\ catching /\ phase \in {"in", "app", "out"} => head = 0
    /\ phase \in {"app", "next", "up"} /\ catching => (started <=> curr_status # 0)

\* Transactions are committed by Manager.finish only, and an error that arose inside
\* the manager aborts them.
ManagerOK ==
    /\ Running \/ (Climbing /\ phase # "close" /\ ~Past("manager"))
          => Range(transactions) \subseteq {"open"}
    /\ \A m \in DOMAIN stack :
          stack[m] = "manager" /\ ErrorBelow(m) =>
             /\ "committed" \notin Range(transactions)
             /\ phase \in {"out", "up"} /\ level <= m => event = "error"

\* An error that arose inside the ErrorMiddleware is on its way to it, or has
\* become a page.
PageOK ==
    \A e \in DOMAIN stack :
        stack[e] = "errors" /\ catching /\ ErrorBelow(e) => page \/ OnItsWay(e)

\* An HTTPException raised before start_response is on its way to the handler, or
\* has become the answer.
AnswerOK ==
    \A h \in DOMAIN stack :
        ~broken /\ stack[h] = "http" /\ raised # "none" =>
            \/ /\ phase = "out" /\ head = 0
               /\ \/ level <= h /\ event = raised /\ curr_status = 0
                  \/ level > h /\ event = "list" /\ curr_status = Code(raised)
            \/ phase = "over" /\ head = Code(raised)

\* The exchanges of which CommittedAsTold speaks.
Plain == ~broken /\ ~late /\ Has("conn") /\ (raised # "none" => Has("http"))

\* What the client is to be told, when the event is not an exception.
Told == IF curr_status = 0 THEN 500 ELSE curr_status

\* Until the event has gone by the handler of the connection, should_commit is what
\* the client is to be told; from then on, the connection is.
CommitOK ==
    Plain =>
        /\ Running => conn # "committed" /\ should_commit = Told
        /\ phase \in {"out", "up"} /\ ~Past("conn") =>
              /\ conn # "committed"
              /\ should_commit = Told
              /\ event \in Raises => curr_status = 0
        /\ phase \in {"out", "up"} /\ Past("conn") =>
              /\ event \in {"list", "stop"} => (conn = "committed" <=> Told < 400)
              /\ event = "error" => conn # "committed" /\ curr_status = 0
              /\ event \in HTTP => /\ conn = "committed" <=> Code(event) < 400
                                   /\ curr_status = 0
        /\ phase \in {"out", "up"} /\ event \in HTTP => phase = "out" /\ raised = event
        /\ phase = "next" /\ caught =>
              /\ conn # "committed" /\ curr_status = 500
              /\ ~Past("conn") => should_commit = 500
        /\ phase = "close" => (conn = "committed" <=> Told < 400)
        /\ phase = "close" /\ head = 0 => event = "error" /\ curr_status = 0
        /\ phase = "over" => (conn = "committed" <=> head < 400)

ExchangeInv ==
    /\ TypeOK /\ EnvironOK /\ CallsOK /\ OpenOK /\ StatusOK /\ ManagerOK /\ PageOK
    /\ AnswerOK /\ CommitOK

-----------------------------------------------------------------------------
(* Types.                                                                  *)

USE DEF flow, environ, iterator, server, database, history

\* TypeOK in three parts.
Flags ==
    /\ throw_errors \in BOOLEAN /\ expected \in BOOLEAN /\ catching \in BOOLEAN
    /\ started \in BOOLEAN /\ caught \in BOOLEAN /\ exhausted \in BOOLEAN
    /\ page \in BOOLEAN /\ aborted \in BOOLEAN /\ late \in BOOLEAN
    /\ broken \in BOOLEAN /\ big \in BOOLEAN

Where ==
    /\ stack \in Seq(Layers) /\ IsInjective(stack)
    /\ phase \in {"in", "app", "out", "next", "up", "close", "over"}
    /\ level \in 0..Outermost
    /\ event \in Raises \cup {"none", "list", "stop", "gone", "base"}
    /\ \A l \in errorsFrom : l \in 0..Len(stack)

Data ==
    /\ curr_status \in Status \cup {0, 302, 403, 500}
    /\ head \in Status \cup {0, 302, 403, 500}
    /\ head # 0 => curr_status # 0
    /\ conn \in {"none", "open", "committed", "rolledback"}
    /\ should_commit \in Status \cup {302, 403, 500}
    /\ transactions \in Seq({"open", "committed", "rolledback"})
    /\ Len(transactions) <= MaxTransactions
    /\ calls \in [{"conn", "manager", "upload", "close"} -> 0..2]
    /\ raised \in HTTP \cup {"none"}

LEMMA TypeParts == TypeOK <=> Flags /\ Where /\ Data
<1>1. TypeOK => Flags /\ Where /\ Data
  BY DEF TypeOK, Flags, Where, Data
<1>2. Flags /\ Where /\ Data => TypeOK
  BY DEF TypeOK, Flags, Where, Data
<1>3. QED
  BY <1>1, <1>2

LEMMA StackFacts ==
    ASSUME Where
    PROVE  /\ Len(stack) \in Nat /\ DOMAIN stack = 1..Len(stack)
           /\ \A i \in DOMAIN stack : stack[i] \in Layers
           /\ \A i, j \in DOMAIN stack : stack[i] = stack[j] => i = j
  BY DEF Where, IsInjective

\* What ends the application, by its phase.
LEMMA RaisingFacts ==
    ASSUME NEW e \in Raises, AppRuns, Raising(e)
    PROVE  /\ \/ phase = "app" /\ phase' = "out" /\ ~exhausted'
              \/ phase = "next" /\ ~caught /\ phase' = "up" /\ exhausted'
           /\ level' = 1 /\ event' = e
           /\ late' <=> (curr_status # 0 \/ (phase = "next" /\ e \in HTTP))
           /\ errorsFrom' = IF e = "error" THEN errorsFrom \cup {0} ELSE errorsFrom
           /\ e \in HTTP /\ ~late' => raised' = e
           /\ e \notin HTTP \/ late' => raised' = "none"
<1>1. CASE phase = "app"
  BY <1>1, Zenon DEF Raising
<1>2. CASE phase = "next"
  BY <1>2, Zenon DEF Raising, AppRuns
<1>3. QED
  BY <1>1, <1>2 DEF AppRuns

\* The checker of the ErrorMiddleware sees every start_response of the application.
LEMMA StartIsSeen ==
    ASSUME Where, EnvironOK, NEW status, NEW with_exc_info \in BOOLEAN,
           CallStartResponse(0, status, with_exc_info)
    PROVE  /\ started' <=> started \/ catching
           /\ Accepts(with_exc_info) => curr_status' = status
           /\ ~Accepts(with_exc_info) => curr_status' = curr_status
<1>1. catching => Above(0, "errors")
  <2>1. \A i \in DOMAIN stack : i > 0
    BY StackFacts
  <2>2. QED
    BY <2>1 DEF EnvironOK, Has, Range, Above
<1>2. started' <=> started \/ (catching /\ Above(0, "errors"))
  BY Zenon DEF CallStartResponse
<1>3. QED
  BY <1>1, <1>2 DEF CallStartResponse

\* The event stays within the levels of the stack.
LEMMA WhereKept ==
    ASSUME CallsOK, Where, [Next]_vars
    PROVE  Where'
<1> USE StackFacts DEF Where, CallsOK, Outermost, Raises, At
<1>1. CASE EnterConn
  BY <1>1 DEF EnterConn, Deeper
<1>2. CASE EnterManager
  BY <1>2 DEF EnterManager, Deeper
<1>3. CASE EnterUpload
  BY <1>3 DEF EnterUpload, Deeper
<1>4. CASE EnterErrors
  BY <1>4 DEF EnterErrors, Deeper
<1>5. CASE EnterHTTP
  BY <1>5 DEF EnterHTTP, Deeper
<1>6. CASE EnterApp
  BY <1>6 DEF EnterApp
<1>7. ASSUME NEW status \in Status, NEW with_exc_info \in BOOLEAN,
             StartResponse(status, with_exc_info)
      PROVE  Where'
  BY <1>7 DEF StartResponse, CallStartResponse, Raising
<1>8. ASSUME NEW e \in Raises, Raise(e)
      PROVE  Where'
  BY <1>8 DEF Raise, Raising
<1>9. CASE RaiseBase
  BY <1>9 DEF RaiseBase
<1>10. CASE Write
  BY <1>10 DEF Write
<1>11. CASE Register
  BY <1>11 DEF Register
<1>12. CASE Abort
  BY <1>12 DEF Abort
<1>13. CASE ReturnList
  BY <1>13 DEF ReturnList
<1>14. CASE ReturnIterator
  BY <1>14 DEF ReturnIterator
<1>15. CASE Stop
  BY <1>15 DEF Stop
<1>16. CASE Commit
  BY <1>16 DEF Commit, Called, Rises, FinalizerRaises
<1>17. CASE Rollback
  BY <1>17 DEF Rollback, Called, Rises
<1>18. CASE Finish
  BY <1>18 DEF Finish, Called, Rises, FinalizerRaises
<1>19. CASE FinishUpload
  BY <1>19 DEF FinishUpload, Rises, Called
<1>20. CASE PassErrors
  BY <1>20 DEF PassErrors, Rises
<1>21. CASE AnswerError
  BY <1>21 DEF AnswerError, Failing, CallStartResponse, Accepts, Above
<1>22. CASE CatchException
  BY <1>22 DEF CatchException, Called, Page, CallStartResponse
<1>23. CASE CatchStop
  BY <1>23 DEF CatchStop, Catches, Called, Rises
<1>24. CASE CatchStopCloseRaises
  BY <1>24 DEF CatchStopCloseRaises
<1>25. CASE PassHTTP
  BY <1>25 DEF PassHTTP, Rises
<1>26. CASE AnswerHTTP
  BY <1>26 DEF AnswerHTTP, CallStartResponse, Code, Accepts, Above
<1>27. CASE EndOfCall
  BY <1>27 DEF EndOfCall
<1>28. CASE Item
  BY <1>28 DEF Item
<1>29. CASE ClientLeaves
  BY <1>29 DEF ClientLeaves
<1>30. CASE EndOfPage
  BY <1>30 DEF EndOfPage
<1>31. CASE EndOfIteration
  BY <1>31 DEF EndOfIteration
<1>32. CASE Close
  BY <1>32 DEF Close
<1>33. CASE UNCHANGED vars
  BY <1>33 DEF vars
<1>34. QED
  BY <1>1, <1>2, <1>3, <1>4, <1>5, <1>6, <1>7, <1>8, <1>9, <1>10, <1>11, <1>12, <1>13,
       <1>14, <1>15, <1>16, <1>17, <1>18, <1>19, <1>20, <1>21, <1>22, <1>23, <1>24,
       <1>25, <1>26, <1>27, <1>28, <1>29, <1>30, <1>31, <1>32, <1>33 DEF Next, WayIn,
       Application, WayOut, Server, Finished

\* Flags stay flags.
LEMMA FlagsKept ==
    ASSUME Flags, [Next]_vars
    PROVE  Flags'
<1> USE DEF Flags
<1>1. CASE EnterConn
  BY <1>1, Zenon DEF EnterConn
<1>2. CASE EnterManager
  BY <1>2, Zenon DEF EnterManager
<1>3. CASE EnterUpload
  BY <1>3, Zenon DEF EnterUpload
<1>4. CASE EnterErrors
  BY <1>4, Zenon DEF EnterErrors
<1>5. CASE EnterHTTP
  BY <1>5, Zenon DEF EnterHTTP
<1>6. CASE EnterApp
  BY <1>6, Zenon DEF EnterApp
<1>7. ASSUME NEW status \in Status, NEW with_exc_info \in BOOLEAN,
             StartResponse(status, with_exc_info)
      PROVE  Flags'
  BY <1>7, Zenon DEF StartResponse, CallStartResponse, Raising
<1>8. ASSUME NEW e \in Raises, Raise(e)
      PROVE  Flags'
  BY <1>8, Zenon DEF Raise, Raising
<1>9. CASE RaiseBase
  BY <1>9, Zenon DEF RaiseBase
<1>10. CASE Write
  BY <1>10, Zenon DEF Write
<1>11. CASE Register
  BY <1>11, Zenon DEF Register
<1>12. CASE Abort
  BY <1>12, Zenon DEF Abort
<1>13. CASE ReturnList
  BY <1>13, Zenon DEF ReturnList
<1>14. CASE ReturnIterator
  BY <1>14, Zenon DEF ReturnIterator
<1>15. CASE Stop
  BY <1>15, Zenon DEF Stop
<1>16. CASE Commit
  BY <1>16, Zenon DEF Commit, Called, Rises, FinalizerRaises
<1>17. CASE Rollback
  BY <1>17, Zenon DEF Rollback
<1>18. CASE Finish
  BY <1>18, Zenon DEF Finish, Rising, At, Called, Aborts, Rises, FinalizerRaises,
       Failing, Raises, HTTP
<1>19. CASE FinishUpload
  BY <1>19, Zenon DEF FinishUpload
<1>20. CASE PassErrors
  BY <1>20, Zenon DEF PassErrors
<1>21. CASE AnswerError
  BY <1>21, Zenon DEF AnswerError, CallStartResponse
<1>22. CASE CatchException
  BY <1>22, Zenon DEF CatchException, Called, Page, CallStartResponse
<1>23. CASE CatchStop
  BY <1>23, Zenon DEF CatchStop
<1>24. CASE CatchStopCloseRaises
  BY <1>24, Zenon DEF CatchStopCloseRaises
<1>25. CASE PassHTTP
  BY <1>25, Zenon DEF PassHTTP
<1>26. CASE AnswerHTTP
  BY <1>26, Zenon DEF AnswerHTTP, CallStartResponse
<1>27. CASE EndOfCall
  BY <1>27, Zenon DEF EndOfCall
<1>28. CASE Item
  BY <1>28, Zenon DEF Item
<1>29. CASE ClientLeaves
  BY <1>29, Zenon DEF ClientLeaves
<1>30. CASE EndOfPage
  BY <1>30, Zenon DEF EndOfPage
<1>31. CASE EndOfIteration
  BY <1>31, Zenon DEF EndOfIteration
<1>32. CASE Close
  BY <1>32, Zenon DEF Close
<1>33. CASE UNCHANGED vars
  BY <1>33, Zenon DEF vars
<1>34. QED
  BY <1>1, <1>2, <1>3, <1>4, <1>5, <1>6, <1>7, <1>8, <1>9, <1>10, <1>11, <1>12, <1>13,
       <1>14, <1>15, <1>16, <1>17, <1>18, <1>19, <1>20, <1>21, <1>22, <1>23, <1>24,
       <1>25, <1>26, <1>27, <1>28, <1>29, <1>30, <1>31, <1>32, <1>33 DEF Next, WayIn,
       Application, WayOut, Server, Finished

\* The statuses, the connection, the transactions and the calls stay within their types.
LEMMA DataKept ==
    ASSUME Data, [Next]_vars
    PROVE  Data'
<1> USE DEF Data, Status
<1>1. CASE EnterConn
  BY <1>1 DEF EnterConn
<1>2. CASE EnterManager
  BY <1>2 DEF EnterManager
<1>3. CASE EnterUpload
  BY <1>3 DEF EnterUpload
<1>4. CASE EnterErrors
  BY <1>4 DEF EnterErrors
<1>5. CASE EnterHTTP
  BY <1>5 DEF EnterHTTP
<1>6. CASE EnterApp
  BY <1>6 DEF EnterApp
<1>7. ASSUME NEW status \in Status, NEW with_exc_info \in BOOLEAN,
             StartResponse(status, with_exc_info)
      PROVE  Data'
  BY <1>7 DEF StartResponse, CallStartResponse, Raising
<1>8. ASSUME NEW e \in Raises, Raise(e)
      PROVE  Data'
  BY <1>8 DEF Raise, Raising
<1>9. CASE RaiseBase
  BY <1>9 DEF RaiseBase
<1>10. CASE Write
  BY <1>10 DEF Write
<1>11. CASE Register
  <2>1. /\ transactions \in Seq({"open", "committed", "rolledback"})
        /\ Len(transactions) < MaxTransactions
        /\ transactions' = Append(transactions, "open")
    BY <1>11 DEF Register
  <2>2. transactions' \in Seq({"open", "committed", "rolledback"})
        /\ Len(transactions') <= MaxTransactions
    BY <2>1, ExchangeAssumption
  <2>3. QED
    BY <1>11, <2>2 DEF Register
<1>12. CASE Abort
  BY <1>12 DEF Abort
<1>13. CASE ReturnList
  BY <1>13 DEF ReturnList
<1>14. CASE ReturnIterator
  BY <1>14 DEF ReturnIterator
<1>15. CASE Stop
  BY <1>15 DEF Stop
<1>16. CASE Commit
  BY <1>16 DEF Commit, Called, Rises, FinalizerRaises
<1>17. CASE Rollback
  BY <1>17 DEF Rollback, Called, Rises
<1>18. CASE Finish
  BY <1>18 DEF Finish, Called, Rises, FinalizerRaises
<1>19. CASE FinishUpload
  BY <1>19 DEF FinishUpload, Rises, Called
<1>20. CASE PassErrors
  BY <1>20 DEF PassErrors
<1>21. CASE AnswerError
  BY <1>21 DEF AnswerError, At, Failing, CallStartResponse, Accepts, Raises, Above
<1>22. CASE CatchException
  BY <1>22 DEF CatchException, Catches, Failing, Called, Page, At, Raises,
       CallStartResponse, Above, Accepts
<1>23. CASE CatchStop
  BY <1>23 DEF CatchStop, Called, Rises
<1>24. CASE CatchStopCloseRaises
  BY <1>24 DEF CatchStopCloseRaises, Called
<1>25. CASE PassHTTP
  BY <1>25 DEF PassHTTP
<1>26. CASE AnswerHTTP
  BY <1>26 DEF AnswerHTTP, At, CallStartResponse, Code, Accepts, Above
<1>27. CASE EndOfCall
  BY <1>27 DEF EndOfCall, ServerError, SendHeaders
<1>28. CASE Item
  BY <1>28 DEF Item, SendHeaders
<1>29. CASE ClientLeaves
  BY <1>29 DEF ClientLeaves
<1>30. CASE EndOfPage
  BY <1>30 DEF EndOfPage
<1>31. CASE EndOfIteration
  BY <1>31 DEF EndOfIteration, SendHeaders
<1>32. CASE Close
  BY <1>32 DEF Close, Called, ServerError
<1>33. CASE UNCHANGED vars
  BY <1>33 DEF vars
<1>34. QED
  BY <1>1, <1>2, <1>3, <1>4, <1>5, <1>6, <1>7, <1>8, <1>9, <1>10, <1>11, <1>12, <1>13,
       <1>14, <1>15, <1>16, <1>17, <1>18, <1>19, <1>20, <1>21, <1>22, <1>23, <1>24,
       <1>25, <1>26, <1>27, <1>28, <1>29, <1>30, <1>31, <1>32, <1>33 DEF Next, WayIn,
       Application, WayOut, Server, Finished

-----------------------------------------------------------------------------
(* Every step keeps the parts of the invariant.                            *)

\* After the way in, nothing changes what it has put into environ.
LEMMA EnvironKept ==
    ASSUME Where, EnvironOK, [Next]_vars
    PROVE  EnvironOK'
<1> USE StackFacts DEF EnvironOK, Where, Has, Range
<1>1. CASE EnterConn
  BY <1>1 DEF EnterConn, At, Deeper
<1>2. CASE EnterManager
  BY <1>2 DEF EnterManager, At, Deeper
<1>3. CASE EnterUpload
  BY <1>3 DEF EnterUpload, At, Deeper
<1>4. CASE EnterErrors
  <2>1. catching' <=> ~throw_errors
    BY <1>4, Zenon DEF EnterErrors
  <2>2. level \in DOMAIN stack /\ stack[level] = "errors" /\ throw_errors'
    BY <1>4, Zenon DEF EnterErrors, At
  <2>3. stack' = stack /\ level' = level - 1 /\ phase = "in" /\ phase' = "in"
        /\ expected' = expected /\ event' = event
    BY <1>4 DEF EnterErrors, Deeper
  <2>4. ASSUME NEW e \in DOMAIN stack, NEW m \in DOMAIN stack, stack[e] = "errors",
               stack[m] = "manager", e < m
        PROVE  ~catching'
    <3>1. e = level /\ m > level
      BY <2>2, <2>4
    <3>2. throw_errors
      BY <2>3, <2>4, <3>1
    <3>3. QED
      BY <2>1, <3>2
  <2>5. QED
    BY <2>2, <2>3, <2>4
<1>5. CASE EnterHTTP
  BY <1>5 DEF EnterHTTP, At, Deeper
<1>6. CASE EnterApp
  BY <1>6 DEF EnterApp
<1>7. ASSUME NEW status \in Status, NEW with_exc_info \in BOOLEAN,
             StartResponse(status, with_exc_info)
      PROVE  EnvironOK'
  BY <1>7 DEF StartResponse, AppRuns, CallStartResponse, Accepts, Raising, Above
<1>8. ASSUME NEW e \in Raises, Raise(e)
      PROVE  EnvironOK'
  BY <1>8 DEF Raise, AppRuns, Raising
<1>9. CASE RaiseBase
  BY <1>9 DEF RaiseBase
<1>10. CASE Write
  BY <1>10 DEF Write
<1>11. CASE Register
  BY <1>11 DEF Register
<1>12. CASE Abort
  BY <1>12 DEF Abort
<1>13. CASE ReturnList
  BY <1>13 DEF ReturnList
<1>14. CASE ReturnIterator
  BY <1>14 DEF ReturnIterator
<1>15. CASE Stop
  BY <1>15 DEF Stop
<1>16. CASE Commit
  BY <1>16 DEF Commit, Rising, At, CommitStatus, Called, Rises, FinalizerRaises, Code
<1>17. CASE Rollback
  BY <1>17 DEF Rollback, Called, Rises
<1>18. CASE Finish
  BY <1>18 DEF Finish, Rising, At, Called, Aborts, Rises, FinalizerRaises, Failing
<1>19. CASE FinishUpload
  BY <1>19 DEF FinishUpload, Rises, Called
<1>20. CASE PassErrors
  BY <1>20 DEF PassErrors, Rises
<1>21. CASE AnswerError
  BY <1>21 DEF AnswerError
<1>22. CASE CatchException
  BY <1>22 DEF CatchException, Catches, Failing, Called, Page, At, CallStartResponse,
       Above, Accepts
<1>23. CASE CatchStop
  BY <1>23 DEF CatchStop, Called, Rises
<1>24. CASE CatchStopCloseRaises
  BY <1>24 DEF CatchStopCloseRaises
<1>25. CASE PassHTTP
  BY <1>25 DEF PassHTTP, Rises
<1>26. CASE AnswerHTTP
  BY <1>26 DEF AnswerHTTP
<1>27. CASE EndOfCall
  BY <1>27 DEF EndOfCall
<1>28. CASE Item
  BY <1>28 DEF Item
<1>29. CASE ClientLeaves
  BY <1>29 DEF ClientLeaves
<1>30. CASE EndOfPage
  BY <1>30 DEF EndOfPage
<1>31. CASE EndOfIteration
  BY <1>31 DEF EndOfIteration
<1>32. CASE Close
  BY <1>32 DEF Close
<1>33. CASE UNCHANGED vars
  BY <1>33 DEF vars
<1>34. QED
  BY <1>1, <1>2, <1>3, <1>4, <1>5, <1>6, <1>7, <1>8, <1>9, <1>10, <1>11, <1>12, <1>13,
       <1>14, <1>15, <1>16, <1>17, <1>18, <1>19, <1>20, <1>21, <1>22, <1>23, <1>24,
       <1>25, <1>26, <1>27, <1>28, <1>29, <1>30, <1>31, <1>32, <1>33 DEF Next, WayIn,
       Application, WayOut, Server, Finished

\* No finalizer is called on the way in, nor below the level of the event.
LEMMA CallsKept ==
    ASSUME Where, Data, CallsOK, [Next]_vars
    PROVE  CallsOK'
<1> USE StackFacts DEF CallsOK, Where, Data, Running, At, Raises, Past, Finalizers, HTTP
<1>1. CASE EnterConn
  BY <1>1 DEF EnterConn, Deeper
<1>2. CASE EnterManager
  BY <1>2 DEF EnterManager, Deeper
<1>3. CASE EnterUpload
  BY <1>3 DEF EnterUpload, Deeper
<1>4. CASE EnterErrors
  BY <1>4 DEF EnterErrors, Deeper
<1>5. CASE EnterHTTP
  BY <1>5 DEF EnterHTTP, Deeper
<1>6. CASE EnterApp
  BY <1>6 DEF EnterApp
<1>7. ASSUME NEW status \in Status, NEW with_exc_info \in BOOLEAN,
             StartResponse(status, with_exc_info)
      PROVE  CallsOK'
  <2>1. CASE Accepts(with_exc_info)
    BY <1>7, <2>1 DEF StartResponse, AppRuns, CallStartResponse, flow
  <2>2. CASE ~Accepts(with_exc_info)
    <3>1. AppRuns /\ Raising("error")
          /\ UNCHANGED <<stack, caught, catching, page, calls>>
      BY <1>7, <2>2 DEF StartResponse, environ
    <3>2. QED
      BY <3>1, RaisingFacts
  <2>3. QED
    BY <2>1, <2>2
<1>8. ASSUME NEW e \in Raises, Raise(e)
      PROVE  CallsOK'
  <2>1. AppRuns /\ Raising(e) /\ UNCHANGED <<stack, caught, catching, page, calls>>
    BY <1>8 DEF Raise, environ, server
  <2>2. QED
    BY <2>1, RaisingFacts
<1>9. CASE RaiseBase
  BY <1>9 DEF RaiseBase, AppRuns
<1>10. CASE Write
  BY <1>10 DEF Write
<1>11. CASE Register
  BY <1>11 DEF Register
<1>12. CASE Abort
  BY <1>12 DEF Abort
<1>13. CASE ReturnList
  BY <1>13 DEF ReturnList
<1>14. CASE ReturnIterator
  BY <1>14 DEF ReturnIterator
<1>15. CASE Stop
  BY <1>15 DEF Stop
<1>16. CASE Commit
  BY <1>16 DEF Commit, Rising, CommitStatus, Called, Rises, FinalizerRaises, Code
<1>17. CASE Rollback
  BY <1>17 DEF Rollback, Rising, CommitStatus, Called, Rises, Code
<1>18. CASE Finish
  BY <1>18 DEF Finish, Rising, Called, Aborts, Rises, FinalizerRaises, Failing
<1>19. CASE FinishUpload
  BY <1>19 DEF FinishUpload, Rising, Rises, Called
<1>20. CASE PassErrors
  BY <1>20 DEF PassErrors, Rises
<1>21. CASE AnswerError
  BY <1>21 DEF AnswerError, Failing, CallStartResponse, Accepts, Above
<1>22. CASE CatchException
  BY <1>22 DEF CatchException, Catches, Failing, Called, Page, CallStartResponse,
       Above, Accepts
<1>23. CASE CatchStop
  BY <1>23 DEF CatchStop, Catches, Called, Rises
<1>24. CASE CatchStopCloseRaises
  BY <1>24 DEF CatchStopCloseRaises, Catches, Called
<1>25. CASE PassHTTP
  BY <1>25 DEF PassHTTP, Rises
<1>26. CASE AnswerHTTP
  BY <1>26 DEF AnswerHTTP, CallStartResponse, Code, Accepts, Above
<1>27. CASE EndOfCall
  BY <1>27 DEF EndOfCall
<1>28. CASE Item
  BY <1>28 DEF Item
<1>29. CASE ClientLeaves
  BY <1>29 DEF ClientLeaves
<1>30. CASE EndOfPage
  BY <1>30 DEF EndOfPage
<1>31. CASE EndOfIteration
  BY <1>31 DEF EndOfIteration
<1>32. CASE Close
  BY <1>32 DEF Close, Called, ServerError
<1>33. CASE UNCHANGED vars
  BY <1>33 DEF vars
<1>34. QED
  BY <1>1, <1>2, <1>3, <1>4, <1>5, <1>6, <1>7, <1>8, <1>9, <1>10, <1>11, <1>12, <1>13,
       <1>14, <1>15, <1>16, <1>17, <1>18, <1>19, <1>20, <1>21, <1>22, <1>23, <1>24,
       <1>25, <1>26, <1>27, <1>28, <1>29, <1>30, <1>31, <1>32, <1>33 DEF Next, WayIn,
       Application, WayOut, Server, Finished

\* Every level the event goes by ends what it has opened.
LEMMA OpenKept ==
    ASSUME Where, Data, CallsOK, OpenOK, [Next]_vars
    PROVE  OpenOK'
<1> USE StackFacts DEF OpenOK, Where, Data, CallsOK, Has, Range, Outermost, Climbing,
     Past, At, Finalizers
<1>1. CASE EnterConn
  BY <1>1 DEF EnterConn, Deeper
<1>2. CASE EnterManager
  BY <1>2 DEF EnterManager, Deeper
<1>3. CASE EnterUpload
  BY <1>3 DEF EnterUpload, Deeper
<1>4. CASE EnterErrors
  BY <1>4 DEF EnterErrors, Deeper
<1>5. CASE EnterHTTP
  BY <1>5 DEF EnterHTTP, Deeper
<1>6. CASE EnterApp
  BY <1>6 DEF EnterApp
<1>7. ASSUME NEW status \in Status, NEW with_exc_info \in BOOLEAN,
             StartResponse(status, with_exc_info)
      PROVE  OpenOK'
  BY <1>7 DEF StartResponse, CallStartResponse, Raising
<1>8. ASSUME NEW e \in Raises, Raise(e)
      PROVE  OpenOK'
  BY <1>8 DEF Raise, Raising
<1>9. CASE RaiseBase
  BY <1>9 DEF RaiseBase
<1>10. CASE Write
  BY <1>10 DEF Write
<1>11. CASE Register
  BY <1>11 DEF Register, AppRuns
<1>12. CASE Abort
  BY <1>12 DEF Abort
<1>13. CASE ReturnList
  BY <1>13 DEF ReturnList
<1>14. CASE ReturnIterator
  BY <1>14 DEF ReturnIterator
<1>15. CASE Stop
  BY <1>15 DEF Stop
<1>16. CASE Commit
  BY <1>16 DEF Commit, Called, Rises, FinalizerRaises
<1>17. CASE Rollback
  BY <1>17 DEF Rollback, Called, Rises
<1>18. CASE Finish
  BY <1>18 DEF Finish, Called, Rises, FinalizerRaises
<1>19. CASE FinishUpload
  BY <1>19 DEF FinishUpload, Rising, Rises, Called
<1>20. CASE PassErrors
  BY <1>20 DEF PassErrors, Rises
<1>21. CASE AnswerError
  BY <1>21 DEF AnswerError
<1>22. CASE CatchException
  BY <1>22 DEF CatchException, Catches, Failing, Called, Page, CallStartResponse,
       Above, Accepts
<1>23. CASE CatchStop
  BY <1>23 DEF CatchStop, Catches, Called, Rises
<1>24. CASE CatchStopCloseRaises
  BY <1>24 DEF CatchStopCloseRaises
<1>25. CASE PassHTTP
  BY <1>25 DEF PassHTTP, Rises
<1>26. CASE AnswerHTTP
  BY <1>26 DEF AnswerHTTP
<1>27. CASE EndOfCall
  BY <1>27 DEF EndOfCall
<1>28. CASE Item
  BY <1>28 DEF Item
<1>29. CASE ClientLeaves
  BY <1>29 DEF ClientLeaves
<1>30. CASE EndOfPage
  BY <1>30 DEF EndOfPage
<1>31. CASE EndOfIteration
  BY <1>31 DEF EndOfIteration
<1>32. CASE Close
  BY <1>32 DEF Close, Called, ServerError
<1>33. CASE UNCHANGED vars
  BY <1>33 DEF vars
<1>34. QED
  BY <1>1, <1>2, <1>3, <1>4, <1>5, <1>6, <1>7, <1>8, <1>9, <1>10, <1>11, <1>12, <1>13,
       <1>14, <1>15, <1>16, <1>17, <1>18, <1>19, <1>20, <1>21, <1>22, <1>23, <1>24,
       <1>25, <1>26, <1>27, <1>28, <1>29, <1>30, <1>31, <1>32, <1>33 DEF Next, WayIn,
       Application, WayOut, Server, Finished

\* The server and the ErrorMiddleware agree on whether there is a status.
LEMMA StatusKept ==
    ASSUME Where, Data, CallsOK, EnvironOK, StatusOK, [Next]_vars
    PROVE  StatusOK'
<1> USE StackFacts DEF StatusOK, Where, Data, CallsOK, EnvironOK, Raises, At
<1>1. CASE EnterConn
  BY <1>1 DEF EnterConn
<1>2. CASE EnterManager
  BY <1>2 DEF EnterManager
<1>3. CASE EnterUpload
  BY <1>3 DEF EnterUpload
<1>4. CASE EnterErrors
  BY <1>4 DEF EnterErrors
<1>5. CASE EnterHTTP
  BY <1>5 DEF EnterHTTP
<1>6. CASE EnterApp
  BY <1>6 DEF EnterApp
<1>7. ASSUME NEW status \in Status, NEW with_exc_info \in BOOLEAN,
             StartResponse(status, with_exc_info)
      PROVE  StatusOK'
  <2>1. /\ AppRuns /\ CallStartResponse(0, status, with_exc_info)
        /\ UNCHANGED <<head, catching>> /\ status # 0
    BY <1>7 DEF StartResponse, environ, Status
  <2>2. Accepts(with_exc_info) \/ curr_status # 0
    BY DEF Accepts
  <2>3. curr_status' # 0 /\ (started' <=> started \/ catching)
        /\ (head # 0 => curr_status' = curr_status)
    BY <2>1, <2>2, StartIsSeen DEF Accepts
  <2>4. phase \in {"app", "next"} /\ phase' \in {"app", "next", "out", "up"}
    BY <1>7, <2>1, RaisingFacts DEF StartResponse, AppRuns, flow
  <2>5. catching /\ phase' \in {"app", "out"} => phase = "app"
    BY <1>7, <2>1, RaisingFacts DEF StartResponse, AppRuns, flow
  <2>6. QED
    BY <2>1, <2>3, <2>4, <2>5
<1>8. ASSUME NEW e \in Raises, Raise(e)
      PROVE  StatusOK'
  BY <1>8 DEF Raise, AppRuns, Raising
<1>9. CASE RaiseBase
  BY <1>9 DEF RaiseBase
<1>10. CASE Write
  BY <1>10 DEF Write
<1>11. CASE Register
  BY <1>11 DEF Register
<1>12. CASE Abort
  BY <1>12 DEF Abort
<1>13. CASE ReturnList
  BY <1>13 DEF ReturnList
<1>14. CASE ReturnIterator
  BY <1>14 DEF ReturnIterator
<1>15. CASE Stop
  BY <1>15 DEF Stop
<1>16. CASE Commit
  BY <1>16 DEF Commit, Called, Rises, FinalizerRaises
<1>17. CASE Rollback
  BY <1>17 DEF Rollback, Called, Rises
<1>18. CASE Finish
  BY <1>18 DEF Finish, Called, Rises, FinalizerRaises
<1>19. CASE FinishUpload
  BY <1>19 DEF FinishUpload, Rises, Called
<1>20. CASE PassErrors
  BY <1>20 DEF PassErrors, Rises
<1>21. CASE AnswerError
  BY <1>21 DEF AnswerError
<1>22. CASE CatchException
  <2>1. /\ phase = "up" /\ catching /\ At(level, "errors")
        /\ phase' = "next" /\ catching' = catching
    BY <1>22 DEF CatchException, Catches, Page, environ
  <2>2. CASE started
    BY <1>22, <2>1, <2>2 DEF CatchException, Page
  <2>3. CASE ~started
    <3>1. head = 0 /\ head' = 500 /\ curr_status' = 500
      BY <1>22, <2>1, <2>3 DEF CatchException, Page, CallStartResponse, Accepts
    <3>2. Above(level - 1, "errors")
      BY <2>1 DEF Above
    <3>3. started'
      BY <1>22, <2>1, <2>3, <3>2, Zenon DEF CatchException, Page, CallStartResponse
    <3>4. QED
      BY <2>1, <3>1, <3>3
  <2>4. QED
    BY <2>2, <2>3
<1>23. CASE CatchStop
  BY <1>23 DEF CatchStop, Called, Rises
<1>24. CASE CatchStopCloseRaises
  BY <1>24 DEF CatchStopCloseRaises
<1>25. CASE PassHTTP
  BY <1>25 DEF PassHTTP, Rises
<1>26. CASE AnswerHTTP
  BY <1>26 DEF AnswerHTTP, CallStartResponse, Code, Accepts, Above
<1>27. CASE EndOfCall
  BY <1>27 DEF EndOfCall, ServerError, SendHeaders
<1>28. CASE Item
  BY <1>28 DEF Item, SendHeaders
<1>29. CASE ClientLeaves
  BY <1>29 DEF ClientLeaves
<1>30. CASE EndOfPage
  BY <1>30 DEF EndOfPage
<1>31. CASE EndOfIteration
  BY <1>31 DEF EndOfIteration, SendHeaders
<1>32. CASE Close
  BY <1>32 DEF Close, Called, ServerError
<1>33. CASE UNCHANGED vars
  BY <1>33 DEF vars
<1>34. QED
  BY <1>1, <1>2, <1>3, <1>4, <1>5, <1>6, <1>7, <1>8, <1>9, <1>10, <1>11, <1>12, <1>13,
       <1>14, <1>15, <1>16, <1>17, <1>18, <1>19, <1>20, <1>21, <1>22, <1>23, <1>24,
       <1>25, <1>26, <1>27, <1>28, <1>29, <1>30, <1>31, <1>32, <1>33 DEF Next, WayIn,
       Application, WayOut, Server, Finished

\* Nothing below the manager, and no ErrorMiddleware there, hides an error from it.
LEMMA ManagerKept ==
    ASSUME Where, CallsOK, EnvironOK, Data, ManagerOK, [Next]_vars
    PROVE  ManagerOK'
<1> USE StackFacts DEF ManagerOK, Where, CallsOK, EnvironOK, Running, Climbing, Past,
     ErrorBelow, At, Finalizers, HTTP
<1>1. CASE EnterConn
  BY <1>1 DEF EnterConn
<1>2. CASE EnterManager
  BY <1>2 DEF EnterManager
<1>3. CASE EnterUpload
  BY <1>3 DEF EnterUpload
<1>4. CASE EnterErrors
  BY <1>4 DEF EnterErrors
<1>5. CASE EnterHTTP
  BY <1>5 DEF EnterHTTP
<1>6. CASE EnterApp
  BY <1>6 DEF EnterApp
<1>7. ASSUME NEW status \in Status, NEW with_exc_info \in BOOLEAN,
             StartResponse(status, with_exc_info)
      PROVE  ManagerOK'
  BY <1>7 DEF StartResponse, AppRuns, CallStartResponse, Accepts, Raising, Above
<1>8. ASSUME NEW e \in Raises, Raise(e)
      PROVE  ManagerOK'
  BY <1>8 DEF Raise, AppRuns, Raising
<1>9. CASE RaiseBase
  BY <1>9 DEF RaiseBase
<1>10. CASE Write
  BY <1>10 DEF Write
<1>11. CASE Register
  <2>1. Running /\ Range(transactions) \subseteq {"open"} /\ errorsFrom' = {}
        /\ errorsFrom = {}
    BY <1>11 DEF Register, AppRuns, history
  <2>2. transactions \in Seq({"open", "committed", "rolledback"})
        /\ transactions' = Append(transactions, "open")
    BY <1>11 DEF Register, Data
  <2>3. Range(transactions') \subseteq {"open"}
    <3>1. \A i \in DOMAIN transactions' : transactions'[i] = "open"
      BY <2>1, <2>2 DEF Range
    <3>2. QED
      BY <3>1, Zenon DEF Range
  <2>4. QED
    BY <2>1, <2>3
<1>12. CASE Abort
  BY <1>12 DEF Abort
<1>13. CASE ReturnList
  BY <1>13 DEF ReturnList
<1>14. CASE ReturnIterator
  BY <1>14 DEF ReturnIterator
<1>15. CASE Stop
  BY <1>15 DEF Stop
<1>16. CASE Commit
  BY <1>16 DEF Commit, Rising, CommitStatus, Called, Rises, FinalizerRaises, Code
<1>17. CASE Rollback
  BY <1>17 DEF Rollback, Called, Rises
<1>18. CASE Finish
  <2>1. /\ phase' = phase /\ level' = level + 1 /\ stack' = stack
        /\ level \in DOMAIN stack /\ stack[level] = "manager" /\ phase \in {"out", "up"}
        /\ errorsFrom' = errorsFrom \/ errorsFrom' = errorsFrom \cup {level}
    BY <1>18 DEF Finish, Rising, Rises, FinalizerRaises
  <2>2. ASSUME NEW m \in DOMAIN stack, stack[m] = "manager", ErrorBelow(m)'
        PROVE  "committed" \notin Range(transactions') /\ m < level'
    <3>1. m = level
      BY <2>1, <2>2
    <3>2. ErrorBelow(m) /\ event = "error"
      BY <2>1, <2>2, <3>1
    <3>3. ~Past("manager")
      BY <2>1
    <3>4. Range(transactions) \subseteq {"open"}
      BY <2>1, <3>3
    <3>5. aborted'
      BY <1>18, <3>2, Zenon DEF Finish, Aborts, Failing, Raises
    <3>6. PICK n \in 0..Len(transactions) :
               transactions' = [i \in DOMAIN transactions |->
                                  IF i > n THEN transactions[i] ELSE "rolledback"]
      BY <1>18, <3>5 DEF Finish
    <3>7. \A i \in DOMAIN transactions' : transactions'[i] \in {"open", "rolledback"}
      <4>1. \A i \in DOMAIN transactions : transactions[i] \in Range(transactions)
        BY Zenon DEF Range
      <4>2. QED
        BY <3>4, <3>6, <4>1
    <3>8. QED
      BY <2>1, <3>1, <3>7 DEF Range
  <2>3. Past("manager")'
    BY <2>1
  <2>4. QED
    BY <2>1, <2>2, <2>3
<1>19. CASE FinishUpload
  BY <1>19 DEF FinishUpload, Rises, Called
<1>20. CASE PassErrors
  BY <1>20 DEF PassErrors, Rises
<1>21. CASE AnswerError
  BY <1>21 DEF AnswerError, Failing, CallStartResponse, Accepts, Above
<1>22. CASE CatchException
  BY <1>22 DEF CatchException, Catches, Failing, Called, Page, CallStartResponse,
       Above, Accepts
<1>23. CASE CatchStop
  BY <1>23 DEF CatchStop, Called, Rises
<1>24. CASE CatchStopCloseRaises
  BY <1>24 DEF CatchStopCloseRaises
<1>25. CASE PassHTTP
  BY <1>25 DEF PassHTTP, Rises
<1>26. CASE AnswerHTTP
  BY <1>26 DEF AnswerHTTP, CallStartResponse, Code, Accepts, Above
<1>27. CASE EndOfCall
  BY <1>27 DEF EndOfCall
<1>28. CASE Item
  BY <1>28 DEF Item
<1>29. CASE ClientLeaves
  BY <1>29 DEF ClientLeaves
<1>30. CASE EndOfPage
  BY <1>30 DEF EndOfPage
<1>31. CASE EndOfIteration
  BY <1>31 DEF EndOfIteration
<1>32. CASE Close
  BY <1>32 DEF Close
<1>33. CASE UNCHANGED vars
  BY <1>33 DEF vars
<1>34. QED
  BY <1>1, <1>2, <1>3, <1>4, <1>5, <1>6, <1>7, <1>8, <1>9, <1>10, <1>11, <1>12, <1>13,
       <1>14, <1>15, <1>16, <1>17, <1>18, <1>19, <1>20, <1>21, <1>22, <1>23, <1>24,
       <1>25, <1>26, <1>27, <1>28, <1>29, <1>30, <1>31, <1>32, <1>33 DEF Next, WayIn,
       Application, WayOut, Server, Finished

\* An error the ErrorMiddleware catches finds no headers sent.
LEMMA PageKept ==
    ASSUME Where, CallsOK, EnvironOK, StatusOK, PageOK, [Next]_vars
    PROVE  PageOK'
<1> USE StackFacts DEF PageOK, Where, CallsOK, EnvironOK, StatusOK, ErrorBelow,
     OnItsWay, Outermost, Running, At, HTTP
<1>1. CASE EnterConn
  BY <1>1 DEF EnterConn
<1>2. CASE EnterManager
  BY <1>2 DEF EnterManager
<1>3. CASE EnterUpload
  BY <1>3 DEF EnterUpload
<1>4. CASE EnterErrors
  BY <1>4 DEF EnterErrors
<1>5. CASE EnterHTTP
  BY <1>5 DEF EnterHTTP
<1>6. CASE EnterApp
  BY <1>6 DEF EnterApp
<1>7. ASSUME NEW status \in Status, NEW with_exc_info \in BOOLEAN,
             StartResponse(status, with_exc_info)
      PROVE  PageOK'
  BY <1>7 DEF StartResponse, CallStartResponse, Raising
<1>8. ASSUME NEW e \in Raises, Raise(e)
      PROVE  PageOK'
  BY <1>8 DEF Raise, AppRuns, Raising
<1>9. CASE RaiseBase
  BY <1>9 DEF RaiseBase, AppRuns
<1>10. CASE Write
  BY <1>10 DEF Write
<1>11. CASE Register
  BY <1>11 DEF Register
<1>12. CASE Abort
  BY <1>12 DEF Abort
<1>13. CASE ReturnList
  BY <1>13 DEF ReturnList
<1>14. CASE ReturnIterator
  BY <1>14 DEF ReturnIterator
<1>15. CASE Stop
  BY <1>15 DEF Stop
<1>16. CASE Commit
  BY <1>16 DEF Commit, Rising, CommitStatus, Called, Rises, FinalizerRaises, Code
<1>17. CASE Rollback
  BY <1>17 DEF Rollback, Called, Rises
<1>18. CASE Finish
  BY <1>18 DEF Finish, Rising, Called, Aborts, Rises, FinalizerRaises, Failing
<1>19. CASE FinishUpload
  BY <1>19 DEF FinishUpload, Rises, Called
<1>20. CASE PassErrors
  BY <1>20 DEF PassErrors, Rises
<1>21. CASE AnswerError
  BY <1>21 DEF AnswerError, Failing, CallStartResponse, Accepts, Above
<1>22. CASE CatchException
  BY <1>22 DEF CatchException, Called, Page, CallStartResponse
<1>23. CASE CatchStop
  BY <1>23 DEF CatchStop, Called, Rises
<1>24. CASE CatchStopCloseRaises
  BY <1>24 DEF CatchStopCloseRaises
<1>25. CASE PassHTTP
  BY <1>25 DEF PassHTTP, Rises
<1>26. CASE AnswerHTTP
  BY <1>26 DEF AnswerHTTP, CallStartResponse, Code, Accepts, Above
<1>27. CASE EndOfCall
  BY <1>27 DEF EndOfCall
<1>28. CASE Item
  BY <1>28 DEF Item
<1>29. CASE ClientLeaves
  BY <1>29 DEF ClientLeaves
<1>30. CASE EndOfPage
  BY <1>30 DEF EndOfPage
<1>31. CASE EndOfIteration
  BY <1>31 DEF EndOfIteration
<1>32. CASE Close
  BY <1>32 DEF Close
<1>33. CASE UNCHANGED vars
  BY <1>33 DEF vars
<1>34. QED
  BY <1>1, <1>2, <1>3, <1>4, <1>5, <1>6, <1>7, <1>8, <1>9, <1>10, <1>11, <1>12, <1>13,
       <1>14, <1>15, <1>16, <1>17, <1>18, <1>19, <1>20, <1>21, <1>22, <1>23, <1>24,
       <1>25, <1>26, <1>27, <1>28, <1>29, <1>30, <1>31, <1>32, <1>33 DEF Next, WayIn,
       Application, WayOut, Server, Finished

\* What lies between the application and the HTTPExceptionHandler lets its exception by.
LEMMA AnswerKept ==
    ASSUME Where, Data, CallsOK, EnvironOK, StatusOK, AnswerOK, [Next]_vars
    PROVE  AnswerOK'
<1> USE StackFacts DEF AnswerOK, Where, Data, CallsOK, EnvironOK, StatusOK, Code,
     Outermost, Raises, Status, HTTP, At, Has, Range
<1>1. CASE EnterConn
  BY <1>1 DEF EnterConn
<1>2. CASE EnterManager
  BY <1>2 DEF EnterManager
<1>3. CASE EnterUpload
  BY <1>3 DEF EnterUpload
<1>4. CASE EnterErrors
  BY <1>4 DEF EnterErrors
<1>5. CASE EnterHTTP
  BY <1>5 DEF EnterHTTP
<1>6. CASE EnterApp
  BY <1>6 DEF EnterApp
<1>7. ASSUME NEW status \in Status, NEW with_exc_info \in BOOLEAN,
             StartResponse(status, with_exc_info)
      PROVE  AnswerOK'
  BY <1>7 DEF StartResponse, AppRuns, CallStartResponse, Accepts, Raising, Above
<1>8. ASSUME NEW e \in Raises, Raise(e)
      PROVE  AnswerOK'
  <2>1. AppRuns /\ Raising(e) /\ UNCHANGED <<stack, head, curr_status, broken,
       catching>>
    BY <1>8 DEF Raise, environ, server
  <2>2. QED
    BY <2>1, RaisingFacts
<1>9. CASE RaiseBase
  BY <1>9 DEF RaiseBase
<1>10. CASE Write
  BY <1>10 DEF Write
<1>11. CASE Register
  BY <1>11 DEF Register
<1>12. CASE Abort
  BY <1>12 DEF Abort
<1>13. CASE ReturnList
  BY <1>13 DEF ReturnList
<1>14. CASE ReturnIterator
  BY <1>14 DEF ReturnIterator
<1>15. CASE Stop
  BY <1>15 DEF Stop
<1>16. CASE Commit
  BY <1>16 DEF Commit, Called, Rises, FinalizerRaises
<1>17. CASE Rollback
  BY <1>17 DEF Rollback, Called, Rises
<1>18. CASE Finish
  BY <1>18 DEF Finish, Called, Rises, FinalizerRaises
<1>19. CASE FinishUpload
  BY <1>19 DEF FinishUpload, Rises, Called
<1>20. CASE PassErrors
  BY <1>20 DEF PassErrors, Rises
<1>21. CASE AnswerError
  BY <1>21 DEF AnswerError, Failing, CallStartResponse, Accepts, Above
<1>22. CASE CatchException
  BY <1>22 DEF CatchException, Catches, Failing, Called, Page, CallStartResponse,
       Above, Accepts
<1>23. CASE CatchStop
  BY <1>23 DEF CatchStop, Called, Rises
<1>24. CASE CatchStopCloseRaises
  BY <1>24 DEF CatchStopCloseRaises
<1>25. CASE PassHTTP
  BY <1>25 DEF PassHTTP, Rises
<1>26. CASE AnswerHTTP
  BY <1>26 DEF AnswerHTTP, CallStartResponse, Accepts, Above
<1>27. CASE EndOfCall
  BY <1>27 DEF EndOfCall, Failing, ServerError, SendHeaders
<1>28. CASE Item
  BY <1>28 DEF Item
<1>29. CASE ClientLeaves
  BY <1>29 DEF ClientLeaves
<1>30. CASE EndOfPage
  BY <1>30 DEF EndOfPage
<1>31. CASE EndOfIteration
  BY <1>31 DEF EndOfIteration
<1>32. CASE Close
  BY <1>32 DEF Close
<1>33. CASE UNCHANGED vars
  BY <1>33 DEF vars
<1>34. QED
  BY <1>1, <1>2, <1>3, <1>4, <1>5, <1>6, <1>7, <1>8, <1>9, <1>10, <1>11, <1>12, <1>13,
       <1>14, <1>15, <1>16, <1>17, <1>18, <1>19, <1>20, <1>21, <1>22, <1>23, <1>24,
       <1>25, <1>26, <1>27, <1>28, <1>29, <1>30, <1>31, <1>32, <1>33 DEF Next, WayIn,
       Application, WayOut, Server, Finished

\* Between the handler of the connection and the client nothing changes the status.
LEMMA CommitKept ==
    ASSUME Where, Data, CallsOK, EnvironOK, OpenOK, StatusOK, AnswerOK, CommitOK,
         [Next]_vars
    PROVE  CommitOK'
<1> USE StackFacts DEF CommitOK, Where, Data, CallsOK, EnvironOK, OpenOK, StatusOK,
     AnswerOK, Plain, Running, Told, Past, Raises, HTTP, Code, Layers, Outermost,
     Status, At, Finalizers, Has, Range, Climbing
<1>1. CASE EnterConn
  BY <1>1 DEF EnterConn, Deeper
<1>2. CASE EnterManager
  BY <1>2 DEF EnterManager, Deeper
<1>3. CASE EnterUpload
  BY <1>3 DEF EnterUpload, Deeper
<1>4. CASE EnterErrors
  BY <1>4 DEF EnterErrors, Deeper
<1>5. CASE EnterHTTP
  BY <1>5 DEF EnterHTTP, Deeper
<1>6. CASE EnterApp
  BY <1>6 DEF EnterApp
<1>7. ASSUME NEW status \in Status, NEW with_exc_info \in BOOLEAN,
             StartResponse(status, with_exc_info)
      PROVE  CommitOK'
  <2>1. SUFFICES ASSUME Plain' PROVE CommitOK'
    BY DEF CommitOK
  <2>2. AppRuns /\ CallStartResponse(0, status, with_exc_info)
        /\ UNCHANGED <<stack, head, catching, broken, caught, conn>> /\ status # 0
    BY <1>7 DEF StartResponse, environ, Status
  <2>3. Accepts(with_exc_info)
    <3>1. SUFFICES ASSUME ~Accepts(with_exc_info) PROVE FALSE
      OBVIOUS
    <3>2. Raising("error") /\ curr_status # 0
      BY <1>7, <3>1 DEF StartResponse, Accepts
    <3>3. QED
      BY <2>1, <2>2, <3>2, RaisingFacts
  <2>4. Above(0, "conn")
    <3>1. \A i \in DOMAIN stack : i > 0
      BY StackFacts
    <3>2. QED
      BY <2>1, <2>2, <3>1 DEF Above
  <2>5. curr_status' = status /\ should_commit' = status
        /\ UNCHANGED <<phase, level, raised, late>>
    BY <1>7, <2>2, <2>3, <2>4 DEF StartResponse, CallStartResponse, flow
  <2>6. phase \in {"app", "next"} /\ Running /\ Plain
    BY <2>1, <2>2, <2>5 DEF AppRuns
  <2>7. conn # "committed" /\ Told' = status
    BY <2>2, <2>5, <2>6
  <2>8. QED
    BY <2>2, <2>5, <2>6, <2>7
<1>8. ASSUME NEW e \in Raises, Raise(e)
      PROVE  CommitOK'
  <2>1. AppRuns /\ Raising(e) /\ UNCHANGED <<stack, head, curr_status, broken, caught,
       conn, should_commit>>
    BY <1>8 DEF Raise, server, database
  <2>2. Running /\ phase # "in"
    BY <2>1 DEF AppRuns
  <2>3. QED
    BY <2>1, <2>2, RaisingFacts
<1>9. CASE RaiseBase
  BY <1>9 DEF RaiseBase
<1>10. CASE Write
  BY <1>10 DEF Write
<1>11. CASE Register
  BY <1>11 DEF Register
<1>12. CASE Abort
  BY <1>12 DEF Abort
<1>13. CASE ReturnList
  BY <1>13 DEF ReturnList
<1>14. CASE ReturnIterator
  BY <1>14 DEF ReturnIterator
<1>15. CASE Stop
  BY <1>15 DEF Stop
<1>16. CASE Commit
  BY <1>16 DEF Commit, Rising, CommitStatus, Called, Rises, FinalizerRaises
<1>17. CASE Rollback
  BY <1>17 DEF Rollback, Rising, CommitStatus, Called, Rises
<1>18. CASE Finish
  BY <1>18 DEF Finish, Called, Rises, FinalizerRaises
<1>19. CASE FinishUpload
  BY <1>19 DEF FinishUpload, Rises, Called
<1>20. CASE PassErrors
  BY <1>20 DEF PassErrors, Rises
<1>21. CASE AnswerError
  BY <1>21 DEF AnswerError, Failing, CallStartResponse, Accepts, Above
<1>22. CASE CatchException
  BY <1>22 DEF CatchException, Catches, Failing, Called, Page, CallStartResponse,
       Above, Accepts
<1>23. CASE CatchStop
  BY <1>23 DEF CatchStop, Catches, Called, Rises
<1>24. CASE CatchStopCloseRaises
  BY <1>24 DEF CatchStopCloseRaises
<1>25. CASE PassHTTP
  BY <1>25 DEF PassHTTP, Rises
<1>26. CASE AnswerHTTP
  BY <1>26 DEF AnswerHTTP, CallStartResponse, Accepts, Above
<1>27. CASE EndOfCall
  BY <1>27 DEF EndOfCall, Failing, ServerError, SendHeaders
<1>28. CASE Item
  BY <1>28 DEF Item
<1>29. CASE ClientLeaves
  BY <1>29 DEF ClientLeaves
<1>30. CASE EndOfPage
  BY <1>30 DEF EndOfPage
<1>31. CASE EndOfIteration
  BY <1>31 DEF EndOfIteration, SendHeaders
<1>32. CASE Close
  BY <1>32 DEF Close, Called, ServerError
<1>33. CASE UNCHANGED vars
  BY <1>33 DEF vars
<1>34. QED
  BY <1>1, <1>2, <1>3, <1>4, <1>5, <1>6, <1>7, <1>8, <1>9, <1>10, <1>11, <1>12, <1>13,
       <1>14, <1>15, <1>16, <1>17, <1>18, <1>19, <1>20, <1>21, <1>22, <1>23, <1>24,
       <1>25, <1>26, <1>27, <1>28, <1>29, <1>30, <1>31, <1>32, <1>33 DEF Next, WayIn,
       Application, WayOut, Server, Finished

LEMMA InvKept ==
    ASSUME ExchangeInv, [Next]_vars
    PROVE  ExchangeInv'
<1>1. Flags /\ Where /\ Data
  BY TypeParts DEF ExchangeInv
<1>2. TypeOK'
  <2>1. Flags' /\ Where' /\ Data'
    BY <1>1, FlagsKept, WhereKept, DataKept DEF ExchangeInv
  <2>2. QED
    BY <2>1, TypeParts, PTL
<1>3. EnvironOK' /\ CallsOK' /\ OpenOK' /\ StatusOK'
  BY <1>1, EnvironKept, CallsKept, OpenKept, StatusKept DEF ExchangeInv
<1>4. ManagerOK' /\ PageOK' /\ AnswerOK' /\ CommitOK'
  BY <1>1, ManagerKept, PageKept, AnswerKept, CommitKept DEF ExchangeInv
<1>5. QED
  BY <1>2, <1>3, <1>4 DEF ExchangeInv

LEMMA InitInv ==
    ASSUME Init
    PROVE  ExchangeInv
<1>1. Flags
  BY Zenon DEF Init, Flags
<1>2. Where
  BY ExchangeAssumption DEF Init, Where, Outermost
<1>3. Data
  BY ExchangeAssumption DEF Init, Data
<1>4. TypeOK
  BY <1>1, <1>2, <1>3, TypeParts
<1>5. CallsOK /\ OpenOK /\ EnvironOK
  BY <1>2, StackFacts DEF Init, CallsOK, OpenOK, EnvironOK, Running, Climbing, Range
<1>6. StatusOK /\ ManagerOK /\ PageOK /\ AnswerOK
  BY DEF Init, StatusOK, ManagerOK, PageOK, AnswerOK, Running, Climbing, ErrorBelow, Range
<1>7. CommitOK
  BY DEF Init, CommitOK, Running, Told
<1>8. QED
  BY <1>4, <1>5, <1>6, <1>7 DEF ExchangeInv

\* An exchange stays in the states of the invariant.
THEOREM ExchangeStays == Spec => []ExchangeInv
  BY InitInv, InvKept, PTL DEF Spec

\* Whatever raises where, no finalizer runs twice, and nothing stays open when the
\* databases do not fail and the client stays.
THEOREM ExchangeEndsOnce == Spec => []EachEndedOnce
<1>1. ExchangeInv => EachEndedOnce
  BY DEF ExchangeInv, CallsOK, OpenOK, EachEndedOnce, Over
<1>2. QED
  BY <1>1, ExchangeStays, PTL

\* In every order of the middlewares the connection is committed exactly when the
\* client is told of a success, and no error inside the manager commits anything.
THEOREM ExchangeCommitsAsTold == Spec => []CommittedAsTold
<1>1. ExchangeInv => CommittedAsTold
  BY DEF ExchangeInv, CommitOK, Plain, ManagerOK, ErrorBelow, CommittedAsTold, Over, At
<1>2. QED
  BY <1>1, ExchangeStays, PTL

\* In every order of the middlewares an error inside an ErrorMiddleware that is not
\* disabled reaches the client as a page or as an error status.
THEOREM ExchangeNotSilent == Spec => []NoSilentFailure
<1>1. ExchangeInv => NoSilentFailure
  BY DEF ExchangeInv, PageOK, OnItsWay, ErrorBelow, NoSilentFailure, Over, At
<1>2. QED
  BY <1>1, ExchangeStays, PTL

\* In every order of the middlewares an HTTPException raised before start_response
\* is the answer.
THEOREM ExchangeAnswersExpected == Spec => []ExpectedAnswered
<1>1. ExchangeInv => ExpectedAnswered
  BY DEF ExchangeInv, AnswerOK, ExpectedAnswered, Over, Has, Range
<1>2. QED
  BY <1>1, ExchangeStays, PTL
=============================================================================
