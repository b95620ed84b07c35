------------------------------ MODULE Connection ------------------------------
(***************************************************************************)
(* One connection of the HTTP server: WSGIHandlerMixin, WSGIHandler,       *)
(* ContinueHook and LimitedLengthFile of paste/httpserver.py, run by a     *)
(* worker of the pool, with the client and the WSGI application as the     *)
(* environment.                                                            *)
(*                                                                         *)
(* The client's stream is a sequence of tokens: n > 0 is the head of its   *)
(* n-th request, 0 a piece of a body.  The server's stream has the heads   *)
(* of the answers, their chunks, and the interim "100 Continue".           *)
(*                                                                         *)
(* The application keeps the WSGI contract on lengths: when it declares a  *)
(* Content-Length it returns as many chunks, unless it raises.             *)
(***************************************************************************)
EXTENDS Integers, SequencesExt

CONSTANTS MaxSent,        \* bound: requests the client sends
          MaxBody,        \* bound: pieces of a request's body
          MaxChunk,       \* bound: chunks of an answer
          AppExceptions,  \* what the application may raise: "error", an
                          \* Exception; "oserror", one that is a socket.error,
                          \* which is OSError in Python 3; "base", a
                          \* BaseException, as the pool throws into hung workers
          None

\* The page of a server error is a chunk.
ASSUME ConnectionAssumption ==
    /\ MaxSent \in Nat /\ MaxBody \in Nat /\ MaxChunk \in Nat \ {0}
    /\ AppExceptions \subseteq {"error", "oserror", "base"}
    /\ None \notin Int

VARIABLES
    protocol11,       \* serve was given protocol_version "HTTP/1.1"
    asked,            \* the requests sent: length of the body, Expect, keep-alive
    bodyLeft,         \* what the client has yet to send of the last body
    clientClosed,
    incoming,         \* sent by the client, not yet read
    out,              \* sent by the server
    pc,               \* "request", "app", "iterating", "closing", "except",
                      \* "done", "closed"
    current,          \* number of the request that is served
    close_connection,
    curr_headers,     \* wsgi_curr_headers
    headers_sent,     \* wsgi_headers_sent
    written,          \* chunks written of the answer
    unread,           \* LimitedLengthFile: length - _consumed
    hooked,           \* the methods of the ContinueHook are in place
    wanted,           \* what a read waits for: a number of pieces, ToTheEnd or
                      \* ToTheLineEnd; None when there is no read
    unlimited,        \* an application has read without a limit
    exc               \* the exception on its way, or "none"

client    == <<asked, bodyLeft, clientClosed>>
response  == <<close_connection, curr_headers, headers_sent, written>>
inputVars == <<unread, hooked, wanted, unlimited>>
vars == <<protocol11, client, incoming, out, pc, current, response, inputVars, exc>>

\* The negative sizes of file.read and file.readline.
ToTheEnd     == -1
ToTheLineEnd == -2

Request == [body : 0..MaxBody, expect : BOOLEAN, keep : BOOLEAN]
Past    == [body |-> 0, expect |-> FALSE, keep |-> TRUE]
Headers == [length : 0..MaxChunk \cup {None}, close : BOOLEAN]

ASSUME HeadersAssumption == None \notin Headers

Continue(n) == [kind |-> "continue", of |-> n, length |-> None]
Answer(n, l)  == [kind |-> "head", of |-> n, length |-> l]
Chunk(n)    == [kind |-> "chunk", of |-> n, length |-> None]

\* The state of a connection, its stream and its request stays within its type.
TypeOK ==
    /\ protocol11 \in BOOLEAN
    /\ asked \in Seq(Request) /\ Len(asked) <= MaxSent
    /\ bodyLeft \in 0..MaxBody /\ clientClosed \in BOOLEAN
    /\ incoming \in Seq(0..MaxSent)
    /\ out \in Seq([kind : {"continue", "head", "chunk"}, of : 0..MaxSent,
                    length : 0..MaxChunk \cup {None}])
    /\ pc \in {"request", "app", "iterating", "closing", "except", "done", "closed"}
    /\ current \in 0..Len(asked) /\ (current = 0 => pc \in {"request", "closed"})
    /\ close_connection \in BOOLEAN
    /\ curr_headers \in Headers \cup {None}
    /\ headers_sent \in BOOLEAN /\ (headers_sent => curr_headers # None)
    /\ written \in 0..MaxChunk /\ (written > 0 => headers_sent)
    /\ unread \in Int /\ unread <= MaxBody /\ hooked \in BOOLEAN
    /\ wanted \in 0..MaxBody \cup {ToTheEnd, ToTheLineEnd, None}
    /\ unlimited \in BOOLEAN /\ (unread < 0 => unlimited)
    /\ exc \in {"none", "error", "oserror", "base"}

Init ==
    /\ protocol11 \in BOOLEAN
    /\ asked = <<>> /\ bodyLeft = 0 /\ clientClosed = FALSE
    /\ incoming = <<>> /\ out = <<>>
    /\ pc = "request" /\ current = 0
    /\ close_connection = TRUE
    /\ curr_headers = None /\ headers_sent = FALSE /\ written = 0
    /\ unread = 0 /\ hooked = FALSE /\ wanted = None /\ unlimited = FALSE
    /\ exc = "none"

-----------------------------------------------------------------------------
(* The client.                                                             *)

Seen(token) == \E i \in DOMAIN out : out[i] = token
Answered(n) == \E i \in DOMAIN out : out[i].kind = "head" /\ out[i].of = n

\* A request that the server has read matters no more when the client sends the next
\* one or goes.
Forget(s, n) == [i \in DOMAIN s |-> IF i = n THEN Past ELSE s[i]]

\* The next request, without waiting for the answers to the others, unless the
\* last one asked to close the connection.
SendHead(request) ==
    /\ ~clientClosed /\ bodyLeft = 0 /\ Len(asked) < MaxSent
    /\ asked # <<>> => Last(asked).keep
    /\ request.expect => request.body > 0
    /\ asked' = Append(Forget(asked, current), request)
    /\ bodyLeft' = request.body
    /\ incoming' = Append(incoming, Len(asked) + 1)
    /\ UNCHANGED <<protocol11, clientClosed, out, pc, current, response, inputVars,
                   exc>>

\* A client that asked for 100 Continue waits for it or for the answer.
SendBody ==
    /\ ~clientClosed /\ bodyLeft > 0
    /\ Last(asked).expect =>
            Seen(Continue(Len(asked))) \/ Answered(Len(asked))
    /\ bodyLeft' = bodyLeft - 1
    /\ incoming' = Append(incoming, 0)
    /\ UNCHANGED <<protocol11, asked, clientClosed, out, pc, current, response,
                   inputVars, exc>>

ClientCloses ==
    /\ ~clientClosed
    /\ clientClosed' = TRUE
    /\ asked' = Forget(asked, current)
    /\ UNCHANGED <<protocol11, bodyLeft, incoming, out, pc, current, response,
                   inputVars, exc>>

-----------------------------------------------------------------------------
(* Reading a request.                                                      *)

Send(tokens) == out' = IF clientClosed THEN out ELSE out \o tokens

\* handle_one_request with parse_request of the standard library, which answers
\* an Expect header itself when the server speaks HTTP/1.1, and wsgi_setup.
ReadHead ==
    LET n == incoming[1]
        request == asked[n]
    IN  /\ pc = "request" /\ incoming # <<>> /\ n > 0
        /\ incoming' = Tail(incoming)
        /\ current' = n
        /\ asked' = IF n < Len(asked) \/ clientClosed THEN Forget(asked, n) ELSE asked
        /\ close_connection' = ~(protocol11 /\ request.keep)
        /\ Send(IF request.expect /\ protocol11 THEN <<Continue(n)>> ELSE <<>>)
        /\ unread' = request.body /\ hooked' = request.expect /\ wanted' = None
        /\ curr_headers' = None /\ headers_sent' = FALSE /\ written' = 0
        /\ pc' = "app"
        /\ UNCHANGED <<protocol11, bodyLeft, clientClosed, unlimited, exc>>

\* What the application left of the last body is not a request: parse_request
\* sends an error and returns False, with close_connection set.
ReadLeftover ==
    /\ pc = "request" /\ incoming # <<>> /\ incoming[1] = 0
    /\ Send(<<Answer(0, 0)>>)
    /\ close_connection' = TRUE
    /\ pc' = "done"
    /\ UNCHANGED <<protocol11, client, incoming, current, curr_headers, headers_sent,
                   written, inputVars, exc>>

\* An empty request line: the client has gone.
ReadEnd ==
    /\ pc = "request" /\ incoming = <<>> /\ clientClosed
    /\ close_connection' = TRUE
    /\ pc' = "closed"
    /\ UNCHANGED <<protocol11, client, incoming, out, current, curr_headers,
                   headers_sent, written, inputVars, exc>>

\* BaseHTTPRequestHandler.handle
Done ==
    /\ pc = "done"
    /\ pc' = IF close_connection THEN "closed" ELSE "request"
    /\ UNCHANGED <<protocol11, client, incoming, out, current, response, inputVars,
                   exc>>

-----------------------------------------------------------------------------
(* wsgi.input                                                              *)

Running == pc \in {"app", "iterating"} /\ wanted = None

Smaller(a, b) == IF a < b THEN a ELSE b

\* Mutant: the size is not limited by what is left of the body.
BeginReadUnlimited(size) ==
    /\ Running /\ unread > 0
    /\ wanted' = IF size = 0 THEN None ELSE size
    /\ Send(IF hooked THEN <<Continue(current)>> ELSE <<>>)
    /\ hooked' = FALSE
    /\ UNCHANGED <<protocol11, client, incoming, pc, current, response, unread,
                   unlimited, exc>>

\* Mutant: the first read does not send 100 Continue.
BeginReadSilent(size) ==
    /\ Running /\ unread > 0
    /\ wanted' = IF size = 0 THEN None ELSE Smaller(size, unread)
    /\ UNCHANGED out
    /\ hooked' = FALSE
    /\ UNCHANGED <<protocol11, client, incoming, pc, current, response, unread,
                   unlimited, exc>>

\* read and readline of LimitedLengthFile, with a size or without, up to the call
\* of the file below, whose first call sends 100 Continue if there is a
\* ContinueHook.  A size of 0 waits for nothing, and when nothing is left they do
\* not get that far.
BeginRead(size) ==
    /\ Running /\ unread > 0
    /\ wanted' = IF size = 0 THEN None ELSE Smaller(size, unread)
    /\ Send(IF hooked THEN <<Continue(current)>> ELSE <<>>)
    /\ hooked' = FALSE
    /\ UNCHANGED <<protocol11, client, incoming, pc, current, response, unread,
                   unlimited, exc>>

\* readlines, with a hint or without, and read and readline with a negative size,
\* which is less than what is left: nothing limits them.  Nor does it limit a later
\* read or readline when they have taken more than there was.
BeginUnlimited(end) ==
    /\ Running
    /\ wanted' = end /\ unlimited' = TRUE
    /\ Send(IF hooked THEN <<Continue(current)>> ELSE <<>>)
    /\ hooked' = FALSE
    /\ UNCHANGED <<protocol11, client, incoming, pc, current, response, unread, exc>>

\* The file below gives the first k pieces.
Takes(k, rest) ==
    /\ incoming' = rest /\ unread' = unread - k
    /\ wanted' = None
    /\ UNCHANGED <<protocol11, client, out, pc, current, response, hooked, unlimited,
                   exc>>

Rest(k) == SubSeq(incoming, k + 1, Len(incoming))

\* It has all that was asked for, or the client has gone.
EndRead ==
    /\ wanted \notin {None, ToTheEnd, ToTheLineEnd}
    /\ Len(incoming) >= wanted \/ clientClosed
    /\ LET k == Smaller(wanted, Len(incoming)) IN Takes(k, Rest(k))

EndReadAll ==
    /\ wanted = ToTheEnd /\ clientClosed
    /\ Takes(Len(incoming), <<>>)

\* A line ends in any piece of a body, and in a head at the latest, as it is one of
\* several lines of it.
EndReadLine ==
    /\ wanted = ToTheLineEnd
    /\ \/ incoming = <<>> /\ clientClosed /\ Takes(0, <<>>)
       \/ \E k \in DOMAIN incoming :
             /\ \A i \in 1..(k - 1) : incoming[i] = 0
             /\ Takes(k, IF incoming[k] = 0 THEN Rest(k) ELSE <<0>> \o Rest(k))

-----------------------------------------------------------------------------
(* start_response, write and the items of the result.                      *)

\* wsgi_start_response; a second call is accepted with an exc_info, until the
\* headers are sent.  A call that is not accepted raises in the application.
StartResponse(headers) ==
    /\ Running /\ ~headers_sent
    /\ curr_headers' = headers
    /\ UNCHANGED <<protocol11, client, incoming, out, pc, current, close_connection,
                   headers_sent, written, inputVars, exc>>

\* Mutant: an answer without a length does not close the connection.
ChunkWrittenKeepOpen(n, headers) ==
    /\ headers_sent' = TRUE
    /\ written' = written + n
    /\ close_connection' = (close_connection \/ (~headers_sent /\ headers.close))
    /\ Send((IF headers_sent THEN <<>> ELSE <<Answer(current, headers.length)>>)
            \o [i \in 1..n |-> Chunk(current)])

\* wsgi_write_chunk of n pieces, 0 for b''.
ChunkWritten(n, headers) ==
    /\ headers_sent' = TRUE
    /\ written' = written + n
    /\ close_connection' = \/ close_connection
                           \/ ~headers_sent /\ (headers.length = None \/ headers.close)
    /\ Send((IF headers_sent THEN <<>> ELSE <<Answer(current, headers.length)>>)
            \o [i \in 1..n |-> Chunk(current)])

Allowed == IF curr_headers = None \/ curr_headers.length = None
           THEN MaxChunk ELSE curr_headers.length

\* The application, by write, or the loop over the result, writes a chunk.
Write(n) ==
    /\ Running /\ curr_headers # None /\ written + n <= Allowed
    /\ ChunkWritten(n, curr_headers)
    /\ UNCHANGED <<protocol11, client, incoming, pc, current, curr_headers, inputVars,
                   exc>>

\* The same when the client has gone and the write fails.
WriteFails ==
    /\ Running /\ curr_headers # None /\ clientClosed
    /\ headers_sent' = TRUE
    /\ close_connection' = \/ close_connection
                           \/ ~headers_sent /\ (curr_headers.length = None
                                                  \/ curr_headers.close)
    /\ exc' = "oserror"
    /\ pc' = IF pc = "app" THEN "except" ELSE "closing"
    /\ UNCHANGED <<protocol11, client, incoming, out, current, curr_headers, written,
                   inputVars>>

Return ==
    /\ pc = "app" /\ Running
    /\ pc' = "iterating"
    /\ UNCHANGED <<protocol11, client, incoming, out, current, response, inputVars,
                   exc>>

Raise(kind) ==
    /\ Running
    /\ exc' = kind
    /\ pc' = IF pc = "app" THEN "except" ELSE "closing"
    /\ UNCHANGED <<protocol11, client, incoming, out, current, response, inputVars>>

\* The end of the loop; the headers of an empty answer are sent now, and it is an
\* error if there are none.
Stop ==
    /\ pc = "iterating" /\ Running
    /\ curr_headers # None => curr_headers.length \in {None, written}
    /\ IF headers_sent
          THEN UNCHANGED <<out, response, exc>>
          ELSE IF curr_headers = None
                  THEN exc' = "error" /\ UNCHANGED <<out, response>>
                  ELSE /\ ChunkWritten(0, curr_headers)
                       /\ UNCHANGED <<curr_headers, exc>>
    /\ pc' = "closing"
    /\ UNCHANGED <<protocol11, client, incoming, current, inputVars>>

\* result.close(), which may raise.
Close ==
    /\ pc = "closing"
    /\ exc' \in {exc} \cup AppExceptions
    /\ pc' = IF exc' = "none" THEN "done" ELSE "except"
    /\ UNCHANGED <<protocol11, client, incoming, out, current, response, inputVars>>

-----------------------------------------------------------------------------
(* The except clauses of wsgi_execute.                                     *)

\* socket.error: wsgi_connection_drop, and handle goes on.
ConnectionDrop ==
    /\ pc = "except" /\ exc = "oserror"
    /\ exc' = "none"
    /\ pc' = "done"
    /\ UNCHANGED <<protocol11, client, incoming, out, current, response, inputVars>>

ServerErrorHeaders == [length |-> 1, close |-> FALSE]

\* The other exceptions leave handle, after an error page if nothing was sent, and
\* the thread pool closes the connection.
ServerError ==
    /\ pc = "except" /\ exc = "error"
    /\ IF headers_sent
          THEN UNCHANGED <<out, response>>
          ELSE /\ curr_headers' = ServerErrorHeaders
               /\ headers_sent' = TRUE /\ written' = 1
               /\ Send(<<Answer(current, 1), Chunk(current)>>)
               /\ UNCHANGED close_connection
    /\ exc' = "none"
    /\ pc' = "closed"
    /\ UNCHANGED <<protocol11, client, incoming, current, inputVars>>

PassBy ==
    /\ pc = "except" /\ exc = "base"
    /\ exc' = "none"
    /\ pc' = "closed"
    /\ UNCHANGED <<protocol11, client, incoming, out, current, response, inputVars>>

-----------------------------------------------------------------------------

AppStep ==
    \/ \E headers \in Headers : StartResponse(headers)
    \/ \E size \in 0..MaxBody : BeginRead(size)
    \/ \E end \in {ToTheEnd, ToTheLineEnd} : BeginUnlimited(end)
    \/ \E n \in 0..1 : Write(n)
    \/ \E kind \in AppExceptions : Raise(kind)
    \/ Return \/ Stop

ServerStep ==
    \/ ReadHead \/ ReadLeftover \/ ReadEnd \/ Done
    \/ EndRead \/ EndReadAll \/ EndReadLine \/ WriteFails
    \/ Close \/ ConnectionDrop \/ ServerError \/ PassBy

ClientStep ==
    \/ \E request \in Request : SendHead(request)
    \/ SendBody \/ ClientCloses

Next == AppStep \/ ServerStep \/ ClientStep

Spec == Init /\ [][Next]_vars

\* The server's thread runs; the application gets on with its answer and ends it;
\* the client sends what it has announced, if it may.
FairSpec ==
    /\ Spec
    /\ WF_vars(ServerStep) /\ WF_vars(Return \/ Stop \/ Write(1)) /\ WF_vars(SendBody)

-----------------------------------------------------------------------------
(* Properties.                                                             *)

HeadsAt == {i \in DOMAIN out : out[i].kind = "head"}

\* Chunks between the head at i and the next one.
ChunksAfter(i) ==
    Cardinality({j \in DOMAIN out :
                    /\ j > i /\ out[j].kind = "chunk"
                    /\ ~ \E h \in HeadsAt : i < h /\ h < j})

\* What a client makes of the stream, interim answers aside: the k-th answer is the
\* answer to the k-th request, or the server's last word, unless an application has
\* read without a limit, and so perhaps a request; no answer has more chunks than its
\* length announces, and one that is followed by another is complete.
AnswersInOrder ==
    \A i \in HeadsAt :
        LET k == Cardinality({h \in HeadsAt : h <= i})
            last == \A h \in HeadsAt : h <= i
        IN  /\ unlimited \/ out[i].of = k \/ (out[i].of = 0 /\ last)
            /\ out[i].length # None => ChunksAfter(i) <= out[i].length
            /\ ~last => ChunksAfter(i) = out[i].length

\* However the calls of read and readline that are limited follow each other, they
\* never reach into the next request: the heads that are still in the stream are
\* those of all the requests after the current one, in their order.
NothingBeyondTheBody ==
    LET heads == {i \in DOMAIN incoming : incoming[i] > 0}
    IN  ~unlimited =>
            /\ {incoming[i] : i \in heads} = (current + 1)..Len(asked)
            /\ \A i, j \in heads : i < j => incoming[i] < incoming[j]

\* A client that waits for the answer to its request, or for leave to send the
\* body, gets an answer or sees the connection closed: server and client never
\* wait for each other, unless an application has read without a limit.
EveryRequestAnswered ==
    \A n \in 1..MaxSent :
        Len(asked) >= n ~> Answered(n) \/ pc = "closed" \/ clientClosed \/ unlimited
=============================================================================
