--------------------------------- MODULE Cgi ---------------------------------
(***************************************************************************)
(* One request to a CGIApplication (cgiapp.py): proc_communicate moves the    *)
(* body into the pipe of a child process and what the child writes into a     *)
(* CGIWriter and the error log, while the child reads, writes, closes its     *)
(* ends and exits as its script has it.                                       *)
(*                                                                           *)
(* The body is counted in blocks of 512 bytes.  Output is a sequence of       *)
(* tokens: "nl" ends a line, "bad" is a text without a colon, "status" and    *)
(* "name" are texts with one, "data" anything.                                *)
(***************************************************************************)
EXTENDS Integers, Sequences, SequencesExt, FiniteSetsExt

CONSTANTS
    Scripts,    \* what the child does: sequences of read, drain, error, close, and tokens to write
    Bodies,     \* lengths of bodies
    Capacity,   \* of a pipe, in blocks or tokens
    None

VARIABLES
    script,     \* what the child has still to do
    ends,       \* the ends of pipes the child has open
    waiting,    \* blocks of the body that the server has
    client,     \* does the client still send, if the body is not complete?
    stdin, stdout, stderr,   \* what is in the pipes
    open,       \* read_set and write_set
    ready,      \* what select found and the loop has still to serve
    writing,    \* blocks that os.write has still to put into the pipe
    writer,     \* the CGIWriter: [finished, buffer, status, headers, body]
    logged,     \* what the error log has
    over,       \* None, answer or error
    written, failed  \* history: all the child wrote to its output and its errors

cgiVars == <<script, ends, waiting, client, stdin, stdout, stderr, open, ready, writing, writer,
             logged, over, written, failed>>
childVars == <<script, ends, written, failed>>
pipeVars == <<stdin, stdout, stderr>>
parentVars == <<open, ready, writing, writer, logged, over>>

Streams == {"stdin", "stdout", "stderr"}
NewWriter == [finished |-> FALSE, buffer |-> <<>>, status |-> None, headers |-> <<>>, body |-> <<>>, bad |-> FALSE]

CgiInit ==
    /\ script \in Scripts /\ ends = Streams
    /\ waiting \in Bodies /\ client = TRUE
    /\ stdin = 0 /\ stdout = <<>> /\ stderr = 0
    /\ open = Streams /\ ready = {} /\ writing = 0 /\ writer = NewWriter /\ logged = 0 /\ over = None
    /\ written = <<>> /\ failed = 0

-----------------------------------------------------------------------------
(* The child.                                                                *)

Next1 == script # <<>>
Done == script' = Tail(script)

\* read waits for a block, or for the end of the input.
ChildReads ==
    /\ Next1 /\ Head(script) \in {"read", "drain"} /\ "stdin" \in ends
    /\ stdin > 0 \/ "stdin" \notin open
    /\ IF stdin > 0 THEN stdin' = stdin - 1 ELSE stdin' = stdin
    /\ IF Head(script) = "drain" /\ stdin > 0 THEN script' = script ELSE Done
    /\ UNCHANGED <<ends, written, failed, waiting, client, stdout, stderr, parentVars>>

\* A write waits for room in the pipe.
ChildWrites ==
    /\ Next1 /\ Head(script) \in {"nl", "bad", "status", "name", "data"}
    /\ Len(stdout) < Capacity
    /\ stdout' = Append(stdout, Head(script)) /\ written' = Append(written, Head(script)) /\ Done
    /\ UNCHANGED <<ends, failed, waiting, client, stdin, stderr, parentVars>>

ChildComplains ==
    /\ Next1 /\ Head(script) = "error" /\ stderr < Capacity
    /\ stderr' = stderr + 1 /\ failed' = failed + 1 /\ Done
    /\ UNCHANGED <<ends, written, waiting, client, stdin, stdout, parentVars>>

ChildClosesInput ==
    /\ Next1 /\ Head(script) = "close" /\ ends' = ends \ {"stdin"} /\ Done
    /\ UNCHANGED <<written, failed, waiting, client, pipeVars, parentVars>>

ChildExits ==
    /\ script = <<>> /\ ends # {} /\ ends' = {}
    /\ UNCHANGED <<script, written, failed, waiting, client, pipeVars, parentVars>>

Child == ChildReads \/ ChildWrites \/ ChildComplains \/ ChildClosesInput \/ ChildExits

\* The client goes away: what is still missing of the body never comes.
ClientLeaves ==
    /\ client /\ waiting > 0 /\ client' = FALSE
    /\ \E left \in 0..(waiting - 1) : waiting' = left
    /\ UNCHANGED <<childVars, pipeVars, parentVars>>

-----------------------------------------------------------------------------
(* CGIWriter.write                                                           *)

\* One complete line: an empty one ends the headers.
EndOfLine(w) ==
    CASE w.buffer = <<>> -> [w EXCEPT !.finished = TRUE]
      [] w.buffer # <<>> /\ \A i \in DOMAIN w.buffer : w.buffer[i] \in {"bad", "data"} -> [w EXCEPT !.bad = TRUE]
      [] Head(w.buffer) = "status" -> [w EXCEPT !.status = w.buffer, !.buffer = <<>>]
      [] OTHER -> [w EXCEPT !.headers = Append(@, w.buffer), !.buffer = <<>>]

\* The lines that are complete are taken from the buffer; when the headers have
\* ended, start_response is called, and the rest is written.
Lines(w, data) ==
    LET step(v, token) ==
            CASE v.bad -> v
              [] ~v.bad /\ v.finished -> [v EXCEPT !.body = Append(@, token)]
              [] ~v.bad /\ ~v.finished /\ token = "nl" -> EndOfLine(v)
              [] OTHER -> [v EXCEPT !.buffer = Append(@, token)]
    IN  FoldLeft(step, w, data)

-----------------------------------------------------------------------------
(* proc_communicate                                                          *)

InLoop == over = None /\ writing = 0

\* A pipe can be read when there is something in it or it is at its end, and
\* written when it takes a block or nobody reads it.
Readable == (IF stdout # <<>> \/ "stdout" \notin ends THEN {"stdout"} ELSE {})
            \cup (IF stderr > 0 \/ "stderr" \notin ends THEN {"stderr"} ELSE {})
Writable == IF stdin < Capacity \/ "stdin" \notin ends THEN {"stdin"} ELSE {}

Select ==
    /\ InLoop /\ ready = {} /\ open # {}
    /\ ready' = (Readable \cup Writable) \intersect open /\ ready' # {}
    /\ UNCHANGED <<childVars, waiting, client, pipeVars, open, writing, writer, logged, over>>

\* A mutant: all of the body that there is.
BlocksPlain == waiting

\* At most 512 bytes are written at a time, which a pipe takes that select has
\* found to be writable.
Blocks == Min({waiting, 1})

\* The next block of the body is read, or the pipe is closed at its end; a child
\* that has closed its end makes os.write fail.
ServeInput ==
    /\ InLoop /\ "stdin" \in ready
    /\ ready' = ready \ {"stdin"}
    /\ IF waiting = 0 THEN open' = open \ {"stdin"} /\ UNCHANGED <<waiting, writing, over>>
       ELSE IF "stdin" \notin ends THEN over' = "error" /\ UNCHANGED <<open, waiting, writing>>
       ELSE writing' = Blocks /\ waiting' = waiting - Blocks /\ UNCHANGED <<open, over>>
    /\ UNCHANGED <<childVars, client, pipeVars, writer, logged>>

\* os.write returns when the pipe has taken what it was given.
WriteInput ==
    /\ over = None /\ writing > 0
    /\ \/ stdin < Capacity /\ stdin' = stdin + 1 /\ writing' = writing - 1 /\ over' = over
       \/ "stdin" \notin ends /\ over' = "error" /\ UNCHANGED <<stdin, writing>>
    /\ UNCHANGED <<childVars, waiting, client, stdout, stderr, open, ready, writer, logged>>

\* os.read returns some of what is there; a line that is not a header raises
\* CGIError.
ServeOutput ==
    /\ InLoop /\ ready \intersect {"stdin", "stdout"} = {"stdout"}
    /\ ready' = ready \ {"stdout"}
    /\ IF stdout = <<>>
       THEN open' = open \ {"stdout"} /\ UNCHANGED <<stdout, writer, over>>
       ELSE \E n \in 1..Len(stdout) :
               /\ writer' = Lines(writer, SubSeq(stdout, 1, n))
               /\ stdout' = SubSeq(stdout, n + 1, Len(stdout))
               /\ over' = IF writer'.bad THEN "error" ELSE None
               /\ open' = open
    /\ UNCHANGED <<childVars, waiting, client, stdin, stderr, writing, logged>>

ServeErrors ==
    /\ InLoop /\ ready = {"stderr"} /\ ready' = {}
    /\ IF stderr = 0 THEN open' = open \ {"stderr"} /\ UNCHANGED <<stderr, logged>>
       ELSE \E n \in 1..stderr : stderr' = stderr - n /\ logged' = logged + n /\ open' = open
    /\ UNCHANGED <<childVars, waiting, client, stdin, stdout, writing, writer, over>>

\* The child has ended; without an end of the headers start_response is called
\* now, and what is left in the buffer is lost.
Wait ==
    /\ InLoop /\ open = {} /\ ready = {} /\ ends = {}
    /\ over' = "answer"
    /\ UNCHANGED <<childVars, waiting, client, pipeVars, open, ready, writing, writer, logged>>

Communicate == Select \/ ServeInput \/ WriteInput \/ ServeOutput \/ ServeErrors \/ Wait

CgiNext == Child \/ ClientLeaves \/ Communicate

\* The child runs, and so does the loop.
CgiSpec == CgiInit /\ [][CgiNext]_cgiVars /\ WF_cgiVars(Child) /\ WF_cgiVars(Communicate)

-----------------------------------------------------------------------------

\* Whatever the child does first, and however little the pipes hold, nobody
\* waits for the other for ever: the request ends (cgiapp.py 191-203, 226-262).
EveryAnswerEnds == <>(over # None)

NewLines == {i \in DOMAIN written : written[i] = "nl"}
Blank == {i \in NewLines : i = 1 \/ i - 1 \in NewLines}

\* Whichever way the output is cut up by the reads, the headers are the lines
\* before the first empty one, the body is all that follows it, and every
\* complaint is in the log (cgiapp.py 130-164).
AnswerIsWhole ==
    over = "answer" =>
        LET end == IF Blank = {} THEN Max(NewLines \cup {0}) ELSE Min(Blank)
            Line(i) == LET before == {j \in NewLines : j < i}
                       IN  SubSeq(written, Max(before \cup {0}) + 1, i - 1)
            lines == [k \in {i \in NewLines : i <= end /\ i \notin Blank} |-> Line(k)]
            given == {lines[k] : k \in DOMAIN lines}
        IN  /\ writer.finished <=> Blank # {}
            /\ writer.body = IF Blank = {} THEN <<>> ELSE SubSeq(written, end + 1, Len(written))
            /\ {writer.headers[i] : i \in DOMAIN writer.headers}
                  = {line \in given : Head(line) # "status"}
            /\ logged = failed
=============================================================================
