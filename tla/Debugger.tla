------------------------------ MODULE Debugger ------------------------------
(***************************************************************************)
(* The pages of the interactive debugger (paste/evalexception/middleware.py   *)
(* and evalcontext.py): requests of the application, some of which fail and   *)
(* are kept, and requests that look at a frame of one that was kept or run     *)
(* code in it, while sys.stdout of the whole process is the output of that     *)
(* code.  What the code sees of the registry is in Registry.                  *)
(***************************************************************************)
EXTENDS Subsequences

CONSTANTS
    Threads,
    Asked,         \* debugging requests: [method, count, frame, input]
    Frames,        \* frames of an exception
    Program,       \* input -> [prints, ends]: how often it prints, and whether it ends well,
                   \* in an exception, or in one that is not an Exception
    MaxInfos,      \* bound: exceptions kept
    MaxPrints,     \* bound: what requests of the application print
    None

VARIABLES
    debug_infos,   \* the counts of the exceptions that were kept
    stdout,        \* sys.stdout: console, or the thread to whose `out` it goes
    exec_lock,     \* its owner
    out,           \* of each thread: who printed, in order
    request_id,    \* restoration_context_id: the exception whose objects a thread sees
    doing,         \* of each thread: [step, request, save_stdout, left]
    printed        \* what requests of the application printed

debuggerVars == <<debug_infos, stdout, exec_lock, out, request_id, doing, printed>>

Rest == [step |-> "idle", request |-> None, save_stdout |-> None, left |-> 0]

DebuggerInit ==
    /\ debug_infos = {} /\ stdout = "console" /\ exec_lock = None /\ printed = 0
    /\ out = [t \in Threads |-> <<>>] /\ request_id = [t \in Threads |-> None]
    /\ doing = [t \in Threads |-> Rest]

Goes(t, step) == doing' = [doing EXCEPT ![t].step = step]
Ends(t) == doing' = [doing EXCEPT ![t] = Rest]

-----------------------------------------------------------------------------
(* Requests of the application.                                               *)

Respond(t) ==
    /\ doing[t].step = "idle" /\ Goes(t, "application")
    /\ UNCHANGED <<debug_infos, stdout, exec_lock, out, request_id, printed>>

\* Whoever prints, prints where sys.stdout is.
Printed(who) == out' = IF stdout = "console" THEN out ELSE [out EXCEPT ![stdout] = Append(@, who)]

Writes(t) ==
    /\ doing[t].step = "application" /\ printed < MaxPrints
    /\ Printed("application") /\ printed' = printed + 1
    /\ UNCHANGED <<debug_infos, stdout, exec_lock, request_id, doing>>

\* It answers, or fails in an Exception that is kept under the next count.
Responded(t) ==
    /\ doing[t].step = "application" /\ Ends(t)
    /\ \/ UNCHANGED debug_infos
       \/ Cardinality(debug_infos) < MaxInfos /\ debug_infos' = debug_infos \cup {Cardinality(debug_infos) + 1}
    /\ UNCHANGED <<stdout, exec_lock, out, request_id, printed>>

-----------------------------------------------------------------------------
(* Requests of the debugger.                                                 *)

\* debug, view and get_debug_info: a page that is not there, or not to be shown, or an
\* exception or a frame that is not there, is answered at once, as is no input.
AnsweredAtOnce(request) ==
    \/ request.method \notin {"show_frame", "exec_input"}
    \/ request.count \notin debug_infos
    \/ request.method = "exec_input" /\ request.input = ""
    \/ request.frame \notin Frames

\* restoration_begin, for a frame with variables or for input.
Debug(t, request) ==
    /\ doing[t].step = "idle"
    /\ IF AnsweredAtOnce(request) THEN UNCHANGED <<request_id, doing, out>>
       ELSE /\ request_id' = [request_id EXCEPT ![t] = request.count]
            /\ doing' = [doing EXCEPT ![t] = [Rest EXCEPT !.request = request,
                    !.step = IF request.method = "show_frame" THEN "end" ELSE "acquire"]]
            /\ out' = [out EXCEPT ![t] = <<>>]
    /\ UNCHANGED <<debug_infos, stdout, exec_lock, printed>>

\* exec_expr: one evaluation of the process at a time.
Acquire(t) ==
    /\ doing[t].step = "acquire" /\ exec_lock = None
    /\ exec_lock' = t /\ stdout' = t
    /\ doing' = [doing EXCEPT ![t] = [@ EXCEPT !.step = "exec", !.save_stdout = stdout,
                                      !.left = Program[doing[t].request.input].prints]]
    /\ UNCHANGED <<debug_infos, out, request_id, printed>>

Exec(t) ==
    /\ doing[t].step = "exec" /\ doing[t].left > 0
    /\ Printed(t) /\ doing' = [doing EXCEPT ![t].left = @ - 1]
    /\ UNCHANGED <<debug_infos, stdout, exec_lock, request_id, printed>>

\* The traceback of an Exception is printed; with any exception sys.stdout is given back.
Release(t) ==
    LET ends == Program[doing[t].request.input].ends
    IN  /\ doing[t].step = "exec" /\ doing[t].left = 0
        /\ out' = IF ends = "exception" THEN [out EXCEPT ![t] = Append(@, "traceback")] ELSE out
        /\ stdout' = doing[t].save_stdout /\ exec_lock' = None
        /\ IF ends = "exit" THEN Ends(t) ELSE Goes(t, "end")
        /\ UNCHANGED <<debug_infos, request_id, printed>>

\* restoration_end; the answer is `out`.
End(t) ==
    /\ doing[t].step = "end" /\ Goes(t, "answer")
    /\ request_id' = [request_id EXCEPT ![t] = None]
    /\ UNCHANGED <<debug_infos, stdout, exec_lock, out, printed>>

Answer(t) ==
    /\ doing[t].step = "answer" /\ Ends(t)
    /\ UNCHANGED <<debug_infos, stdout, exec_lock, out, request_id, printed>>

DebuggerNext ==
    \E t \in Threads :
        \/ Respond(t) \/ Writes(t) \/ Responded(t)
        \/ \E request \in Asked : Debug(t, request)
        \/ Acquire(t) \/ Exec(t) \/ Release(t) \/ End(t) \/ Answer(t)

DebuggerSpec == DebuggerInit /\ [][DebuggerNext]_debuggerVars

-----------------------------------------------------------------------------

\* What an evaluation printed itself.
Own(output) == ElementsAt(output, {n \in DOMAIN output : output[n] # "application"})

Traceback(program) == IF program.ends = "exception" THEN <<"traceback">> ELSE <<>>

\* What runs in a frame is answered with all it printed, in order, with its traceback, and
\* with nothing another evaluation printed; and sys.stdout is the console again
\* (evalcontext.py 26-48).
OutputIsWhole ==
    /\ exec_lock = None => stdout = "console"
    /\ \A t \in Threads :
        doing[t].step = "answer" /\ doing[t].request.method = "exec_input" =>
            LET program == Program[doing[t].request.input]
            IN  Own(out[t]) = [n \in 1..program.prints |-> t] \o Traceback(program)

\* The output of an evaluation is its own.  It does not hold: other requests print into it.
OutputIsOwn == \A t \in Threads : \A n \in DOMAIN out[t] : out[t][n] \in {t, "traceback"}

\* A request of the application does not see the objects of another one.  It does not hold:
\* after an exit() in the debugger its thread, which goes on, keeps the context.
OwnObjects == \A t \in Threads : doing[t].step = "application" => request_id[t] = None
=============================================================================
