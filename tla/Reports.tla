------------------------------- MODULE Reports -------------------------------
(***************************************************************************)
(* handle_exception of exceptions/errormiddleware.py: an exception is         *)
(* collected (exceptions/collector.py), formatted (exceptions/formatter.py)   *)
(* and told to an address, a log, the error stream and the user               *)
(* (exceptions/reporter.py), each of which may fail.                         *)
(*                                                                           *)
(* A frame of the traceback has a number n and hide, the value of its         *)
(* __traceback_hide__, supplement, what its __traceback_supplement__ gives or *)
(* does, decorator, what its __traceback_decorator__ does, and collecting,    *)
(* whether it is one of the collector.  Extra data has names [importance,     *)
(* title], title being None when the name is a string and not a pair.        *)
(***************************************************************************)
EXTENDS Subsequences

CONSTANTS
    Exceptions,  \* [frames, importing], where importing tells an ImportError
    Configs,     \* what handle_exception is told: a set of option names
    Limit,       \* of the frames that are collected, or None
    None

VARIABLES
    exc,        \* the exception
    config,     \* options that are set: email, log, stream, html, debug, simple
    at,         \* what is done next; in the end returned, raised, or broken, if the stream was
    exc_data,   \* what was collected: [frames, extra]
    reported,   \* of handle_exception
    extra_data, \* failures that have not been told yet
    told        \* history: whom the exception was told, with the frames that were shown

reportVars == <<exc, config, at, exc_data, reported, extra_data, told>>

Options == {"email", "log", "stream", "html", "debug", "simple"}
Reporters == {"email", "log", "stream"}

ReportsInit ==
    /\ exc \in Exceptions /\ config \in Configs /\ config \subseteq Options
    /\ at = "collect" /\ exc_data = [frames |-> <<>>, extra |-> {}]
    /\ reported = FALSE /\ extra_data = {} /\ told = {}

-----------------------------------------------------------------------------
(* collectException                                                          *)

\* The frames up to the limit and before one of the collector, which a text stands for.
Within == {i \in DOMAIN exc.frames : Limit = None \/ i <= Limit}
Collected ==
    LET known == ElementsAt(exc.frames, {i \in Within : \A j \in 1..i : ~exc.frames[j].collecting})
    IN  IF \E i \in Within : exc.frames[i].collecting THEN Append(known, None) ELSE known

Real(frames) == ElementsAt(frames, {i \in DOMAIN frames : frames[i] # None})
Last(frames) == frames[Len(frames)]

\* collectSupplement: an object that raises is noted, and gives nothing.
ExtraOf(frame) == IF frame.supplement = None \/ frame.supplement.raises THEN {} ELSE frame.supplement.extra

\* What the decorators of the known frames leave of the frames; one that raises is passed over.
Decorated(frames, known) ==
    IF frames # <<>> /\ \E i \in DOMAIN known : known[i].decorator = "last" THEN <<Last(frames)>> ELSE frames

Collect ==
    /\ at = "collect" /\ at' = "email"
    /\ LET frames == Collected
           known  == Real(frames)
       IN  exc_data' = [frames |-> Decorated(frames, known),
                        extra  |-> UNION {ExtraOf(known[i]) : i \in DOMAIN known}
                                   \cup IF exc.importing THEN {[importance |-> "important", title |-> "sys.path"]} ELSE {}]
    /\ UNCHANGED <<exc, config, reported, extra_data, told>>

-----------------------------------------------------------------------------
(* The formatter                                                             *)

\* The marks that hide the frames behind them, and those that show them.
Hiding == {"after", "after_and_this"}
Showing == {"before", "before_and_this", "reset", "reset_and_this"}

\* Frame i is behind a mark that hides it.
Hidden(frames, i) ==
    \E j \in 1..i - 1 : frames[j].hide \in Hiding /\ \A k \in j..i - 1 : frames[k].hide \notin Showing

\* It is kept, unless a mark follows that drops all before it.
Kept(frames, i) ==
    /\ frames[i].hide \in {"before", "reset", "after"} \/ (frames[i].hide = "no" /\ ~Hidden(frames, i))
    /\ \A j \in DOMAIN frames : j > i => frames[j].hide \notin {"before", "before_and_this"}

\* A mutant: the frame that raised is hidden like any other.
FilterPlain(frames) == ElementsAt(frames, {i \in DOMAIN frames : frames[i].hide = "no"})

\* filter_frames: all of them, if the last would not be there.
Filter(frames) ==
    LET kept == ElementsAt(frames, {i \in DOMAIN frames : Kept(frames, i)})
    IN  IF \E i \in DOMAIN kept : kept[i] = Last(frames) THEN kept ELSE frames

\* The names of one importance are sorted, which raises when strings and pairs
\* are among them.
Sortable(names) ==
    \A m, n \in names : m.importance = n.importance => (m.title = None <=> n.title = None)

NamesOf(frames, show_extra) ==
    (IF show_extra THEN exc_data.extra ELSE {})
    \cup UNION {IF frames[i].supplement # None /\ frames[i].supplement.url
                THEN {[importance |-> "important", title |-> None]} ELSE {} : i \in DOMAIN frames}

\* format_collected_data: the frames that are shown, or None if it raises, which
\* it does at the text that stands for frames of the collector itself.
Format(show_hidden, show_extra) ==
    LET all == exc_data.frames
    IN  IF (\E i \in DOMAIN all : all[i] = None) \/ (all = <<>> /\ ~show_hidden) THEN None
        ELSE LET shown == IF show_hidden THEN all ELSE Filter(all)
             IN  IF Sortable(NamesOf(shown, show_extra)) THEN shown ELSE None

\* What each of them formats: with hidden frames or not, with extra data or not.
Formats(where) ==
    CASE where = "email" -> {<<FALSE, TRUE>>, <<TRUE, TRUE>>}
      [] where \in {"log", "stream", "fallback"} -> {<<TRUE, TRUE>>}
      [] where = "simple" -> {<<FALSE, FALSE>>}
      [] where = "page" -> {<<FALSE, TRUE>>, <<TRUE, FALSE>>}

Formatted(where) == {Format(f[1], f[2]) : f \in Formats(where)}
CanFormat(where) == None \notin Formatted(where)
Tell(where) == told' = told \cup {[to |-> where, frames |-> shown] : shown \in Formatted(where)}

-----------------------------------------------------------------------------
(* handle_exception                                                          *)

After == [email |-> "log", log |-> "stream", stream |-> "answer"]

\* send_report: the report is sent; or it fails, which is to be told, but for
\* HTML raises, because the parameter html hides the module.  Without a
\* stream reporter one line is written to the stream in any case.
Report ==
    /\ at \in Reporters
    /\ IF at \in config
       THEN \/ /\ CanFormat(at) /\ Tell(at) /\ reported' = TRUE /\ at' = After[at]
               /\ UNCHANGED extra_data
            \/ /\ IF "html" \in config THEN at' = "raised" /\ UNCHANGED extra_data
                  ELSE at' = After[at] /\ extra_data' = extra_data \cup {at}
               /\ UNCHANGED <<told, reported>>
       ELSE /\ at' \in IF at = "stream" THEN {After[at], "broken"} ELSE {After[at]}
            /\ UNCHANGED <<told, reported, extra_data>>
    /\ UNCHANGED <<exc, config, exc_data>>

Page == IF "simple" \in config THEN "simple" ELSE "page"

\* The page for the user, which in debug mode has the exception, and, if it is
\* not a simple one, the failures.
Answer ==
    /\ at = "answer"
    /\ IF {"html", "debug"} \subseteq config
       THEN IF CanFormat(Page)
            THEN /\ Tell(Page) /\ reported' = TRUE /\ at' = "fallback"
                 /\ extra_data' = IF Page = "page" THEN {} ELSE extra_data
            ELSE at' = "raised" /\ UNCHANGED <<told, reported, extra_data>>
       ELSE at' = "fallback" /\ UNCHANGED <<told, reported, extra_data>>
    /\ UNCHANGED <<exc, config, exc_data>>

\* Who has not been told by anybody is told by the stream.
Fallback ==
    /\ at = "fallback"
    /\ IF reported THEN at' = "extra" /\ UNCHANGED told
       ELSE IF CanFormat("fallback")
       THEN \/ Tell("fallback") /\ at' = "extra"
            \/ at' = "broken" /\ UNCHANGED told
       ELSE at' = "raised" /\ UNCHANGED told
    /\ UNCHANGED <<exc, config, exc_data, reported, extra_data>>

TellFailures ==
    /\ at = "extra"
    /\ \/ at' = "returned" /\ extra_data' = {}
       \/ extra_data # {} /\ at' = "broken" /\ UNCHANGED extra_data
    /\ UNCHANGED <<exc, config, exc_data, reported, told>>

ReportsNext == Collect \/ Report \/ Answer \/ Fallback \/ TellFailures

ReportsSpec == ReportsInit /\ [][ReportsNext]_reportVars

-----------------------------------------------------------------------------

Ends(report) == report.frames # <<>> /\ Last(report.frames) = Last(exc_data.frames)

\* However reports fail, once the exception has been handled somebody has been
\* told of it, with the frame where it was raised, and a frame that is hidden is
\* shown only where all are
\* (errormiddleware.py 319-417, formatter.py 93-135).
EveryErrorIsTold ==
    at = "returned" =>
        /\ told # {} /\ \A report \in told : Ends(report)
        /\ \A report \in told :
              \/ report.frames = exc_data.frames
              \/ \A i \in DOMAIN report.frames : report.frames[i].hide \notin {"yes", "before_and_this", "after_and_this"}

\* Handling an exception answers it, whatever its type and its frames are and
\* whichever report cannot be sent (collector.py 186-188, errormiddleware.py
\* 419-437), while the error stream takes what is written.  It does not hold: a report that
\* cannot be sent raises in send_report, and an import error in the formatter.
HandlingNeverRaises == at # "raised"
=============================================================================
