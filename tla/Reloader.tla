------------------------------ MODULE Reloader ------------------------------
(***************************************************************************)
(* The monitor of reloader.py: a thread that looks at the times of the files *)
(* of all modules, of files that it was told to watch, and of those that     *)
(* callbacks name, and ends the process when one has changed, while other    *)
(* threads import modules and name files, and files change and go.           *)
(***************************************************************************)
EXTENDS Integers, Sequences, SequencesExt

CONSTANTS
    File,        \* files
    Source,      \* compiled files -> their sources
    Named,       \* files that watch_file is called for
    FromCallback,\* files that callbacks may name
    Module,      \* files of modules
    Concurrent,  \* may another thread call watch_file while the monitor is made?
    MaxTime,     \* bound on the times of files
    None

VARIABLES
    disk,            \* times of the files, or None
    modules,         \* sys.modules, the files in it
    named,           \* what the callbacks return
    global_files,    \* Monitor.global_extra_files
    calling,         \* what watch_file is about to append to global_extra_files, or None
    install,         \* how far Monitor.__init__ is: none, files, instance, done
    extra_files,     \* of the monitor
    module_mtimes,   \* times noted: file -> time
    filenames,       \* the files of this round that are still to be looked at
    monitor          \* of the thread: [at: idle, collect, look, source, sleep, dead, exit]

reloaderVars == <<disk, modules, named, global_files, calling, install, extra_files, module_mtimes,
                  filenames, monitor>>
worldVars == <<disk, modules, named>>
watchVars == <<global_files, calling>>

ReloaderInit ==
    /\ disk \in [File -> {None, 1}] /\ \A f \in Module : disk[f] = 1
    /\ modules = {} /\ named = {}
    /\ global_files = {} /\ calling = None /\ install = "none" /\ extra_files = {}
    /\ module_mtimes = [f \in {} |-> 0] /\ filenames = {} /\ monitor = [at |-> "idle"]

Running == monitor.at # "exit"

-----------------------------------------------------------------------------
(* The other threads, and the world.                                         *)

FileChanges(f) ==
    /\ Running
    /\ \E time \in 1..MaxTime : (IF disk[f] = None THEN TRUE ELSE disk[f] < time) /\ disk' = [disk EXCEPT ![f] = time]
    /\ UNCHANGED <<modules, named, watchVars, install, extra_files, module_mtimes, filenames, monitor>>

FileRemoved(f) ==
    /\ Running /\ disk[f] # None /\ disk' = [disk EXCEPT ![f] = None]
    /\ UNCHANGED <<modules, named, watchVars, install, extra_files, module_mtimes, filenames, monitor>>

Import(f) ==
    /\ Running /\ f \notin modules /\ modules' = modules \cup {f}
    /\ UNCHANGED <<disk, named, watchVars, install, extra_files, module_mtimes, filenames, monitor>>

CallbackNames(f) ==
    /\ Running /\ f \notin named /\ named' = named \cup {f}
    /\ UNCHANGED <<disk, modules, watchVars, install, extra_files, module_mtimes, filenames, monitor>>

\* Monitor.watch_file, called on the class: first the monitors there are are
\* told, then those to come.
WatchFile(f) ==
    /\ Running /\ calling = None /\ f \notin global_files
    /\ Concurrent \/ install \in {"none", "done"}
    /\ calling' = f
    /\ extra_files' = IF install \in {"instance", "done"} THEN extra_files \cup {f} ELSE extra_files
    /\ UNCHANGED <<worldVars, global_files, install, module_mtimes, filenames, monitor>>

WatchFileGlobally ==
    /\ Running /\ calling # None
    /\ global_files' = global_files \cup {calling} /\ calling' = None
    /\ UNCHANGED <<worldVars, install, extra_files, module_mtimes, filenames, monitor>>

\* Monitor.__init__ copies the global files and then registers the instance;
\* install starts the thread.
Install ==
    /\ Running /\ (Concurrent \/ calling = None)
    /\ \/ /\ install = "none" /\ install' = "files"
          /\ extra_files' = global_files /\ UNCHANGED monitor
       \/ /\ install = "files" /\ install' = "instance"
          /\ UNCHANGED <<extra_files, monitor>>
       \/ /\ install = "instance" /\ install' = "done"
          /\ monitor' = [at |-> "sleep"] /\ UNCHANGED extra_files
    /\ UNCHANGED <<worldVars, watchVars, module_mtimes, filenames>>

-----------------------------------------------------------------------------
(* periodic_reload and check_reload                                          *)

Poll ==
    /\ monitor.at = "sleep"
    /\ monitor' = [at |-> "collect", modules |-> modules]
    /\ filenames' = extra_files \cup named
    /\ UNCHANGED <<worldVars, watchVars, install, extra_files, module_mtimes>>

\* The loop over sys.modules raises when a module was imported meanwhile, which
\* ends the thread.
Collect ==
    /\ monitor.at = "collect"
    /\ IF monitor.modules = modules
       THEN monitor' = [at |-> "look"] /\ filenames' = filenames \cup modules
       ELSE monitor' = [at |-> "dead"] /\ UNCHANGED filenames
    /\ UNCHANGED <<worldVars, watchVars, install, extra_files, module_mtimes>>

Later(a, b) == IF a < b THEN b ELSE a

\* A mutant: only the compiled file counts.
TimeOfPlain(time, source) == time

\* The time of a compiled file is that of its source, if that is later.
TimeOf(time, source) == Later(time, source)

\* A file with the time it has now: noted if it is new, and the end if it is
\* later than the one noted.
Compare(f, time) ==
    /\ filenames' = filenames \ {f}
    /\ IF f \notin DOMAIN module_mtimes
       THEN /\ module_mtimes' = [g \in DOMAIN module_mtimes \cup {f} |->
                                    IF g = f THEN time ELSE module_mtimes[g]]
            /\ monitor' = [at |-> "look"]
       ELSE /\ monitor' = [at |-> IF module_mtimes[f] < time THEN "exit" ELSE "look"]
            /\ UNCHANGED module_mtimes

\* A file that is not there is passed over.
Look(f) ==
    /\ monitor.at = "look" /\ f \in filenames
    /\ IF disk[f] = None
       THEN filenames' = filenames \ {f} /\ UNCHANGED <<module_mtimes, monitor>>
       ELSE IF f \in DOMAIN Source /\ disk[Source[f]] # None
       THEN monitor' = [at |-> "source", file |-> f, time |-> disk[f]] /\ UNCHANGED <<filenames, module_mtimes>>
       ELSE Compare(f, disk[f])
    /\ UNCHANGED <<worldVars, watchVars, install, extra_files>>

\* The source was there, and is asked for its time: if it has gone, os.stat
\* raises, which ends the thread.
LookAtSource ==
    /\ monitor.at = "source"
    /\ LET source == disk[Source[monitor.file]]
       IN  IF source = None
           THEN monitor' = [at |-> "dead"] /\ UNCHANGED <<filenames, module_mtimes>>
           ELSE Compare(monitor.file, TimeOf(monitor.time, source))
    /\ UNCHANGED <<worldVars, watchVars, install, extra_files>>

Sleep ==
    /\ monitor.at = "look" /\ filenames = {}
    /\ monitor' = [at |-> "sleep"]
    /\ UNCHANGED <<worldVars, watchVars, install, extra_files, module_mtimes, filenames>>

MonitorNext == Poll \/ Collect \/ LookAtSource \/ Sleep \/ \E f \in File : Look(f)

ReloaderNext ==
    \/ MonitorNext \/ Install \/ WatchFileGlobally
    \/ \E f \in File : FileChanges(f) \/ FileRemoved(f)
    \/ \E f \in Module : Import(f)
    \/ \E f \in FromCallback : CallbackNames(f)
    \/ \E f \in Named : WatchFile(f)

\* The thread of the monitor runs, and calls return.
ReloaderSpec ==
    /\ ReloaderInit /\ [][ReloaderNext]_reloaderVars
    /\ WF_reloaderVars(MonitorNext) /\ WF_reloaderVars(Install) /\ WF_reloaderVars(WatchFileGlobally)

-----------------------------------------------------------------------------

\* The files somebody wants to be watched, when no call is under way.
Wanted == (IF install = "done" THEN global_files ELSE {}) \cup modules \cup named

Times(f) ==
    {disk[g] : g \in {f} \cup (IF f \in DOMAIN Source THEN {Source[f]} ELSE {})} \ {None}

\* A file that is there and has, or whose source has, a later time than the
\* monitor has noted.
Due(f) == f \in Wanted /\ f \in DOMAIN module_mtimes /\ disk[f] # None /\ \E t \in Times(f) : t > module_mtimes[f]

\* Once a watched file has changed since it was first looked at, the process ends
\* to be started again, unless the file or its change goes away, or the monitor
\* has died of a module imported while it counted them or of a source removed
\* under its hands (reloader.py 78-125).
ChangeReloads == \A f \in File : Due(f) ~> (~Due(f) \/ monitor.at \in {"exit", "dead"})

\* Every file that was given to watch_file is looked at.  It holds as long as no file is
\* given while install makes the list of those given before (Concurrent).
AllAreWatched == install = "done" /\ calling = None => global_files \subseteq extra_files
=============================================================================
