------------------------------- MODULE FileTest -------------------------------
(***************************************************************************)
(* TestFileEnvironment of fixture.py: a test writes files, runs scripts that  *)
(* write, move and remove files, and is told after each run which files have  *)
(* been created, deleted and updated.                                        *)
(***************************************************************************)
EXTENDS Integers

CONSTANTS
    Path,        \* paths below base_path
    Above,       \* path -> the path and the directories it is in
    Hidden,      \* paths whose last name begins with a dot
    IgnorePaths, \* ignore_paths
    IgnoreHidden,
    MaxTime,     \* bound on the clock
    MaxWrites,   \* bound on what is done to the files
    None

VARIABLES
    tree,     \* what is at each path: None or [dir, mtime]
    clock,
    writes,   \* how often the tree was written to
    running,  \* None, or files_before of the run under way
    raised,   \* has a run raised?
    known     \* history: what somebody knows who puts together all that a test is told

fileTestVars == <<tree, clock, writes, running, raised, known>>

Within(p) == {q \in Path : p \in Above[q]}
IsDir(t, p) == t[p] # None /\ t[p].dir

File(time) == [dir |-> FALSE, mtime |-> time]
Directory == [dir |-> TRUE, mtime |-> None]

FileTestInit ==
    /\ tree = [p \in Path |-> None] /\ clock = 1 /\ writes = 0
    /\ running = None /\ raised = FALSE /\ known = [p \in Path |-> None]

-----------------------------------------------------------------------------
(* _find_files                                                               *)

\* A mutant: what is hidden or ignored does not hide what is in it.
IgnoredPlain(p) == p \in IgnorePaths \/ (IgnoreHidden /\ p \in Hidden)

\* _ignore_file, for the path or a directory on the way to it.
Ignored(p) == \E q \in Above[p] : q \in IgnorePaths \/ (IgnoreHidden /\ q \in Hidden)

\* A directory has no time, and its entries are looked at after it.
Find(t) == [p \in Path |-> IF Ignored(p) THEN None ELSE t[p]]
Found(files) == {p \in Path : files[p] # None}

-----------------------------------------------------------------------------
(* The tree is written to, by a test or by a script.                         *)

CanWrite(p) == ~IsDir(tree, p) /\ \A q \in Above[p] \ {p} : tree[q] = None \/ IsDir(tree, q)

Written(p, time) ==
    [q \in Path |-> IF q = p THEN File(time)
                    ELSE IF q \in Above[p] THEN Directory ELSE tree[q]]

Counted == writes < MaxWrites /\ writes' = writes + 1

\* writefile makes the directories that are missing.
WriteFile(p) ==
    /\ running = None /\ ~raised /\ CanWrite(p) /\ Counted
    /\ tree' = Written(p, clock)
    /\ known' = [q \in Path |-> IF q \in Above[p] /\ ~Ignored(q) THEN tree'[q] ELSE known[q]]
    /\ UNCHANGED <<clock, running, raised>>

Clear ==
    /\ running = None /\ ~raised /\ Counted
    /\ tree' = [p \in Path |-> None] /\ known' = tree'
    /\ UNCHANGED <<clock, running, raised>>

\* A script writes a file, or moves one there that is older.
ScriptWrites(p) ==
    /\ running # None /\ CanWrite(p) /\ Counted
    /\ \E time \in 1..clock : tree' = Written(p, time)
    /\ UNCHANGED <<clock, running, raised, known>>

ScriptMakesDir(p) ==
    /\ running # None /\ tree[p] = None /\ Counted
    /\ \A q \in Above[p] \ {p} : IsDir(tree, q)
    /\ tree' = [tree EXCEPT ![p] = Directory]
    /\ UNCHANGED <<clock, running, raised, known>>

ScriptRemoves(p) ==
    /\ running # None /\ tree[p] # None /\ Counted
    /\ tree' = [q \in Path |-> IF q \in Within(p) THEN None ELSE tree[q]]
    /\ UNCHANGED <<clock, running, raised, known>>

Tick ==
    /\ clock < MaxTime /\ clock' = clock + 1
    /\ UNCHANGED <<tree, writes, running, raised, known>>

-----------------------------------------------------------------------------
(* run                                                                       *)

Run ==
    /\ running = None /\ ~raised /\ running' = Find(tree)
    /\ UNCHANGED <<tree, clock, writes, raised, known>>

\* ProcResult.__init__
Deleted(before, after) == Found(before) \ Found(after)
Created(before, after) == Found(after) \ Found(before)
Both(before, after) == Found(before) \intersect Found(after)

\* The times of a file and of a directory cannot be compared.
Incomparable(before, after) == {p \in Both(before, after) : before[p].dir # after[p].dir}
Updated(before, after) ==
    {p \in Both(before, after) : ~before[p].dir /\ before[p].mtime < after[p].mtime}

\* The script has ended.  Printing the result raises when there is output, which is
\* bytes that are joined with text, and when there is anything to print about
\* files, since items() has no sort any more; then the return code and what was
\* written to stderr are looked at.
RunEnds(printresult, expect_error, expect_stderr) ==
    /\ running # None /\ running' = None
    /\ LET after == Find(tree)
           changed == Deleted(running, after) \cup Created(running, after) \cup Updated(running, after)
       IN  \E returncode \in {0, 1}, stdout, stderr \in BOOLEAN :
             IF \/ Incomparable(running, after) # {}
                \/ printresult /\ (stdout \/ stderr \/ changed # {})
                \/ ~expect_error /\ returncode # 0
                \/ ~expect_stderr /\ stderr
             THEN raised' = TRUE /\ UNCHANGED known
             ELSE /\ known' = [p \in Path |->
                        CASE p \in Deleted(running, after) -> None
                          [] p \in Created(running, after) \cup Updated(running, after) -> after[p]
                          [] OTHER -> known[p]]
                  /\ raised' = FALSE
    /\ UNCHANGED <<tree, clock, writes>>

FileTestNext ==
    \/ Run \/ Clear \/ Tick
    \/ \E printresult, expect_error, expect_stderr \in BOOLEAN :
          RunEnds(printresult, expect_error, expect_stderr)
    \/ \E p \in Path : WriteFile(p) \/ ScriptWrites(p) \/ ScriptMakesDir(p) \/ ScriptRemoves(p)

FileTestSpec == FileTestInit /\ [][FileTestNext]_fileTestVars

-----------------------------------------------------------------------------

Visible(p) == \A q \in Above[p] : ~(q \in IgnorePaths \/ (IgnoreHidden /\ q \in Hidden))

\* What the runs have told, one after the other, accounts for all there is: put
\* together with what the test wrote itself it is the tree, without anything
\* hidden, and no file is newer than the one that is known (fixture.py 1404-1443,
\* 1539-1560).
ChangesAddUp ==
    running = None /\ ~raised =>
        \A p \in Path :
            IF Visible(p) /\ tree[p] # None
            THEN /\ known[p] # None /\ known[p].dir = tree[p].dir
                 /\ ~tree[p].dir => known[p].mtime >= tree[p].mtime
            ELSE known[p] = None
=============================================================================
