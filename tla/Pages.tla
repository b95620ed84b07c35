-------------------------------- MODULE Pages --------------------------------
(***************************************************************************)
(* Pages that are Python files (paste/urlparser.py): each request of a page  *)
(* looks for the module of its file in sys.modules, or makes, stores and     *)
(* runs it, and calls the application it finds in it.  Requests run in        *)
(* threads, and the files stay as they are.                                   *)
(*                                                                           *)
(* A directory is the sequence of the names on its path, and a module name    *)
(* the sequence of what its dots separate.                                    *)
(***************************************************************************)
EXTENDS Integers, Sequences

CONSTANTS
    Threads, Root,   \* threads; the directory of the first parser
    PageFiles,       \* [dir, name]: pages, dir from the root
    Broken,          \* those whose code raises
    BaseNames,       \* values of base_python_name of the first parser
    ReadOnly,        \* directories that cannot be written to
    MaxModules       \* bound: modules made

NoModule == 0        \* no module

VARIABLES
    base,            \* base_python_name of the first parser
    sysModules,      \* sys.modules: from names to modules
    made,            \* modules in the order they were made: [page, state]
    inits,           \* directories with an __init__.py
    at               \* what each thread does: [step, page, module]

pagesVars == <<base, sysModules, made, inits, at>>

Idle == [step |-> "idle"]

\* make_directory appends the name of each directory.
ModuleName(page) == base \o page.dir \o <<page.name>>
Directory(page) == Root \o page.dir

PagesInit ==
    /\ base \in BaseNames /\ sysModules = << >> /\ made = <<>> /\ inits = {}
    /\ at = [t \in Threads |-> Idle]

Request(t, page) ==
    /\ at[t] = Idle
    /\ at' = [at EXCEPT ![t] = [step |-> "load", page |-> page, module |-> NoModule]]
    /\ UNCHANGED <<base, sysModules, made, inits>>

Has(t, module) == at' = [at EXCEPT ![t].step = "find", ![t].module = module]

\* load_module_from_name: the first look, and an __init__.py beside the file.
Load(t) ==
    LET name == ModuleName(at[t].page)
        directory == Directory(at[t].page)
    IN  /\ at[t].step = "load"
        /\ IF name \in DOMAIN sysModules THEN Has(t, sysModules[name]) /\ UNCHANGED inits
           ELSE IF directory \in ReadOnly \ inits THEN Has(t, NoModule) /\ UNCHANGED inits
           ELSE at' = [at EXCEPT ![t].step = "again"] /\ inits' = inits \cup {directory}
        /\ UNCHANGED <<base, sysModules, made>>

\* The same for the parents of the module, as far up as its name has dots: nothing but
\* an __init__.py comes of a directory.
ParentInits(page) ==
    LET name == ModuleName(page)
        Up(s, n) == SubSeq(s, 1, Len(s) - n)
        Reached(n) ==
            \A m \in 1..n : /\ Up(name, m) \notin DOMAIN sysModules
                            /\ m < n => Up(Directory(page), m) \notin ReadOnly \ inits
    IN  {Up(Directory(page), n) : n \in {m \in 1..(Len(name) - 1) : Reached(m)}} \ ReadOnly

\* The second look; a new module is stored under the last part of its name before it is
\* run.
Store(t) ==
    LET page == at[t].page
    IN  /\ at[t].step = "again"
        /\ IF ModuleName(page) \in DOMAIN sysModules
           THEN Has(t, sysModules[ModuleName(page)]) /\ UNCHANGED <<sysModules, made, inits>>
           ELSE /\ Len(made) < MaxModules
                /\ inits' = inits \cup ParentInits(page)
                /\ made' = Append(made, [page |-> page, state |-> "running"])
                /\ sysModules' = [n \in DOMAIN sysModules \cup {<<page.name>>} |->
                                    IF n = <<page.name>> THEN Len(made') ELSE sysModules[n]]
                /\ at' = [at EXCEPT ![t].step = "run", ![t].module = Len(made')]
        /\ UNCHANGED base

\* exec_module; an exception leaves the module where it was stored.
Run(t) ==
    LET page == at[t].page
    IN  /\ at[t].step = "run"
        /\ made' = [made EXCEPT ![at[t].module].state = IF page \in Broken THEN "failed" ELSE "done"]
        /\ at' = [at EXCEPT ![t] = IF page \in Broken THEN Idle ELSE [@ EXCEPT !.step = "find"]]
        /\ UNCHANGED <<base, sysModules, inits>>

\* make_py: a module that was not run to its end may have no application yet.
Find(t) ==
    LET module == at[t].module
    IN  /\ at[t].step = "find"
        /\ \/ at' = [at EXCEPT ![t].step = "served"] /\ module # NoModule
           \/ at' = [at EXCEPT ![t].step = "notfound"] /\ (module # NoModule => made[module].state # "done")
        /\ UNCHANGED <<base, sysModules, made, inits>>

Answer(t) ==
    /\ at[t].step \in {"served", "notfound"} /\ at' = [at EXCEPT ![t] = Idle]
    /\ UNCHANGED <<base, sysModules, made, inits>>

PagesNext ==
    \E t \in Threads :
        \/ \E page \in PageFiles : Request(t, page)
        \/ Load(t) \/ Store(t) \/ Run(t) \/ Find(t) \/ Answer(t)

PagesSpec == PagesInit /\ [][PagesNext]_pagesVars

-----------------------------------------------------------------------------

\* A page in a package is answered by the application of its own file, and of all of it,
\* whatever other threads load, and whatever pages have its name (urlparser.py 365-418).
OwnPageAnswers ==
    \A t \in Threads :
        at[t].step = "served" /\ Len(ModuleName(at[t].page)) > 1 =>
            made[at[t].module] = [page |-> at[t].page, state |-> "done"]

\* The same of every page.  It does not hold: a page without a package is looked for under
\* the name that other pages, too, are stored under, and before they have been run.
EveryPageAnswers ==
    \A t \in Threads :
        at[t].step = "served" => made[at[t].module] = [page |-> at[t].page, state |-> "done"]

\* A page that is there, and runs, is found.  It does not hold either.
EveryPageIsFound ==
    \A t \in Threads : at[t].step = "notfound" => Directory(at[t].page) \in ReadOnly
=============================================================================
