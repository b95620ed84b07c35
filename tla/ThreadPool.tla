------------------------------ MODULE ThreadPool ------------------------------
(***************************************************************************)
(* The worker pool of paste/httpserver.py (classes ThreadPool and          *)
(* ThreadPoolMixIn).                                                       *)
(*                                                                         *)
(* The server thread accepts connections and hands each of them to         *)
(* add_task, which counts down to the next check for hung workers, may     *)
(* kill and replace workers, may spawn or cull some, and puts the          *)
(* connection on a queue.Queue.  The workers take connections from the     *)
(* queue, register themselves as idle or busy in lists that the server     *)
(* thread reads without a lock, and can be hit at any point by a           *)
(* SystemExit that the server thread raised in them asynchronously.        *)
(*                                                                         *)
(* A thread is identified with its thread id (`Ident`).  The ids of dead   *)
(* threads are reused, as the operating system reuses them.  Clock         *)
(* readings are abstracted to what the limits tell apart: how long a       *)
(* worker has been at its task, how long ago a thread was killed, whether  *)
(* workers were added recently.                                            *)
(***************************************************************************)
EXTENDS Integers, FiniteSets, SequencesExt

CONSTANTS
    Ident,            \* ids of the threads that can be alive at one time
    ThreadLimit,      \* Ident is the limit of the operating system, and
                      \* starting one more fails; otherwise it is a bound of
                      \* the model, and starting waits for a free id
    Task,             \* connections; a closed one stands for the next one
    NWorkers,         \* nworkers
    MaxRequests,      \* max_requests, 0 when off
    SpawnIfUnder,     \* spawn_if_under, 0 when off
    MaxZombies,       \* max_zombie_threads_before_die, 0 when off
    HungCheckPeriod,  \* hung_check_period, 0 when off
    CanKill,          \* kill_thread_limit is set and killthread is importable
    IdleBeforeCull,   \* idle workers above which culling is considered (3)
    SHUTDOWN,         \* ThreadPool.SHUTDOWN
    None              \* no task, no thread

ASSUME PoolAssumption ==
    /\ IsFiniteSet(Ident)
    /\ NWorkers \in Nat \ {0} /\ NWorkers <= Cardinality(Ident)
    /\ MaxRequests \in Nat /\ MaxZombies \in Nat
    /\ HungCheckPeriod \in Nat /\ IdleBeforeCull \in Nat
    /\ SpawnIfUnder \in 0..NWorkers
    /\ CanKill \in BOOLEAN /\ ThreadLimit \in BOOLEAN
    /\ SHUTDOWN \notin Task /\ None \notin Task /\ SHUTDOWN # None
    /\ None \notin Ident

VARIABLES
    queue,            \* the queue.Queue: connections and SHUTDOWN tokens
    workers,          \* self.workers
    idle_workers,     \* self.idle_workers
    worker_tracker,   \* self.worker_tracker: age of the task, "none" if absent
    dying_threads,    \* self.dying_threads: age of the kill, "none" if absent
    requests_since_last_hung_check,
    recentlyAdded,    \* _last_added_new_idle_workers < hung_thread_limit ago
    pc,               \* of each thread; "none": no thread has this id
    job,              \* the task a thread has taken from the queue
    requests_processed,
    exc,              \* the SystemExit of kill_worker is "pending" in the thread
    apc,              \* the server thread
    incoming,         \* the task add_task was called with
    scan,             \* position of kill_hung_threads in self.workers
    victim,           \* thread_id of kill_worker
    found,            \* kill_worker's thread_obj is a thread
    request           \* what became of each connection

serverVars  == <<apc, incoming, scan, victim, found>>
threadVars  == <<pc, job, requests_processed, exc>>
listVars    == <<workers, idle_workers, worker_tracker, dying_threads>>
checkVars   == <<requests_since_last_hung_check, recentlyAdded>>
vars == <<queue, listVars, checkVars, threadVars, serverVars, request>>

\* A connection that is over was answered, or was dropped: refused by add_task,
\* or cut short with its worker.
Ended == {"none", "done", "dropped"}

\* The pool's lists, its queue and its workers stay within their types.
TypeOK ==
    /\ queue \in Seq(Task \cup {SHUTDOWN})
    /\ workers \in Seq(Ident) /\ idle_workers \in Seq(Ident)
    /\ worker_tracker \in [Ident -> {"none", "fresh", "hung", "overdue"}]
    /\ dying_threads \in [Ident -> {"none", "dying", "zombie"}]
    /\ requests_since_last_hung_check \in 0..HungCheckPeriod
    /\ recentlyAdded \in BOOLEAN
    /\ pc \in [Ident -> {"none", "starting", "loop", "got", "running", "after",
                         "exit", "retire", "replace", "ending"}]
    /\ job \in [Ident -> Task \cup {None}]
    /\ requests_processed \in [Ident -> 0..(MaxRequests + 1)]
    /\ exc \in [Ident -> {"none", "pending"}]
    /\ apc \in {"accept", "scan", "kill", "untrack", "unlist", "record",
                "zombies", "spawn", "put", "stopping"}
    /\ incoming \in Task \cup {None}
    /\ scan \in Nat \ {0} /\ victim \in Ident \cup {None} /\ found \in BOOLEAN
    /\ request \in [Task -> Ended \cup {"open"}]

-----------------------------------------------------------------------------
(* Threads. *)

Alive(w) == pc[w] # "none"              \* thread_exists: id in threading._active
Free == {w \in Ident : ~Alive(w)}

\* The outcomes of n calls of add_worker_thread: the threads started, fewer
\* than n when the operating system refuses to start another one.
Spawnable(n) ==
    IF n <= Cardinality(Free) THEN kSubset(n, Free)
    ELSE IF ThreadLimit THEN {Free} ELSE {}

Init ==
    /\ queue = <<>> /\ workers = <<>> /\ idle_workers = <<>>
    /\ worker_tracker = [w \in Ident |-> "none"]
    /\ dying_threads = [w \in Ident |-> "none"]
    /\ requests_since_last_hung_check = 0
    /\ recentlyAdded = FALSE
    /\ \E S \in kSubset(NWorkers, Ident) :
          pc = [w \in Ident |-> IF w \in S THEN "starting" ELSE "none"]
    /\ job = [w \in Ident |-> None]
    /\ requests_processed = [w \in Ident |-> 0]
    /\ exc = [w \in Ident |-> "none"]
    /\ apc = "accept" /\ incoming = None
    /\ scan = 1 /\ victim = None /\ found = FALSE
    /\ request = [t \in Task |-> "none"]

-----------------------------------------------------------------------------
(* worker_thread_callback, one action per point at which another thread    *)
(* can see the difference.                                                 *)

Register(w) ==
    /\ pc[w] = "starting"
    /\ workers' = Append(workers, w)
    /\ idle_workers' = Append(idle_workers, w)
    /\ pc' = [pc EXCEPT ![w] = "loop"]
    /\ UNCHANGED <<queue, worker_tracker, dying_threads, checkVars, job,
                   requests_processed, exc, serverVars, request>>

Worn(w) == MaxRequests # 0 /\ MaxRequests < requests_processed[w]

\* Mutant: add_replacement_worker is not set.
RetireUnreplaced(w) ==
    /\ pc[w] = "loop" /\ Worn(w)
    /\ pc' = [pc EXCEPT ![w] = "exit"]
    /\ UNCHANGED <<queue, listVars, checkVars, job, requests_processed, exc,
                   serverVars, request>>

Retire(w) ==
    /\ pc[w] = "loop" /\ Worn(w)
    /\ pc' = [pc EXCEPT ![w] = "retire"]
    /\ UNCHANGED <<queue, listVars, checkVars, job, requests_processed, exc,
                   serverVars, request>>

\* Mutant: a stack instead of a queue.
TakeNewest(w) ==
    /\ pc[w] = "loop" /\ ~Worn(w)
    /\ queue # <<>>
    /\ queue' = Front(queue)
    /\ pc' = [pc EXCEPT ![w] = "got"]
    /\ job' = [job EXCEPT ![w] = Last(queue)]
    /\ UNCHANGED <<listVars, checkVars, requests_processed, exc, serverVars, request>>

\* runnable = self.queue.get()
Take(w) ==
    /\ pc[w] = "loop" /\ ~Worn(w)
    /\ queue # <<>>
    /\ queue' = Tail(queue)
    /\ IF Head(queue) = SHUTDOWN
          THEN pc' = [pc EXCEPT ![w] = "exit"] /\ UNCHANGED job
          ELSE pc' = [pc EXCEPT ![w] = "got"]
               /\ job' = [job EXCEPT ![w] = Head(queue)]
    /\ UNCHANGED <<listVars, checkVars, requests_processed, exc, serverVars, request>>

\* Counted only while max_requests is in force.
Begin(w) ==
    /\ pc[w] = "got"
    /\ idle_workers' = RemoveFirst(idle_workers, w)
    /\ worker_tracker' = [worker_tracker EXCEPT ![w] = "fresh"]
    /\ requests_processed' = IF MaxRequests = 0 THEN requests_processed
                             ELSE [requests_processed EXCEPT ![w] = @ + 1]
    /\ pc' = [pc EXCEPT ![w] = "running"]
    /\ UNCHANGED <<queue, workers, dying_threads, checkVars, job, exc,
                   serverVars, request>>

\* Mutant: the inner finally clause is missing.
FinishTracked(w) ==
    /\ pc[w] = "running"
    /\ job' = [job EXCEPT ![w] = None]
    /\ request' = IF job[w] = None THEN request
                  ELSE [request EXCEPT ![job[w]] = "done"]
    /\ pc' = [pc EXCEPT ![w] =
                 IF dying_threads[w] # "none" THEN "exit" ELSE "after"]
    /\ UNCHANGED <<queue, listVars, checkVars, requests_processed, exc,
                   serverVars>>

\* runnable() returns, or was cut short by Deliver and has returned since;
\* a thread that finds itself among the dying ones leaves.
Finish(w) ==
    /\ pc[w] = "running"
    /\ job' = [job EXCEPT ![w] = None]
    /\ request' = IF job[w] = None THEN request
                  ELSE [request EXCEPT ![job[w]] = "done"]
    /\ worker_tracker' = [worker_tracker EXCEPT ![w] = "none"]
    /\ pc' = [pc EXCEPT ![w] =
                 IF dying_threads[w] # "none" THEN "exit" ELSE "after"]
    /\ UNCHANGED <<queue, workers, idle_workers, dying_threads, checkVars,
                   requests_processed, exc, serverVars>>

BackToIdle(w) ==
    /\ pc[w] = "after"
    /\ idle_workers' = Append(idle_workers, w)
    /\ pc' = [pc EXCEPT ![w] = "loop"]
    /\ UNCHANGED <<queue, workers, worker_tracker, dying_threads, checkVars,
                   job, requests_processed, exc, serverVars, request>>

\* Mutant: the worker stays in idle_workers.
CleanUpStillIdle(w) ==
    /\ pc[w] \in {"exit", "retire"}
    /\ worker_tracker' = [worker_tracker EXCEPT ![w] = "none"]
    /\ workers' = RemoveFirst(workers, w)
    /\ dying_threads' = [dying_threads EXCEPT ![w] = "none"]
    /\ pc' = [pc EXCEPT ![w] = IF pc[w] = "retire" THEN "replace" ELSE "ending"]
    /\ UNCHANGED <<queue, idle_workers, checkVars, job, requests_processed, exc,
                   serverVars, request>>

\* The outer finally clause.
CleanUp(w) ==
    /\ pc[w] \in {"exit", "retire"}
    /\ worker_tracker' = [worker_tracker EXCEPT ![w] = "none"]
    /\ idle_workers' = RemoveFirst(idle_workers, w)
    /\ workers' = RemoveFirst(workers, w)
    /\ dying_threads' = [dying_threads EXCEPT ![w] = "none"]
    /\ pc' = [pc EXCEPT ![w] = IF pc[w] = "retire" THEN "replace" ELSE "ending"]
    /\ UNCHANGED <<queue, checkVars, job, requests_processed, exc, serverVars, request>>

\* add_replacement_worker; the retiring thread is still alive.
Replace(w) ==
    /\ pc[w] = "replace"
    /\ \E S \in Spawnable(1) :
          pc' = [v \in Ident |-> IF v = w THEN "ending"
                                 ELSE IF v \in S THEN "starting" ELSE pc[v]]
    /\ UNCHANGED <<queue, listVars, checkVars, job, requests_processed, exc,
                   serverVars, request>>

\* The thread is gone from threading._active and its id can be reused.
Vanish(w) ==
    /\ pc[w] = "ending"
    /\ pc' = [pc EXCEPT ![w] = "none"]
    /\ requests_processed' = [requests_processed EXCEPT ![w] = 0]
    /\ exc' = [exc EXCEPT ![w] = "none"]
    /\ found' = (found /\ victim # w)
    /\ UNCHANGED <<queue, listVars, checkVars, job, apc, incoming, scan, victim,
                   request>>

-----------------------------------------------------------------------------
(* The SystemExit of killthread.async_raise reaches its thread.            *)

\* In the application: process_request_in_thread catches BaseException,
\* reports it, closes the connection and returns.
DeliverInTask(w) ==
    /\ exc[w] = "pending" /\ pc[w] = "running"
    /\ exc' = [exc EXCEPT ![w] = "none"]
    /\ job' = [job EXCEPT ![w] = None]
    /\ request' = IF job[w] = None THEN request
                  ELSE [request EXCEPT ![job[w]] = "dropped"]
    /\ UNCHANGED <<queue, listVars, checkVars, pc, requests_processed,
                   serverVars>>

\* Mutant: the task goes back to the queue.
DeliverAndRequeue(w) ==
    /\ exc[w] = "pending" /\ pc[w] = "got"
    /\ exc' = [exc EXCEPT ![w] = "none"]
    /\ job' = [job EXCEPT ![w] = None]
    /\ queue' = Append(queue, job[w])
    /\ pc' = [pc EXCEPT ![w] = "exit"]
    /\ UNCHANGED <<listVars, checkVars, requests_processed, serverVars, request>>

\* Anywhere else it is not an Exception and ends the thread: before the
\* thread registered itself, between two tasks, or with a task in hand.
DeliverInLoop(w) ==
    /\ exc[w] = "pending" /\ pc[w] \in {"starting", "loop", "got", "running", "after"}
    /\ exc' = [exc EXCEPT ![w] = "none"]
    /\ job' = [job EXCEPT ![w] = None]
    /\ request' = IF job[w] = None THEN request
                  ELSE [request EXCEPT ![job[w]] = "dropped"]
    /\ pc' = [pc EXCEPT ![w] = IF @ = "starting" THEN "ending" ELSE "exit"]
    /\ UNCHANGED <<queue, listVars, checkVars, requests_processed, serverVars>>

WorkerStep(w) ==
    \/ Register(w) \/ Retire(w) \/ Take(w) \/ Begin(w) \/ Finish(w)
    \/ BackToIdle(w) \/ CleanUp(w) \/ Replace(w) \/ Vanish(w)

Deliver(w) == DeliverInTask(w) \/ DeliverInLoop(w)

-----------------------------------------------------------------------------
(* The server thread: process_request and add_task.                        *)

\* An exception other than ServerExit leaves add_task: socketserver reports
\* it and closes the connection, and the server goes on.
Refuse ==
    /\ request' = [request EXCEPT ![incoming] = "dropped"]
    /\ incoming' = None
    /\ apc' = "accept"
    /\ scan' = 1 /\ victim' = None /\ found' = FALSE

\* kill_hung_threads returns at once when there is no kill limit.
Accept(t) ==
    /\ apc = "accept" /\ request[t] \in Ended
    /\ request' = [request EXCEPT ![t] = "open"]
    /\ incoming' = t
    /\ LET n == requests_since_last_hung_check + 1
           due == HungCheckPeriod # 0 /\ n > HungCheckPeriod
       IN /\ requests_since_last_hung_check' =
                IF due \/ HungCheckPeriod = 0 THEN 0 ELSE n
          /\ apc' = IF due /\ CanKill THEN "scan" ELSE "spawn"
    /\ UNCHANGED <<queue, listVars, recentlyAdded, threadVars, scan, victim,
                   found>>

\* One turn of the loop of kill_hung_threads; self.workers may have changed
\* since the turn before.
Scan ==
    /\ apc = "scan"
    /\ IF scan > Len(workers)
          THEN apc' = "zombies" /\ scan' = 1 /\ UNCHANGED victim
          ELSE /\ scan' = scan + 1
               /\ IF worker_tracker[workers[scan]] = "overdue"
                     THEN apc' = "kill" /\ victim' = workers[scan]
                     ELSE UNCHANGED <<apc, victim>>
    /\ UNCHANGED <<queue, listVars, checkVars, threadVars, incoming, found,
                   request>>

\* kill_worker up to async_raise, which does nothing for an id nobody has.
Kill ==
    /\ apc = "kill"
    /\ found' = Alive(victim)
    /\ exc' = IF Alive(victim) THEN [exc EXCEPT ![victim] = "pending"] ELSE exc
    /\ apc' = "untrack"
    /\ UNCHANGED <<queue, listVars, checkVars, pc, job, requests_processed,
                   incoming, scan, victim, request>>

\* del self.worker_tracker[thread_id], then "thread_obj in self.workers".
Untrack ==
    /\ apc = "untrack"
    /\ worker_tracker' = [worker_tracker EXCEPT ![victim] = "none"]
    /\ apc' = IF found /\ Contains(workers, victim) THEN "unlist" ELSE "record"
    /\ UNCHANGED <<queue, workers, idle_workers, dying_threads, checkVars,
                   threadVars, incoming, scan, victim, found, request>>

\* self.workers.remove(thread_obj), which fails if the worker has removed
\* itself since the test.
Unlist ==
    /\ apc = "unlist"
    /\ IF found /\ Contains(workers, victim)
          THEN /\ workers' = RemoveFirst(workers, victim)
               /\ apc' = "record"
               /\ UNCHANGED <<incoming, scan, victim, found, request>>
          ELSE Refuse /\ UNCHANGED workers
    /\ UNCHANGED <<queue, idle_workers, worker_tracker, dying_threads, checkVars,
                   threadVars>>

Record ==
    /\ apc = "record"
    /\ dying_threads' = [dying_threads EXCEPT ![victim] = "dying"]
    /\ \E S \in Spawnable(1) :
          pc' = [w \in Ident |-> IF w \in S THEN "starting" ELSE pc[w]]
    /\ IF Free = {}
          THEN Refuse
          ELSE /\ apc' = "scan" /\ victim' = None /\ found' = FALSE
               /\ UNCHANGED <<incoming, scan, request>>
    /\ UNCHANGED <<queue, workers, idle_workers, worker_tracker, checkVars, job,
                   requests_processed, exc>>

\* check_max_zombies; it deletes the entry of a dead thread from the dictionary
\* it is iterating over.
CheckZombies ==
    LET gone    == {w \in Ident : dying_threads[w] # "none" /\ ~Alive(w)}
        zombies == {w \in Ident : dying_threads[w] = "zombie" /\ Alive(w)}
    IN  /\ apc = "zombies"
        /\ IF MaxZombies # 0 /\ gone # {}
              THEN /\ \E w \in gone :
                        dying_threads' = [dying_threads EXCEPT ![w] = "none"]
                   /\ Refuse
              ELSE /\ apc' = IF MaxZombies # 0 /\ Cardinality(zombies) > MaxZombies
                                THEN "stopping" ELSE "spawn"
                   /\ UNCHANGED <<dying_threads, incoming, scan, victim, found,
                                  request>>
        /\ UNCHANGED <<queue, workers, idle_workers, worker_tracker, checkVars,
                       threadVars>>

Busy == Cardinality({i \in DOMAIN workers : worker_tracker[workers[i]] = "fresh"})

SpawnMore ==
    /\ apc = "spawn"
    /\ idle_workers = <<>> /\ Busy < SpawnIfUnder
    /\ recentlyAdded' = TRUE
    /\ \E S \in Spawnable(SpawnIfUnder - Busy) :
          pc' = [w \in Ident |-> IF w \in S THEN "starting" ELSE pc[w]]
    /\ IF Cardinality(Free) < SpawnIfUnder - Busy
          THEN Refuse
          ELSE /\ apc' = "put"
               /\ UNCHANGED <<incoming, scan, victim, found, request>>
    /\ UNCHANGED <<queue, listVars, requests_since_last_hung_check, job,
                   requests_processed, exc>>

NoSpawn ==
    /\ apc = "spawn"
    /\ idle_workers # <<>> \/ Busy >= SpawnIfUnder
    /\ apc' = "put"
    /\ UNCHANGED <<queue, listVars, checkVars, threadVars, incoming, scan, victim,
                   found, request>>

Culled ==
    IF /\ Len(workers) > NWorkers
       /\ Len(idle_workers) > IdleBeforeCull
       /\ ~recentlyAdded
    THEN Len(workers) - NWorkers ELSE 0

Put ==
    /\ apc = "put"
    /\ queue' = queue \o [i \in 1..Culled |-> SHUTDOWN] \o <<incoming>>
    /\ incoming' = None
    /\ apc' = "accept"
    /\ UNCHANGED <<listVars, checkVars, threadVars, scan, victim, found,
                   request>>

AddTaskStep ==
    \/ Scan \/ Kill \/ Untrack \/ Unlist \/ Record \/ CheckZombies
    \/ SpawnMore \/ NoSpawn \/ Put

-----------------------------------------------------------------------------
(* track_threads may be called from any thread; like check_max_zombies it  *)
(* deletes from the dictionary it iterates over.                           *)
TrackThreads ==
    /\ \E w \in Free :
          /\ dying_threads[w] # "none"
          /\ dying_threads' = [dying_threads EXCEPT ![w] = "none"]
    /\ UNCHANGED <<queue, workers, idle_workers, worker_tracker, checkVars,
                   threadVars, serverVars, request>>

(* Time passes: hung_thread_limit, kill_thread_limit, dying_limit.  For    *)
(* kill_hung_threads no task becomes overdue while it sweeps the workers:  *)
(* it reads the clock once, before the loop.                               *)
Sweeping == apc \in {"scan", "kill", "untrack", "unlist", "record"}

AgeTask(w) ==
    /\ \/ /\ worker_tracker[w] = "fresh"
          /\ worker_tracker' = [worker_tracker EXCEPT ![w] = "hung"]
       \/ /\ worker_tracker[w] = "hung" /\ CanKill /\ ~Sweeping
          /\ worker_tracker' = [worker_tracker EXCEPT ![w] = "overdue"]
    /\ UNCHANGED <<queue, workers, idle_workers, dying_threads, checkVars,
                   threadVars, serverVars, request>>

AgeKill(w) ==
    /\ dying_threads[w] = "dying" /\ MaxZombies # 0
    /\ dying_threads' = [dying_threads EXCEPT ![w] = "zombie"]
    /\ UNCHANGED <<queue, workers, idle_workers, worker_tracker, checkVars,
                   threadVars, serverVars, request>>

AgeAdded ==
    /\ recentlyAdded
    /\ recentlyAdded' = FALSE
    /\ UNCHANGED <<queue, listVars, requests_since_last_hung_check, threadVars,
                   serverVars, request>>

Clock == AgeAdded \/ \E w \in Ident : AgeTask(w) \/ AgeKill(w)

Next ==
    \/ \E w \in Ident : WorkerStep(w) \/ Deliver(w)
    \/ \E t \in Task : Accept(t)
    \/ AddTaskStep \/ TrackThreads \/ Clock

Spec == Init /\ [][Next]_vars

\* The interpreter runs every thread that can run, and applications return.
\* Nothing makes connections arrive.
Fairness ==
    /\ \A w \in Ident : WF_vars(WorkerStep(w))
    /\ WF_vars(AddTaskStep)

FairSpec == Spec /\ Fairness

-----------------------------------------------------------------------------
(* Properties.                                                             *)

Queued(t) == \E i \in DOMAIN queue : queue[i] = t
Held(t)   == \E w \in Ident : job[w] = t

\* An accepted connection is at every moment in exactly one place: with the
\* server thread in add_task, once in the queue, or in the hands of one worker;
\* and whatever is in one of these places has not been answered, refused or
\* lost.  So no connection is forgotten and none is processed twice, whatever
\* workers are killed, replaced, spawned or culled meanwhile.
ConnectionInOnePlace ==
    /\ \A t \in Task : request[t] = "open" <=> Queued(t) \/ Held(t) \/ incoming = t
    /\ \A i, j \in DOMAIN queue : i # j /\ queue[i] = queue[j] => queue[i] = SHUTDOWN
    /\ \A w, v \in Ident : w # v /\ job[w] = job[v] => job[w] = None
    /\ \A w \in Ident : job[w] # None => ~Queued(job[w]) /\ job[w] # incoming
    /\ incoming # None => ~Queued(incoming)

\* A worker is in idle_workers once while it waits for the queue, and nothing
\* that is running or dead is left in the list: a leftover would keep add_task
\* from spawning workers for good, and would let it cull busy ones.
IdleListExact ==
    /\ \A i, j \in DOMAIN idle_workers : idle_workers[i] = idle_workers[j] => i = j
    /\ \A w \in Ident : pc[w] \in {"loop", "got"} => Contains(idle_workers, w)
    /\ \A w \in ToSet(idle_workers) : pc[w] \in {"loop", "got", "retire", "exit"}

\* Only a thread that runs a task, or has just been thrown out of one, has an
\* entry in worker_tracker: a leftover would age and get an innocent thread
\* killed.
NoLeftoverTracking ==
    \A w \in Ident : worker_tracker[w] # "none" => pc[w] \in {"running", "exit"}

\* While nothing is killed or culled, at least nworkers threads are serving, or
\* about to, or about to start their replacement: max_requests replaces workers
\* without ever draining the pool.
PoolKeepsItsSize ==
    Cardinality({w \in Ident : pc[w] \notin {"none", "exit", "ending"}}) >= NWorkers

\* Seen from outside, the pool is a line of tasks: tokens, threads and lists
\* do not show.
TaskAt(q) == {i \in DOMAIN q : q[i] # SHUTDOWN}

Tasks(q) ==
    LET at == TaskAt(q)
        Nth(n) == CHOOSE i \in at : Cardinality({j \in at : j <= i}) = n
    IN  [n \in 1..Cardinality(at) |-> q[Nth(n)]]

Pool == INSTANCE TaskDispatch WITH
            waiting <- Tasks(queue),
            begun   <- {job[w] : w \in Ident} \ {None}

\* The pool without kills implements the line: connections are begun in the
\* order in which they were accepted, each of them once, and all of them are
\* begun and finished however often workers replace themselves or are added.
ServesInOrder == Pool!FairSpec

\* Killing workers may cut tasks short, and still changes neither the order nor
\* the number of times a connection is begun.
ServesInOrderEvenIfKilled == Pool!Spec
=============================================================================
