----------------------------- MODULE PoolShutdown -----------------------------
(***************************************************************************)
(* ThreadPool.shutdown, called in the server thread while the workers go   *)
(* on: by the finally clause of serve_forever, without a                   *)
(* force_quit_timeout, once the loop is interrupted or told to stop; and   *)
(* by check_max_zombies in the middle of add_task, with one.               *)
(*                                                                         *)
(* The loop over self.workers is a loop over a list from which every       *)
(* worker that stops removes itself.                                       *)
(***************************************************************************)
EXTENDS ThreadPool

CONSTANT
    JoinTimesOut      \* a worker can outlive worker.join(0.5)

ASSUME ShutdownAssumption == JoinTimesOut \in BOOLEAN

VARIABLES
    sd,               \* how far shutdown has come
    forced,           \* force_quit_timeout is set
    joinAt,           \* position of its loop in self.workers
    joining,          \* the worker it waits for, None once that has ended
    hung_workers,
    zombies           \* the list of zombies is not empty

sdVars == <<sd, forced, joinAt, joining, hung_workers, zombies>>
allVars == <<vars, sdVars>>

\* The variables of a shutdown stay within their types.
ShutdownTypeOK ==
    /\ TypeOK
    /\ sd \in {"none", "tokens", "join", "wait", "kill", "stopped", "killed",
               "failed"}
    /\ forced \in BOOLEAN /\ zombies \in BOOLEAN
    /\ joinAt \in Nat /\ joining \in Ident \cup {None}
    /\ hung_workers \in Seq(Ident)

ShutdownInit ==
    /\ Init
    /\ sd = "none" /\ forced = FALSE /\ joinAt = 1 /\ joining = None
    /\ hung_workers = <<>> /\ zombies = FALSE

-----------------------------------------------------------------------------
\* Control-C in handle_request, or self.running is false.
LeaveLoop ==
    /\ apc = "accept" /\ sd = "none"
    /\ apc' = "stopping" /\ sd' = "tokens" /\ forced' = FALSE
    /\ UNCHANGED <<queue, listVars, checkVars, threadVars, incoming, scan, victim,
                   found, request, joinAt, joining, hung_workers, zombies>>

TooManyZombies ==
    /\ apc = "stopping" /\ sd = "none"
    /\ sd' = "tokens" /\ forced' = TRUE
    /\ UNCHANGED <<vars, joinAt, joining, hung_workers, zombies>>

\* Mutants: tokens overtake the pending requests; one token per idle worker.
PutTokensFirst ==
    /\ sd = "tokens"
    /\ queue' = [i \in 1..Len(workers) |-> SHUTDOWN] \o queue
    /\ sd' = "join" /\ joinAt' = 1 /\ hung_workers' = <<>>
    /\ UNCHANGED <<listVars, checkVars, threadVars, serverVars, request,
                   forced, joining, zombies>>

PutTokensForIdle ==
    /\ sd = "tokens"
    /\ queue' = queue \o [i \in 1..Len(idle_workers) |-> SHUTDOWN]
    /\ sd' = "join" /\ joinAt' = 1 /\ hung_workers' = <<>>
    /\ UNCHANGED <<listVars, checkVars, threadVars, serverVars, request,
                   forced, joining, zombies>>

PutTokens ==
    /\ sd = "tokens"
    /\ queue' = queue \o [i \in 1..Len(workers) |-> SHUTDOWN]
    /\ sd' = "join" /\ joinAt' = 1 /\ hung_workers' = <<>>
    /\ UNCHANGED <<listVars, checkVars, threadVars, serverVars, request,
                   forced, joining, zombies>>

JoinNext ==
    /\ sd = "join" /\ joinAt <= Len(workers)
    /\ joining' = workers[joinAt]
    /\ joinAt' = joinAt + 1
    /\ sd' = "wait"
    /\ UNCHANGED <<vars, forced, hung_workers, zombies>>

Joined ==
    /\ sd = "wait"
    /\ joining = None \/ JoinTimesOut
    /\ hung_workers' = IF joining = None THEN hung_workers
                       ELSE Append(hung_workers, joining)
    /\ joining' = None
    /\ sd' = "join"
    /\ UNCHANGED <<vars, forced, joinAt, zombies>>

CountZombies ==
    /\ sd = "join" /\ joinAt > Len(workers)
    /\ zombies' = \E w \in Ident : dying_threads[w] # "none" /\ Alive(w)
    /\ sd' = IF hung_workers # <<>> \/ zombies' THEN "kill" ELSE "stopped"
    /\ joinAt' = 1
    /\ UNCHANGED <<vars, forced, joining, hung_workers>>

\* self.kill_worker(worker.thread_id), whose steps are those of ThreadPool; it
\* has returned when Record has moved the server thread to "scan".
KillNext ==
    /\ sd = "kill" /\ hung_workers # <<>> /\ apc \in {"stopping", "scan"}
    /\ victim' = Head(hung_workers)
    /\ hung_workers' = Tail(hung_workers)
    /\ apc' = "kill"
    /\ UNCHANGED <<queue, listVars, checkVars, threadVars, incoming, scan, found,
                   request, sd, forced, joinAt, joining, zombies>>

\* An exception of kill_worker leaves shutdown.  Below add_task the server
\* loop survives it, otherwise it ends serve_forever.
KillFailed ==
    /\ sd = "kill" /\ apc = "accept"
    /\ IF forced THEN sd' = "none" /\ UNCHANGED apc
                 ELSE sd' = "failed" /\ apc' = "stopping"
    /\ hung_workers' = <<>>
    /\ UNCHANGED <<queue, listVars, checkVars, threadVars, incoming, scan, victim,
                   found, request, forced, joinAt, joining, zombies>>

AllKilled == sd = "kill" /\ hung_workers = <<>> /\ apc \in {"stopping", "scan"}

KilledUnforced ==
    /\ AllKilled /\ ~forced
    /\ sd' = "killed" /\ apc' = "stopping"
    /\ UNCHANGED <<queue, listVars, checkVars, threadVars, incoming, scan, victim,
                   found, request, forced, joinAt, joining, hung_workers,
                   zombies>>

\* Every worker that is still listed after join(force_quit_timeout) is alive, and
\* so are the zombies.  atexit has no _exithandlers: the AttributeError leaves
\* add_task instead of a ServerExit or of os._exit.
ForceQuit ==
    /\ AllKilled /\ forced
    /\ zombies \/ workers # <<>>
    /\ Refuse
    /\ sd' = "none"
    /\ UNCHANGED <<queue, listVars, checkVars, threadVars, forced, joinAt, joining,
                   hung_workers, zombies>>

EventuallyKilled ==
    /\ AllKilled /\ forced
    /\ ~zombies /\ workers = <<>>
    /\ sd' = "killed" /\ apc' = "stopping"
    /\ UNCHANGED <<queue, listVars, checkVars, threadVars, incoming, scan, victim,
                   found, request, forced, joinAt, joining, hung_workers,
                   zombies>>

\* Mutant: the connection is closed twice, now and by a worker.
RaiseAndQueue ==
    /\ sd \in {"stopped", "killed"} /\ forced
    /\ request' = [request EXCEPT ![incoming] = "dropped"]
    /\ queue' = Append(queue, incoming)
    /\ incoming' = None
    /\ sd' = "tokens" /\ forced' = FALSE
    /\ UNCHANGED <<listVars, checkVars, threadVars, apc, scan, victim, found,
                   joinAt, joining, hung_workers, zombies>>

\* check_max_zombies raises ServerExit, which handle_error lets through; the
\* finally clause of serve_forever shuts the pool down once more.
RaiseServerExit ==
    /\ sd \in {"stopped", "killed"} /\ forced
    /\ request' = [request EXCEPT ![incoming] = "dropped"]
    /\ incoming' = None
    /\ sd' = "tokens" /\ forced' = FALSE
    /\ UNCHANGED <<queue, listVars, checkVars, threadVars, apc, scan, victim,
                   found, joinAt, joining, hung_workers, zombies>>

ShutdownStep ==
    \/ TooManyZombies \/ PutTokens \/ JoinNext \/ Joined \/ CountZombies
    \/ KillNext \/ KillFailed \/ KilledUnforced \/ ForceQuit \/ EventuallyKilled
    \/ RaiseServerExit

KillStep == Kill \/ Untrack \/ Unlist \/ Record

ServerStep ==
    \/ sd = "none" /\ AddTaskStep /\ UNCHANGED sdVars
    \/ sd = "kill" /\ KillStep /\ UNCHANGED sdVars
    \/ ShutdownStep

WorkerStepSeen(w) ==
    /\ WorkerStep(w)
    /\ joining' = IF pc'[w] = "none" /\ joining = w THEN None ELSE joining
    /\ UNCHANGED <<sd, forced, joinAt, hung_workers, zombies>>

ShutdownNext ==
    \/ \E w \in Ident : WorkerStepSeen(w) \/ (Deliver(w) /\ UNCHANGED sdVars)
    \/ sd = "none" /\ (\E t \in Task : Accept(t)) /\ UNCHANGED sdVars
    \/ ServerStep \/ LeaveLoop
    \/ Clock /\ UNCHANGED sdVars

ShutdownSpec == ShutdownInit /\ [][ShutdownNext]_allVars

\* Threads that can run do, applications return, and joins end.
ShutdownFairSpec ==
    /\ ShutdownSpec
    /\ \A w \in Ident : WF_allVars(WorkerStepSeen(w))
    /\ WF_allVars(ServerStep)

-----------------------------------------------------------------------------
(* Properties.                                                             *)

\* Shutdown tokens go behind the connections already queued, so that these are
\* still served; with workers that stop in time none of them is cut short.
PendingRequestsServed ==
    \A t \in Task : sd # "none" /\ request[t] = "open" ~> request[t] = "done"

\* When every living worker is in self.workers at the moment of the shutdown,
\* they all stop and the process can end.
RegisteredWorkersStop ==
    sd = "tokens" /\ (\A w \in Ident : Alive(w) => Contains(workers, w))
        ~> \A w \in Ident : ~Alive(w)

\* With more zombies than max_zombie_threads_before_die the server stops: it does
\* not come back to accept connections.
ZombiesStopTheServer == [][apc = "stopping" => apc' # "accept"]_allVars
=============================================================================
