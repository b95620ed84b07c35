--------------------------- MODULE ThreadPoolProofs ---------------------------
(***************************************************************************)
(* Theorems about ThreadPool, for every number of threads, connections and *)
(* workers and every setting of the options: its types; where connections  *)
(* are; what the workers and the server thread share without a lock        *)
(* (worker_tracker, idle_workers, self.workers); the number of workers;    *)
(* and the order of the tasks.  And theorems about PoolShutdown: what      *)
(* holds of the pool while it serves holds while it is shut down, in       *)
(* whichever way that is and whichever of its steps fail.                  *)
(***************************************************************************)
EXTENDS PoolShutdown, SequenceTheorems, FiniteSetTheorems, WellFoundedInduction, TLAPS

\* A nonempty set of positions has a least one.
LEMMA MinPosition ==
    ASSUME NEW I \in SUBSET Nat, I # {}
    PROVE  Min(I) \in I
<1>1. PICK x \in I : \A y \in I : ~(<<y, x>> \in OpToRel(<, Nat))
  BY WFMin, NatLessThanWellFounded
<1>2. ASSUME NEW y \in I PROVE x <= y
  <2>1. x \in Nat /\ y \in Nat
    OBVIOUS
  <2>2. ~(y < x)
    BY <1>1, <2>1, Zenon DEF OpToRel
  <2>3. QED
    BY <2>1, <2>2
<1>3. QED
  BY <1>2 DEF Min

\* list.remove leaves a list over the same elements.
LEMMA RemoveFirstType ==
    ASSUME NEW S, NEW s \in Seq(S), NEW e
    PROVE  RemoveFirst(s, e) \in Seq(S)
<1>1. CASE ~\E i \in 1..Len(s) : s[i] = e
  BY <1>1 DEF RemoveFirst
<1>2. CASE \E i \in 1..Len(s) : s[i] = e
  <2> DEFINE I == {i \in 1..Len(s) : s[i] = e}
             k == Min(I)
  <2>1. k \in 1..Len(s)
    <3>1. I \in SUBSET Nat /\ I # {}
      BY <1>2
    <3>2. QED
      BY <3>1, MinPosition
  <2>2. SelectInSeq(s, LAMBDA v : v = e) = k
    BY <2>1, <1>2 DEF SelectInSeq
  <2>3. RemoveFirst(s, e) = SubSeq(s, 1, k - 1) \o SubSeq(s, k + 1, Len(s))
    BY <1>2, <2>2 DEF RemoveFirst, RemoveAt
  <2>4. SubSeq(s, 1, k - 1) \in Seq(S) /\ SubSeq(s, k + 1, Len(s)) \in Seq(S)
    <3> HIDE DEF I, k
    <3>1. /\ Len(s) \in Int /\ k \in Int /\ k - 1 \in Int /\ k + 1 \in Int
          /\ \A i \in 1..(k - 1) : s[i] \in S
          /\ \A i \in (k + 1)..Len(s) : s[i] \in S
      BY <2>1
    <3>2. QED
      BY <3>1, SubSeqProperties
  <2>5. QED
    BY <2>3, <2>4, ConcatProperties
<1>3. QED
  BY <1>1, <1>2

-----------------------------------------------------------------------------
(* Types.                                                                  *)

\* The worker that holds a new task has not yet used up its requests.
Unworn ==
    MaxRequests # 0 =>
        \A w \in Ident : pc[w] = "got" => requests_processed[w] <= MaxRequests

\* The server thread holds a connection exactly while it is inside add_task.
ServerHolds == apc # "accept" <=> incoming \in Task

TypeInv == TypeOK /\ Unworn /\ ServerHolds

LEMMA InitTyped == Init => TypeInv
<1> SUFFICES ASSUME Init PROVE TypeInv
  OBVIOUS
<1>1. /\ queue \in Seq(Task \cup {SHUTDOWN})
      /\ workers \in Seq(Ident) /\ idle_workers \in Seq(Ident)
  BY DEF Init
<1>2. pc \in [Ident -> {"none", "starting"}]
  BY DEF Init
<1>3. /\ requests_processed \in [Ident -> 0..(MaxRequests + 1)]
      /\ requests_since_last_hung_check \in 0..HungCheckPeriod
  BY PoolAssumption DEF Init
<1>4. /\ worker_tracker \in [Ident -> {"none", "fresh", "hung", "overdue"}]
      /\ dying_threads \in [Ident -> {"none", "dying", "zombie"}]
      /\ job \in [Ident -> Task \cup {None}]
      /\ exc \in [Ident -> {"none", "pending"}]
      /\ request \in [Task -> Ended \cup {"open"}]
  BY DEF Init, Ended
<1>5. /\ recentlyAdded \in BOOLEAN /\ found \in BOOLEAN
      /\ apc = "accept" /\ incoming = None /\ scan = 1 /\ victim = None
  BY DEF Init
<1>6. TypeOK
  BY <1>1, <1>2, <1>3, <1>4, <1>5 DEF TypeOK
<1>7. QED
  BY <1>2, <1>5, <1>6, PoolAssumption DEF TypeInv, Unworn, ServerHolds

\* Workers leave the server thread and its connection alone.
LEMMA WorkerTyped ==
    ASSUME TypeOK, Unworn, NEW w \in Ident, WorkerStep(w)
    PROVE  TypeOK' /\ Unworn' /\ UNCHANGED <<apc, incoming>>
<1> USE PoolAssumption DEF TypeOK, Unworn, listVars, checkVars, threadVars, serverVars
<1>1. CASE Register(w)
  <2>1. workers' \in Seq(Ident) /\ idle_workers' \in Seq(Ident)
    BY <1>1, AppendProperties DEF Register
  <2>2. QED
    BY <1>1, <2>1 DEF Register
<1>2. CASE Retire(w)
  BY <1>2 DEF Retire
<1>3. CASE Take(w)
  <2>1. Head(queue) \in Task \cup {SHUTDOWN} /\ queue' \in Seq(Task \cup {SHUTDOWN})
    BY <1>3, HeadTailProperties DEF Take
  <2>2. CASE Head(queue) = SHUTDOWN
    BY <1>3, <2>1, <2>2 DEF Take
  <2>3. CASE Head(queue) # SHUTDOWN
    <3>1. job' \in [Ident -> Task \cup {None}]
      BY <1>3, <2>1, <2>3 DEF Take
    <3>2. MaxRequests # 0 => requests_processed[w] <= MaxRequests
      BY <1>3 DEF Take, Worn
    <3>3. Unworn'
      BY <1>3, <2>3, <3>2 DEF Take
    <3>4. QED
      BY <1>3, <2>1, <2>3, <3>1, <3>3 DEF Take
  <2>4. QED
    BY <2>2, <2>3
<1>4. CASE Begin(w)
  <2>1. idle_workers' \in Seq(Ident)
    BY <1>4, RemoveFirstType DEF Begin
  <2>2. QED
    BY <1>4, <2>1 DEF Begin
<1>5. CASE Finish(w)
  BY <1>5 DEF Finish, Ended
<1>6. CASE BackToIdle(w)
  <2>1. idle_workers' \in Seq(Ident)
    BY <1>6, AppendProperties DEF BackToIdle
  <2>2. QED
    BY <1>6, <2>1 DEF BackToIdle
<1>7. CASE CleanUp(w)
  <2>1. workers' \in Seq(Ident) /\ idle_workers' \in Seq(Ident)
    BY <1>7, RemoveFirstType DEF CleanUp
  <2>2. QED
    BY <1>7, <2>1 DEF CleanUp
<1>8. CASE Replace(w)
  BY <1>8 DEF Replace
<1>9. CASE Vanish(w)
  BY <1>9 DEF Vanish
<1>10. QED
  BY <1>1, <1>2, <1>3, <1>4, <1>5, <1>6, <1>7, <1>8, <1>9 DEF WorkerStep

LEMMA DeliverTyped ==
    ASSUME TypeOK, Unworn, NEW w \in Ident, Deliver(w)
    PROVE  TypeOK' /\ Unworn' /\ UNCHANGED <<apc, incoming>>
<1> USE PoolAssumption DEF TypeOK, Unworn, listVars, checkVars, threadVars, serverVars,
        Ended
<1>1. CASE DeliverInTask(w)
  BY <1>1 DEF DeliverInTask
<1>2. CASE DeliverInLoop(w)
  BY <1>2 DEF DeliverInLoop
<1>3. QED
  BY <1>1, <1>2 DEF Deliver

LEMMA AcceptTyped ==
    ASSUME TypeInv, NEW t \in Task, Accept(t)
    PROVE  TypeInv'
  BY PoolAssumption DEF TypeInv, TypeOK, Unworn, ServerHolds, listVars,
     checkVars, threadVars, serverVars, Accept, Ended

\* The state of the server thread after an exception has left add_task.
Refused ==
    /\ request' \in [Task -> Ended \cup {"open"}]
    /\ incoming' \in Task \cup {None} /\ incoming' \notin Task
    /\ apc' = "accept"
    /\ scan' \in Nat \ {0} /\ victim' \in Ident \cup {None} /\ found' \in BOOLEAN

LEMMA RefuseTyped ==
    ASSUME TypeOK, Refuse
    PROVE  Refused
<1>1. request' \in [Task -> Ended \cup {"open"}]
  BY DEF TypeOK, Ended, Refuse
<1>2. /\ incoming' = None /\ apc' = "accept" /\ scan' = 1 /\ victim' = None
      /\ found' = FALSE
  BY DEF Refuse
<1>3. found' \in BOOLEAN
  BY <1>2
<1>4. incoming' \in Task \cup {None} /\ incoming' \notin Task
  BY <1>2, PoolAssumption
<1>5. scan' \in Nat \ {0} /\ victim' \in Ident \cup {None}
  BY <1>2
<1>6. QED
  BY <1>1, <1>2, <1>3, <1>4, <1>5, Zenon DEF Refused

\* kill_worker, for whatever it is called.
LEMMA KillTyped ==
    ASSUME TypeOK, Unworn, Kill \/ Untrack \/ Unlist \/ Record
    PROVE  /\ TypeOK' /\ Unworn' /\ apc # "accept"
           /\ Refused \/ (apc' # "accept" /\ incoming' = incoming)
<1>0. Refuse => Refused
  BY RefuseTyped
<1> USE PoolAssumption DEF TypeOK, Unworn, listVars, checkVars, threadVars, serverVars
<1>1. CASE Kill
  BY <1>1 DEF Kill, Alive
<1>2. CASE Untrack
  BY <1>2 DEF Untrack
<1>3. CASE Unlist
  <2>1. workers' \in Seq(Ident)
    BY <1>3, RemoveFirstType DEF Unlist
  <2>2. CASE found /\ Contains(workers, victim)
    BY <1>3, <2>1, <2>2 DEF Unlist
  <2>3. CASE ~(found /\ Contains(workers, victim))
    BY <1>0, <1>3, <2>3 DEF Unlist, Refused
  <2>4. QED
    BY <2>2, <2>3
<1>4. CASE Record
  <2>1. /\ pc' \in [Ident -> {"none", "starting", "loop", "got", "running",
                              "after", "exit", "retire", "replace", "ending"}]
        /\ \A w \in Ident : pc'[w] = "got" => pc[w] = "got"
    BY <1>4 DEF Record
  <2>2. dying_threads' \in [Ident -> {"none", "dying", "zombie"}]
    BY <1>4 DEF Record
  <2>3. CASE Free = {}
    BY <1>0, <1>4, <2>1, <2>2, <2>3 DEF Record, Refused
  <2>4. CASE Free # {}
    BY <1>4, <2>1, <2>2, <2>4 DEF Record
  <2>5. QED
    BY <2>3, <2>4
<1>5. QED
  BY <1>1, <1>2, <1>3, <1>4

LEMMA AddTaskTyped ==
    ASSUME TypeInv, AddTaskStep
    PROVE  TypeInv'
<1>0. Refuse => Refused
  BY RefuseTyped DEF TypeInv
<1>2. CASE Kill \/ Untrack \/ Unlist \/ Record
  BY <1>2, KillTyped DEF TypeInv, ServerHolds, Refused
<1> USE PoolAssumption DEF TypeInv, TypeOK, Unworn, ServerHolds, listVars,
        checkVars, threadVars, serverVars
<1>1. CASE Scan
  BY <1>1 DEF Scan
<1>6. CASE CheckZombies
  <2> DEFINE gone == {w \in Ident : dying_threads[w] # "none" /\ ~Alive(w)}
  <2>1. CASE MaxZombies # 0 /\ gone # {}
    <3>1. dying_threads' \in [Ident -> {"none", "dying", "zombie"}]
      BY <1>6, <2>1 DEF CheckZombies
    <3>2. Refuse
      BY <1>6, <2>1 DEF CheckZombies
    <3>3. QED
      BY <1>0, <1>6, <3>1, <3>2 DEF CheckZombies, Refused
  <2>2. CASE ~(MaxZombies # 0 /\ gone # {})
    BY <1>6, <2>2 DEF CheckZombies
  <2>3. QED
    BY <2>1, <2>2
<1>7. CASE SpawnMore
  <2>1. /\ pc' \in [Ident -> {"none", "starting", "loop", "got", "running",
                              "after", "exit", "retire", "replace", "ending"}]
        /\ \A w \in Ident : pc'[w] = "got" => pc[w] = "got"
    BY <1>7 DEF SpawnMore
  <2>2. CASE Cardinality(Free) < SpawnIfUnder - Busy
    BY <1>0, <1>7, <2>1, <2>2 DEF SpawnMore, Refused
  <2>3. CASE ~(Cardinality(Free) < SpawnIfUnder - Busy)
    BY <1>7, <2>1, <2>3 DEF SpawnMore
  <2>4. QED
    BY <2>2, <2>3
<1>8. CASE NoSpawn
  BY <1>8 DEF NoSpawn
<1>9. CASE Put
  <2>1. Culled \in Nat
    BY LenProperties DEF Culled
  <2>2. [i \in 1..Culled |-> SHUTDOWN] \in Seq(Task \cup {SHUTDOWN})
    BY <2>1, IsASeq
  <2>3. <<incoming>> \in Seq(Task \cup {SHUTDOWN})
    BY <1>9 DEF Put
  <2>4. queue' \in Seq(Task \cup {SHUTDOWN})
    BY <1>9, <2>2, <2>3, ConcatProperties DEF Put
  <2>5. QED
    BY <1>9, <2>4 DEF Put
<1>10. QED
  BY <1>1, <1>2, <1>6, <1>7, <1>8, <1>9 DEF AddTaskStep

LEMMA OtherTyped ==
    ASSUME TypeOK, Unworn, TrackThreads \/ Clock \/ UNCHANGED vars
    PROVE  TypeOK' /\ Unworn' /\ UNCHANGED <<apc, incoming>>
<1> USE PoolAssumption DEF TypeOK, Unworn, listVars, checkVars, threadVars, serverVars
<1>1. CASE TrackThreads
  BY <1>1 DEF TrackThreads
<1>2. CASE Clock
  <2>1. CASE AgeAdded
    BY <2>1 DEF AgeAdded
  <2>2. ASSUME NEW w \in Ident, AgeTask(w)
        PROVE  TypeOK' /\ Unworn' /\ UNCHANGED <<apc, incoming>>
    <3>1. worker_tracker' \in [Ident -> {"none", "fresh", "hung", "overdue"}]
      <4>1. \E age \in {"hung", "overdue"} :
               worker_tracker' = [worker_tracker EXCEPT ![w] = age]
        BY <2>2, Zenon DEF AgeTask
      <4>2. QED
        BY <4>1
    <3>2. QED
      BY <2>2, <3>1 DEF AgeTask
  <2>3. ASSUME NEW w \in Ident, AgeKill(w)
        PROVE  TypeOK' /\ Unworn' /\ UNCHANGED <<apc, incoming>>
    BY <2>3 DEF AgeKill
  <2>4. QED
    BY <1>2, <2>1, <2>2, <2>3 DEF Clock
<1>3. CASE UNCHANGED vars
  BY <1>3 DEF vars
<1>4. QED
  BY <1>1, <1>2, <1>3

\* The state of the pool stays within its types, whatever the options: in
\* particular a worker takes at most max_requests + 1 tasks and the countdown to
\* the next check for hung workers never passes hung_check_period.
THEOREM Typed == Spec => []TypeInv
<1>1. TypeInv /\ [Next]_vars => TypeInv'
  <2> SUFFICES ASSUME TypeInv, [Next]_vars PROVE TypeInv'
    OBVIOUS
  <2>1. CASE (\E w \in Ident : WorkerStep(w) \/ Deliver(w)) \/ TrackThreads \/ Clock
             \/ UNCHANGED vars
    BY <2>1, WorkerTyped, DeliverTyped, OtherTyped DEF TypeInv, ServerHolds
  <2>2. CASE (\E t \in Task : Accept(t)) \/ AddTaskStep
    BY <2>2, AcceptTyped, AddTaskTyped
  <2>3. QED
    BY <2>1, <2>2 DEF Next
<1>2. QED
  BY InitTyped, <1>1, PTL DEF Spec

\* Theorem for the invariant the runs check.
THEOREM TypesRespected == Spec => []TypeOK
  BY Typed, PTL DEF TypeInv

-----------------------------------------------------------------------------
(* Every connection is in one place.                                       *)

\* ConnectionInOnePlace of a queue, the jobs of the workers, the connection of
\* the server thread and the fate of the connections.
In(q, t) == \E i \in DOMAIN q : q[i] = t

Kept(q, j, c, r) ==
    /\ \A t \in Task : r[t] = "open" <=> In(q, t) \/ (\E w \in Ident : j[w] = t) \/ c = t
    /\ \A x, y \in DOMAIN q : x # y /\ q[x] = q[y] => q[x] = SHUTDOWN
    /\ \A w, v \in Ident : w # v /\ j[w] = j[v] => j[w] = None
    /\ \A w \in Ident : j[w] # None => ~In(q, j[w]) /\ j[w] # c
    /\ c # None => ~In(q, c)

Line   == Seq(Task \cup {SHUTDOWN})
Jobs   == [Ident -> Task \cup {None}]
Fates  == [Task -> Ended \cup {"open"}]

LEMMA KeptIsOnePlace ==
    /\ ConnectionInOnePlace <=> Kept(queue, job, incoming, request)
    /\ ConnectionInOnePlace' <=> Kept(queue', job', incoming', request')
  BY DEF ConnectionInOnePlace, Kept, In, Queued, Held

\* The tail of a queue without the task at its head.
LEMMA TailIn ==
    ASSUME NEW q \in Line, q # <<>>, NEW t
    PROVE  /\ In(Tail(q), t) => In(q, t)
           /\ In(q, t) => In(Tail(q), t) \/ Head(q) = t
           /\ In(q, Head(q))
<1>1. /\ Len(q) \in Nat /\ Len(q) > 0 /\ DOMAIN q = 1..Len(q) /\ Head(q) = q[1]
      /\ DOMAIN Tail(q) = 1..(Len(q) - 1)
      /\ \A i \in 1..(Len(q) - 1) : Tail(q)[i] = q[i + 1]
  BY HeadTailProperties, LenProperties DEF Line
<1>2. ASSUME NEW i \in DOMAIN Tail(q), Tail(q)[i] = t PROVE In(q, t)
  <2>1. i + 1 \in DOMAIN q /\ q[i + 1] = t
    BY <1>1, <1>2
  <2>2. QED
    BY <2>1 DEF In
<1>3. ASSUME NEW i \in DOMAIN q, q[i] = t, q[1] # t PROVE In(Tail(q), t)
  <2>1. i - 1 \in DOMAIN Tail(q) /\ Tail(q)[i - 1] = t
    BY <1>1, <1>3
  <2>2. QED
    BY <2>1 DEF In
<1>4. In(q, Head(q))
  BY <1>1 DEF In
<1>5. QED
  BY <1>1, <1>2, <1>3, <1>4 DEF In

\* The tail of a queue holds no task twice, nor the task at its head.
LEMMA TailOnce ==
    ASSUME NEW q \in Line, q # <<>>,
           \A x, y \in DOMAIN q : x # y /\ q[x] = q[y] => q[x] = SHUTDOWN
    PROVE  /\ \A x, y \in DOMAIN Tail(q) : x # y /\ Tail(q)[x] = Tail(q)[y] =>
                  Tail(q)[x] = SHUTDOWN
           /\ Head(q) # SHUTDOWN => ~In(Tail(q), Head(q))
<1>1. /\ Len(q) \in Nat /\ Len(q) > 0 /\ DOMAIN q = 1..Len(q) /\ Head(q) = q[1]
      /\ DOMAIN Tail(q) = 1..(Len(q) - 1)
      /\ \A i \in 1..(Len(q) - 1) : Tail(q)[i] = q[i + 1]
  BY HeadTailProperties, LenProperties DEF Line
<1>2. ASSUME NEW x \in DOMAIN Tail(q), NEW y \in DOMAIN Tail(q), x # y,
             Tail(q)[x] = Tail(q)[y]
      PROVE  Tail(q)[x] = SHUTDOWN
  <2>1. /\ x + 1 \in DOMAIN q /\ y + 1 \in DOMAIN q /\ x + 1 # y + 1
        /\ Tail(q)[x] = q[x + 1] /\ Tail(q)[y] = q[y + 1]
    BY <1>1, <1>2
  <2>2. QED
    BY <1>2, <2>1
<1>3. ASSUME NEW x \in DOMAIN Tail(q), Tail(q)[x] = q[1], q[1] # SHUTDOWN
      PROVE  FALSE
  <2>1. /\ x + 1 \in DOMAIN q /\ 1 \in DOMAIN q /\ x + 1 # 1
        /\ Tail(q)[x] = q[x + 1]
    BY <1>1
  <2>2. QED
    BY <1>3, <2>1
<1>4. QED
  BY <1>1, <1>2, <1>3 DEF In

\* The connection at the head of the queue goes to a worker with empty hands.
LEMMA KeptByTake ==
    ASSUME NEW q \in Line, q # <<>>, Head(q) # SHUTDOWN, NEW j \in Jobs, NEW c,
           NEW r, NEW w \in Ident, j[w] = None, Kept(q, j, c, r)
    PROVE  Kept(Tail(q), [j EXCEPT ![w] = Head(q)], c, r)
<1> DEFINE h == Head(q)
           k == [j EXCEPT ![w] = h]
<1>1. h \in Task /\ h # None
  BY HeadTailProperties, PoolAssumption DEF Line
<1>2. /\ k[w] = h
      /\ \A v \in Ident : v # w => k[v] = j[v]
  BY DEF Jobs
<1>3. /\ \A t : In(Tail(q), t) => In(q, t)
      /\ \A t : In(q, t) => In(Tail(q), t) \/ h = t
      /\ In(q, h)
  BY TailIn
<1>4. ~In(Tail(q), h)
  BY TailOnce DEF Kept
<1>5. h # c /\ \A v \in Ident : j[v] # h
  BY <1>1, <1>3 DEF Kept
<1> HIDE DEF h, k
<1>6. \A t \in Task : r[t] = "open" <=>
          In(Tail(q), t) \/ (\E v \in Ident : k[v] = t) \/ c = t
  <2> TAKE t \in Task
  <2>1. CASE t = h
    BY <1>2, <1>3, <2>1 DEF Kept
  <2>2. CASE t # h
    <3>1. (\E v \in Ident : k[v] = t) <=> (\E v \in Ident : j[v] = t)
      BY <1>1, <1>2, <2>2, PoolAssumption
    <3>2. QED
      BY <1>3, <2>2, <3>1 DEF Kept
  <2>3. QED
    BY <2>1, <2>2
<1>7. \A x, y \in DOMAIN Tail(q) : x # y /\ Tail(q)[x] = Tail(q)[y] =>
          Tail(q)[x] = SHUTDOWN
  BY TailOnce DEF Kept
<1>8. \A u, v \in Ident : u # v /\ k[u] = k[v] => k[u] = None
  BY <1>2, <1>5 DEF Kept
<1>9. \A v \in Ident : k[v] # None => ~In(Tail(q), k[v]) /\ k[v] # c
  BY <1>2, <1>3, <1>4, <1>5 DEF Kept
<1>10. c # None => ~In(Tail(q), c)
  BY <1>3 DEF Kept
<1>11. QED
  BY <1>6, <1>7, <1>8, <1>9, <1>10 DEF Kept, k, h

\* A token at the head of the queue stops a worker.
LEMMA KeptByToken ==
    ASSUME NEW q \in Line, q # <<>>, Head(q) = SHUTDOWN, NEW j \in Jobs,
           NEW c \in Task \cup {None}, NEW r, Kept(q, j, c, r)
    PROVE  Kept(Tail(q), j, c, r)
<1>1. \A t : t # SHUTDOWN => (In(Tail(q), t) <=> In(q, t))
  BY TailIn
<1>2. \A t \in Task \cup {None} : In(Tail(q), t) <=> In(q, t)
  BY <1>1, PoolAssumption
<1>3. \A x, y \in DOMAIN Tail(q) : x # y /\ Tail(q)[x] = Tail(q)[y] =>
          Tail(q)[x] = SHUTDOWN
  BY TailOnce DEF Kept
<1>4. \A v \in Ident : j[v] \in Task \cup {None}
  BY DEF Jobs
<1>5. QED
  BY <1>2, <1>3, <1>4 DEF Kept

\* The server thread is given a connection that is over, as a new one.
LEMMA KeptByAccept ==
    ASSUME NEW q \in Line, NEW j \in Jobs, NEW r \in Fates, NEW t \in Task,
           r[t] \in Ended, Kept(q, j, None, r)
    PROVE  Kept(q, j, t, [r EXCEPT ![t] = "open"])
<1> DEFINE s == [r EXCEPT ![t] = "open"]
<1>1. /\ s[t] = "open" /\ r[t] # "open"
      /\ \A u \in Task : u # t => s[u] = r[u]
  BY DEF Fates, Ended
<1>2. ~In(q, t) /\ \A w \in Ident : j[w] # t
  BY <1>1 DEF Kept
<1>3. t # None
  BY PoolAssumption
<1> HIDE DEF s
<1>4. \A u \in Task : s[u] = "open" <=>
          In(q, u) \/ (\E w \in Ident : j[w] = u) \/ t = u
  BY <1>1, <1>3, PoolAssumption DEF Kept
<1>5. QED
  BY <1>2, <1>3, <1>4 DEF Kept, s

\* The connection in the hands of the server thread is refused.
LEMMA KeptByRefusal ==
    ASSUME NEW q \in Line, NEW j \in Jobs, NEW r \in Fates, NEW t \in Task,
           NEW e \in Ended, Kept(q, j, t, r)
    PROVE  Kept(q, j, None, [r EXCEPT ![t] = e])
<1> DEFINE s == [r EXCEPT ![t] = e]
<1>1. /\ s[t] # "open"
      /\ \A u \in Task : u # t => s[u] = r[u]
  BY DEF Fates, Ended
<1>2. t # None
  BY PoolAssumption
<1>3. ~In(q, t) /\ \A w \in Ident : j[w] # t
  BY <1>2 DEF Kept
<1> HIDE DEF s
<1>4. \A u \in Task : s[u] = "open" <=>
          In(q, u) \/ (\E w \in Ident : j[w] = u) \/ None = u
  BY <1>1, <1>3, PoolAssumption DEF Kept
<1>5. QED
  BY <1>4 DEF Kept, s

\* A worker lets go of its connection, which is over.
LEMMA KeptByEnd ==
    ASSUME NEW q \in Line, NEW j \in Jobs, NEW c, NEW r \in Fates,
           NEW w \in Ident, NEW e \in Ended, Kept(q, j, c, r)
    PROVE  Kept(q, [j EXCEPT ![w] = None], c,
                IF j[w] = None THEN r ELSE [r EXCEPT ![j[w]] = e])
<1> DEFINE k == [j EXCEPT ![w] = None]
           s == IF j[w] = None THEN r ELSE [r EXCEPT ![j[w]] = e]
<1>1. /\ k[w] = None
      /\ \A v \in Ident : v # w => k[v] = j[v]
  BY DEF Jobs
<1>2. j[w] # None => j[w] \in Task /\ s[j[w]] # "open"
  BY DEF Jobs, Fates, Ended
<1>3. \A u \in Task : u # j[w] => s[u] = r[u]
  BY DEF Fates
<1> HIDE DEF k, s
<1>4. ASSUME NEW u \in Task
      PROVE  s[u] = "open" <=> In(q, u) \/ (\E v \in Ident : k[v] = u) \/ c = u
  <2>1. u # None
    BY PoolAssumption
  <2>2. CASE u = j[w]
    BY <1>1, <1>2, <2>1, <2>2 DEF Kept
  <2>3. CASE u # j[w]
    BY <1>1, <1>3, <2>1, <2>3 DEF Kept
  <2>4. QED
    BY <2>2, <2>3
<1>5. /\ \A u, v \in Ident : u # v /\ k[u] = k[v] => k[u] = None
      /\ \A v \in Ident : k[v] # None => ~In(q, k[v]) /\ k[v] # c
  BY <1>1 DEF Kept
<1>6. QED
  BY <1>4, <1>5 DEF Kept, k, s

\* Tokens are put on the queue.
LEMMA KeptByTokens ==
    ASSUME NEW q \in Line, NEW n \in Nat, NEW j \in Jobs,
           NEW c \in Task \cup {None}, NEW r, Kept(q, j, c, r)
    PROVE  LET p == q \o [i \in 1..n |-> SHUTDOWN]
           IN  p \in Line /\ Kept(p, j, c, r)
<1> DEFINE z == [i \in 1..n |-> SHUTDOWN]
           p == q \o z
<1>1. z \in Line /\ Len(z) = n
  BY IsASeq DEF Line
<1>2. /\ p \in Line /\ Len(q) \in Nat /\ DOMAIN q = 1..Len(q)
      /\ DOMAIN p = 1..(Len(q) + n)
      /\ \A i \in DOMAIN q : p[i] = q[i]
      /\ \A i \in DOMAIN p : i \notin DOMAIN q => p[i] = SHUTDOWN
  <2>1. /\ p \in Line /\ Len(p) = Len(q) + n
        /\ \A i \in 1..(Len(q) + n) :
               p[i] = IF i <= Len(q) THEN q[i] ELSE z[i - Len(q)]
    BY <1>1, ConcatProperties DEF Line
  <2>2. Len(q) \in Nat /\ DOMAIN q = 1..Len(q) /\ DOMAIN p = 1..(Len(q) + n)
    BY <2>1, LenProperties DEF Line
  <2> HIDE DEF p
  <2>3. \A i \in 1..Len(q) : p[i] = q[i]
    BY <2>1, <2>2
  <2>4. \A i \in 1..(Len(q) + n) : i \notin 1..Len(q) => p[i] = SHUTDOWN
    BY <2>1, <2>2
  <2>5. QED
    BY <2>1, <2>2, <2>3, <2>4
<1> HIDE DEF p, z
<1>3. \A i \in DOMAIN q : i \in DOMAIN p
  BY <1>2
<1>4. \A t \in Task \cup {None} : In(p, t) <=> In(q, t)
  BY <1>2, <1>3, PoolAssumption DEF In
<1>5. \A x, y \in DOMAIN p : x # y /\ p[x] = p[y] => p[x] = SHUTDOWN
  BY <1>2 DEF Kept
<1>6. \A v \in Ident : j[v] \in Task \cup {None}
  BY DEF Jobs
<1>7. QED
  BY <1>2, <1>4, <1>5, <1>6 DEF Kept, p, z

\* The server thread puts its connection on the queue.
LEMMA KeptByAppend ==
    ASSUME NEW q \in Line, NEW j \in Jobs, NEW c \in Task, NEW r,
           Kept(q, j, c, r)
    PROVE  Kept(q \o <<c>>, j, None, r)
<1> DEFINE p == q \o <<c>>
           n == Len(q) + 1
<1>1. /\ DOMAIN q = 1..Len(q) /\ n \in DOMAIN p /\ n \notin DOMAIN q
      /\ p[n] = c
      /\ \A i \in DOMAIN q : i \in DOMAIN p /\ p[i] = q[i]
      /\ \A i \in DOMAIN p : i \in DOMAIN q \/ i = n
  <2>1. <<c>> \in Line /\ Len(<<c>>) = 1
    BY DEF Line
  <2>2. /\ p \in Line /\ Len(p) = Len(q) + 1
        /\ \A i \in 1..(Len(q) + 1) :
               p[i] = IF i <= Len(q) THEN q[i] ELSE <<c>>[i - Len(q)]
    BY <2>1, ConcatProperties DEF Line
  <2>3. Len(q) \in Nat /\ DOMAIN q = 1..Len(q) /\ DOMAIN p = 1..(Len(q) + 1)
    BY <2>2, LenProperties DEF Line
  <2> HIDE DEF p
  <2>4. QED
    BY <2>2, <2>3
<1> HIDE DEF p, n
<1>2. \A t : In(p, t) <=> In(q, t) \/ t = c
  BY <1>1 DEF In
<1>3. c # None
  BY PoolAssumption
<1>4. ~In(q, c) /\ \A w \in Ident : j[w] # c
  BY <1>3 DEF Kept
<1>5. \A x, y \in DOMAIN p : x # y /\ p[x] = p[y] => p[x] = SHUTDOWN
  BY <1>1, <1>4 DEF Kept, In
<1>6. \A t \in Task : r[t] = "open" <=>
          In(p, t) \/ (\E w \in Ident : j[w] = t) \/ None = t
  BY <1>2, PoolAssumption DEF Kept
<1>7. \A v \in Ident : j[v] # None => ~In(p, j[v]) /\ j[v] # None
  BY <1>2, <1>4 DEF Kept
<1>8. QED
  BY <1>5, <1>6, <1>7 DEF Kept, p

-----------------------------------------------------------------------------

\* A thread with a connection in hand is about to serve it or serving it.
JobInHand == \A w \in Ident : job[w] # None => pc[w] \in {"got", "running"}

OnePlaceInv == ConnectionInOnePlace /\ JobInHand

LEMMA InitOnePlace == Init => OnePlaceInv
  BY PoolAssumption
  DEF Init, OnePlaceInv, ConnectionInOnePlace, JobInHand, Queued, Held

\* The types the steps below need.
LEMMA Typing ==
    ASSUME TypeOK
    PROVE  /\ queue \in Line /\ job \in Jobs /\ request \in Fates
           /\ incoming \in Task \cup {None}
           /\ pc \in [Ident -> {"none", "starting", "loop", "got", "running",
                                "after", "exit", "retire", "replace", "ending"}]
  BY DEF TypeOK, Line, Jobs, Fates

\* Steps that move no connection.
LEMMA NothingMoves ==
    ASSUME OnePlaceInv, UNCHANGED <<queue, job, incoming, request>>,
           \A w \in Ident : job[w] # None => pc'[w] = pc[w] \/ pc'[w] = "running"
    PROVE  OnePlaceInv'
  BY DEF OnePlaceInv, ConnectionInOnePlace, JobInHand, Queued, Held

\* New threads get ids nobody has.
LEMMA SpawnableFree ==
    \A n : \A S \in Spawnable(n) : \A w \in S : w \in Free
  BY DEF Spawnable, kSubset

LEMMA TakeOnePlace ==
    ASSUME TypeOK, OnePlaceInv, NEW w \in Ident, Take(w)
    PROVE  OnePlaceInv'
<1>1. /\ queue \in Line /\ job \in Jobs /\ incoming \in Task \cup {None}
      /\ pc \in [Ident -> {"none", "starting", "loop", "got", "running",
                           "after", "exit", "retire", "replace", "ending"}]
  BY Typing
<1>2. /\ queue # <<>> /\ queue' = Tail(queue) /\ job[w] = None
      /\ incoming' = incoming /\ request' = request
  BY DEF Take, OnePlaceInv, JobInHand, serverVars
<1>3. Kept(queue, job, incoming, request)
  BY KeptIsOnePlace DEF OnePlaceInv
<1>4. CASE Head(queue) = SHUTDOWN
  <2>1. job' = job /\ pc' = [pc EXCEPT ![w] = "exit"]
    BY <1>4 DEF Take
  <2>2. JobInHand'
    BY <1>1, <1>2, <2>1 DEF OnePlaceInv, JobInHand
  <2>3. Kept(queue', job', incoming', request')
    BY <1>1, <1>2, <1>3, <1>4, <2>1, KeptByToken
  <2>4. QED
    BY <2>2, <2>3, KeptIsOnePlace DEF OnePlaceInv
<1>5. CASE Head(queue) # SHUTDOWN
  <2>1. job' = [job EXCEPT ![w] = Head(queue)] /\ pc' = [pc EXCEPT ![w] = "got"]
    BY <1>5 DEF Take
  <2>2. JobInHand'
    BY <1>1, <2>1 DEF OnePlaceInv, JobInHand, Jobs
  <2>3. Kept(queue', job', incoming', request')
    BY <1>1, <1>2, <1>3, <1>5, <2>1, KeptByTake
  <2>4. QED
    BY <2>2, <2>3, KeptIsOnePlace DEF OnePlaceInv
<1>6. QED
  BY <1>4, <1>5

LEMMA EndOnePlace ==
    ASSUME TypeOK, OnePlaceInv, NEW w \in Ident, NEW e \in Ended,
           UNCHANGED <<queue, incoming>>,
           job' = [job EXCEPT ![w] = None],
           request' = IF job[w] = None THEN request
                      ELSE [request EXCEPT ![job[w]] = e],
           \A v \in Ident : v # w => pc'[v] = pc[v]
    PROVE  OnePlaceInv'
<1>1. queue \in Line /\ job \in Jobs /\ request \in Fates
  BY Typing
<1>2. Kept(queue, job, incoming, request)
  BY KeptIsOnePlace DEF OnePlaceInv
<1>3. Kept(queue', job', incoming', request')
  BY <1>1, <1>2, KeptByEnd
<1>4. JobInHand'
  BY <1>1 DEF OnePlaceInv, JobInHand, Jobs
<1>5. QED
  BY <1>3, <1>4, KeptIsOnePlace DEF OnePlaceInv

\* Whether or not the server thread has a connection to refuse.
LEMMA RefuseOnePlace ==
    ASSUME TypeOK, OnePlaceInv, Refuse, UNCHANGED <<queue, job>>,
           \A w \in Ident : job[w] # None => pc'[w] = pc[w]
    PROVE  OnePlaceInv'
<1>1. /\ queue \in Line /\ job \in Jobs /\ request \in Fates
      /\ incoming \in Task \cup {None}
  BY Typing
<1>2. /\ request' = [request EXCEPT ![incoming] = "dropped"]
      /\ incoming' = None /\ "dropped" \in Ended
  BY DEF Refuse, Ended
<1>3. Kept(queue, job, incoming, request)
  BY KeptIsOnePlace DEF OnePlaceInv
<1>4. incoming = None => request' = request
  BY <1>1, <1>2, PoolAssumption DEF Fates
<1>5. incoming # None => incoming \in Task
  BY <1>1
<1>6. Kept(queue', job', incoming', request')
  BY <1>1, <1>2, <1>3, <1>4, <1>5, KeptByRefusal
<1>7. JobInHand'
  BY DEF OnePlaceInv, JobInHand
<1>8. QED
  BY <1>6, <1>7, KeptIsOnePlace DEF OnePlaceInv

LEMMA WorkerOnePlace ==
    ASSUME TypeOK, OnePlaceInv, NEW w \in Ident, WorkerStep(w) \/ Deliver(w)
    PROVE  OnePlaceInv'
<1>1. /\ pc \in [Ident -> {"none", "starting", "loop", "got", "running",
                           "after", "exit", "retire", "replace", "ending"}]
      /\ job \in Jobs /\ JobInHand
  BY Typing DEF OnePlaceInv
<1>2. CASE Register(w) \/ Retire(w) \/ Begin(w) \/ BackToIdle(w) \/ CleanUp(w)
           \/ Vanish(w)
  <2>1. UNCHANGED <<queue, job, incoming, request>>
    BY <1>2 DEF Register, Retire, Begin, BackToIdle, CleanUp, Vanish, serverVars
  <2>2. \A v \in Ident : v # w => pc'[v] = pc[v]
    BY <1>1, <1>2 DEF Register, Retire, Begin, BackToIdle, CleanUp, Vanish
  <2>3. job[w] # None => pc'[w] = "running"
    BY <1>1, <1>2 DEF Register, Retire, Begin, BackToIdle, CleanUp, Vanish,
                      JobInHand
  <2>4. QED
    BY <2>1, <2>2, <2>3, NothingMoves
<1>3. CASE Take(w)
  BY <1>3, TakeOnePlace
<1>4. CASE Finish(w)
  <2>1. "done" \in Ended
    BY DEF Ended
  <2>2. UNCHANGED <<queue, incoming>> /\ \A v \in Ident : v # w => pc'[v] = pc[v]
    BY <1>1, <1>4 DEF Finish, serverVars
  <2>3. /\ job' = [job EXCEPT ![w] = None]
        /\ request' = IF job[w] = None THEN request
                      ELSE [request EXCEPT ![job[w]] = "done"]
    BY <1>4 DEF Finish
  <2>4. QED
    BY <2>1, <2>2, <2>3, EndOnePlace
<1>5. CASE Replace(w)
  <2>1. PICK S \in Spawnable(1) :
           pc' = [v \in Ident |-> IF v = w THEN "ending"
                                  ELSE IF v \in S THEN "starting" ELSE pc[v]]
    BY <1>5 DEF Replace
  <2>2. \A v \in S : v \in Free
    BY <2>1, SpawnableFree
  <2>3. \A v \in Ident : job[v] # None => pc'[v] = pc[v]
    BY <1>1, <1>5, <2>1, <2>2 DEF JobInHand, Free, Alive, Replace
  <2>4. QED
    BY <1>5, <2>3, NothingMoves DEF Replace, serverVars
<1>6. CASE DeliverInTask(w)
  <2>1. "dropped" \in Ended
    BY DEF Ended
  <2>2. UNCHANGED <<queue, incoming, pc>>
    BY <1>6 DEF DeliverInTask, serverVars
  <2>3. /\ job' = [job EXCEPT ![w] = None]
        /\ request' = IF job[w] = None THEN request
                      ELSE [request EXCEPT ![job[w]] = "dropped"]
    BY <1>6 DEF DeliverInTask
  <2>4. QED
    BY <2>1, <2>2, <2>3, EndOnePlace
<1>7. CASE DeliverInLoop(w)
  <2>1. "dropped" \in Ended
    BY DEF Ended
  <2>2. UNCHANGED <<queue, incoming>> /\ \A v \in Ident : v # w => pc'[v] = pc[v]
    BY <1>1, <1>7 DEF DeliverInLoop, serverVars
  <2>3. /\ job' = [job EXCEPT ![w] = None]
        /\ request' = IF job[w] = None THEN request
                      ELSE [request EXCEPT ![job[w]] = "dropped"]
    BY <1>7 DEF DeliverInLoop
  <2>4. QED
    BY <2>1, <2>2, <2>3, EndOnePlace
<1>8. QED
  BY <1>2, <1>3, <1>4, <1>5, <1>6, <1>7, Zenon DEF WorkerStep, Deliver

LEMMA AcceptOnePlace ==
    ASSUME TypeInv, OnePlaceInv, NEW t \in Task, Accept(t)
    PROVE  OnePlaceInv'
<1>1. /\ queue \in Line /\ job \in Jobs /\ request \in Fates
      /\ incoming \in Task \cup {None} /\ incoming \notin Task
  BY Typing DEF Accept, TypeInv, ServerHolds
<1>2. /\ request[t] \in Ended /\ request' = [request EXCEPT ![t] = "open"]
      /\ incoming' = t /\ queue' = queue /\ job' = job /\ pc' = pc
  BY DEF Accept, threadVars
<1>3. Kept(queue, job, None, request)
  BY <1>1, KeptIsOnePlace DEF OnePlaceInv
<1>4. Kept(queue', job', incoming', request')
  BY <1>1, <1>2, <1>3, KeptByAccept
<1>5. JobInHand'
  BY <1>2 DEF OnePlaceInv, JobInHand
<1>6. QED
  BY <1>4, <1>5, KeptIsOnePlace DEF OnePlaceInv

LEMMA PutOnePlace ==
    ASSUME TypeInv, OnePlaceInv, Put
    PROVE  OnePlaceInv'
<1> DEFINE p == queue \o [i \in 1..Culled |-> SHUTDOWN]
<1>1. /\ queue \in Line /\ job \in Jobs /\ incoming \in Task
  BY Typing DEF Put, TypeInv, ServerHolds
<1>2. Culled \in Nat
  BY PoolAssumption, LenProperties DEF TypeInv, TypeOK, Culled
<1>3. Kept(queue, job, incoming, request)
  BY KeptIsOnePlace DEF OnePlaceInv
<1>4. p \in Line /\ Kept(p, job, incoming, request)
  BY <1>1, <1>2, <1>3, KeptByTokens
<1> HIDE DEF p
<1>5. Kept(p \o <<incoming>>, job, None, request)
  BY <1>1, <1>4, KeptByAppend
<1>6. /\ queue' = p \o <<incoming>> /\ incoming' = None
      /\ UNCHANGED <<job, pc, request>>
  BY DEF Put, threadVars, p
<1>7. JobInHand'
  BY <1>6 DEF OnePlaceInv, JobInHand
<1>8. QED
  BY <1>5, <1>6, <1>7, KeptIsOnePlace DEF OnePlaceInv

\* kill_worker refuses the connection, if there is one, or leaves it alone.
LEMMA KillOnePlace ==
    ASSUME TypeOK, OnePlaceInv, Kill \/ Untrack \/ Unlist \/ Record
    PROVE  OnePlaceInv'
<1>1. CASE Kill \/ Untrack
  BY <1>1, NothingMoves DEF Kill, Untrack, threadVars
<1>2. CASE Unlist
  <2>1. CASE found /\ Contains(workers, victim)
    BY <1>2, <2>1, NothingMoves DEF Unlist, threadVars
  <2>2. CASE ~(found /\ Contains(workers, victim))
    BY <1>2, <2>2, RefuseOnePlace DEF Unlist, threadVars
  <2>3. QED
    BY <2>1, <2>2
<1>3. CASE Record
  <2>1. \A w \in Ident : job[w] # None => pc'[w] = pc[w]
    <3>1. PICK S \in Spawnable(1) :
             pc' = [w \in Ident |-> IF w \in S THEN "starting" ELSE pc[w]]
      BY <1>3 DEF Record
    <3>2. QED
      BY <3>1, SpawnableFree DEF OnePlaceInv, JobInHand, Free, Alive
  <2>2. CASE Free = {}
    BY <1>3, <2>1, <2>2, RefuseOnePlace DEF Record
  <2>3. CASE Free # {}
    BY <1>3, <2>1, <2>3, NothingMoves DEF Record
  <2>4. QED
    BY <2>2, <2>3
<1>4. QED
  BY <1>1, <1>2, <1>3

LEMMA AddTaskOnePlace ==
    ASSUME TypeInv, OnePlaceInv, AddTaskStep
    PROVE  OnePlaceInv'
<1>0. TypeOK
  BY DEF TypeInv
<1>1. CASE Scan \/ NoSpawn
  BY <1>1, NothingMoves DEF Scan, NoSpawn, threadVars
<1>2. CASE Kill \/ Untrack \/ Unlist \/ Record
  BY <1>0, <1>2, KillOnePlace
<1>4. CASE CheckZombies
  <2> DEFINE gone == {w \in Ident : dying_threads[w] # "none" /\ ~Alive(w)}
  <2>1. CASE MaxZombies # 0 /\ gone # {}
    BY <1>0, <1>4, <2>1, RefuseOnePlace DEF CheckZombies, threadVars
  <2>2. CASE ~(MaxZombies # 0 /\ gone # {})
    BY <1>4, <2>2, NothingMoves DEF CheckZombies, threadVars
  <2>3. QED
    BY <2>1, <2>2
<1>5. CASE SpawnMore
  <2>1. \A w \in Ident : job[w] # None => pc'[w] = pc[w]
    <3>1. PICK S \in Spawnable(SpawnIfUnder - Busy) :
             pc' = [w \in Ident |-> IF w \in S THEN "starting" ELSE pc[w]]
      BY <1>5 DEF SpawnMore
    <3>2. QED
      BY <3>1, SpawnableFree DEF OnePlaceInv, JobInHand, Free, Alive
  <2>2. CASE Cardinality(Free) < SpawnIfUnder - Busy
    BY <1>0, <1>5, <2>1, <2>2, RefuseOnePlace DEF SpawnMore
  <2>3. CASE ~(Cardinality(Free) < SpawnIfUnder - Busy)
    BY <1>5, <2>1, <2>3, NothingMoves DEF SpawnMore
  <2>4. QED
    BY <2>2, <2>3
<1>6. CASE Put
  BY <1>6, PutOnePlace
<1>7. QED
  BY <1>1, <1>2, <1>4, <1>5, <1>6, Zenon DEF AddTaskStep

LEMMA OtherOnePlace ==
    ASSUME OnePlaceInv, TrackThreads \/ Clock \/ UNCHANGED vars
    PROVE  OnePlaceInv'
<1>1. UNCHANGED <<queue, job, incoming, request, pc>>
  BY DEF TrackThreads, Clock, AgeAdded, AgeTask, AgeKill, vars, threadVars,
         serverVars
<1>2. QED
  BY <1>1, NothingMoves

\* No connection is forgotten and none is served twice, for every number of
\* threads and connections and every setting of the options: whatever workers
\* are killed, retired, replaced, spawned or culled, and whatever fails inside
\* add_task, an accepted connection is with the server thread, once in the
\* queue, or with one worker, until it is answered or dropped.
THEOREM ConnectionsKept == Spec => []ConnectionInOnePlace
<1>1. TypeInv /\ OnePlaceInv /\ [Next]_vars => OnePlaceInv'
  BY WorkerOnePlace, AcceptOnePlace, AddTaskOnePlace, OtherOnePlace DEF Next, TypeInv
<1>2. Spec => []OnePlaceInv
  BY InitOnePlace, Typed, <1>1, PTL DEF Spec
<1>3. QED
  BY <1>2, PTL DEF OnePlaceInv

-----------------------------------------------------------------------------
(* Lists.                                                                  *)

\* What is left after a removal, place by place.
LEMMA RemoveFirstAt ==
    ASSUME NEW S, NEW s \in Seq(S), NEW e, Contains(s, e)
    PROVE  \E k \in 1..Len(s) :
              LET r == RemoveFirst(s, e) IN
              /\ s[k] = e
              /\ r \in Seq(S) /\ Len(r) = Len(s) - 1
              /\ \A i \in 1..(k - 1) : r[i] = s[i]
              /\ \A i \in k..(Len(s) - 1) : r[i] = s[i + 1]
<1> DEFINE I == {i \in 1..Len(s) : s[i] = e}
           k == Min(I)
           front == SubSeq(s, 1, k - 1)
           back  == SubSeq(s, k + 1, Len(s))
<1>0. Len(s) \in Nat
  BY LenProperties
<1>1. k \in 1..Len(s) /\ s[k] = e
  <2>1. I \in SUBSET Nat /\ I # {}
    BY DEF Contains
  <2>2. k \in I
    BY <2>1, MinPosition
  <2>3. QED
    BY <2>2
<1>2. RemoveFirst(s, e) = front \o back
  <2>1. SelectInSeq(s, LAMBDA v : v = e) = k
    BY <1>1 DEF SelectInSeq
  <2>2. QED
    BY <1>1, <2>1 DEF RemoveFirst, RemoveAt
<1> HIDE DEF I, k
<1>3. /\ front \in Seq(S) /\ Len(front) = k - 1
      /\ \A i \in 1..(k - 1) : front[i] = s[i]
  <2>1. /\ 1 \in Int /\ k - 1 \in Int
        /\ \A i \in 1..(k - 1) : s[i] \in S
    BY <1>0, <1>1
  <2>2. QED
    BY <1>1, <2>1, SubSeqProperties
<1>4. /\ back \in Seq(S) /\ Len(back) = Len(s) - k
      /\ \A i \in 1..(Len(s) - k) : back[i] = s[k + i]
  <2>1. /\ k + 1 \in Int /\ Len(s) \in Int
        /\ \A i \in (k + 1)..Len(s) : s[i] \in S
    BY <1>0, <1>1
  <2>2. /\ back \in Seq(S)
        /\ Len(back) = IF k + 1 <= Len(s) THEN Len(s) - (k + 1) + 1 ELSE 0
        /\ \A i \in 1..(Len(s) - (k + 1) + 1) : back[i] = s[(k + 1) + i - 1]
    BY <1>0, <1>1, <2>1, SubSeqProperties
  <2> HIDE DEF back
  <2>3. Len(back) = Len(s) - k
    BY <1>0, <1>1, <2>2
  <2>4. ASSUME NEW i \in 1..(Len(s) - k)
        PROVE  back[i] = s[k + i]
    <3>1. i \in 1..(Len(s) - (k + 1) + 1) /\ (k + 1) + i - 1 = k + i
      BY <1>0, <1>1
    <3>2. QED
      BY <2>2, <3>1
  <2>5. QED
    BY <2>2, <2>3, <2>4
<1> HIDE DEF front, back
<1>5. /\ front \o back \in Seq(S) /\ Len(front \o back) = Len(s) - 1
      /\ \A i \in 1..(k - 1) : (front \o back)[i] = s[i]
      /\ \A i \in k..(Len(s) - 1) : (front \o back)[i] = s[i + 1]
  <2>1. /\ front \o back \in Seq(S)
        /\ Len(front \o back) = Len(front) + Len(back)
        /\ \A i \in 1..(Len(front) + Len(back)) :
              (front \o back)[i] = IF i <= Len(front) THEN front[i]
                                                    ELSE back[i - Len(front)]
    BY <1>3, <1>4, ConcatProperties
  <2>2. ASSUME NEW i \in 1..(k - 1)
        PROVE  (front \o back)[i] = s[i]
    BY <1>0, <1>1, <1>3, <1>4, <2>1
  <2>3. ASSUME NEW i \in k..(Len(s) - 1)
        PROVE  (front \o back)[i] = s[i + 1]
    <3>1. /\ i \in 1..(Len(front) + Len(back)) /\ ~(i <= Len(front))
          /\ i - Len(front) \in 1..(Len(s) - k)
          /\ k + (i - Len(front)) = i + 1
      BY <1>0, <1>1, <1>3, <1>4
    <3>2. QED
      BY <1>4, <2>1, <3>1
  <2>4. Len(front \o back) = Len(s) - 1
    BY <1>0, <1>1, <1>3, <1>4, <2>1
  <2>5. QED
    BY <2>1, <2>2, <2>3, <2>4
<1>6. QED
  BY <1>1, <1>2, <1>5

\* In a list without repetitions, nothing else goes and nothing of it stays.
Once(s) == \A i, j \in DOMAIN s : s[i] = s[j] => i = j

LEMMA RemoveFirstOnce ==
    ASSUME NEW S, NEW s \in Seq(S), Once(s), NEW e
    PROVE  /\ Once(RemoveFirst(s, e))
           /\ \A x : Contains(RemoveFirst(s, e), x) <=> Contains(s, x) /\ x # e
<1>1. CASE ~Contains(s, e)
  <2>1. RemoveFirst(s, e) = s
    BY <1>1 DEF RemoveFirst, Contains
  <2>2. QED
    BY <1>1, <2>1
<1>2. CASE Contains(s, e)
  <2> DEFINE r == RemoveFirst(s, e)
  <2>1. PICK k \in 1..Len(s) :
           /\ s[k] = e
           /\ r \in Seq(S) /\ Len(r) = Len(s) - 1
           /\ \A i \in 1..(k - 1) : r[i] = s[i]
           /\ \A i \in k..(Len(s) - 1) : r[i] = s[i + 1]
    BY <1>2, RemoveFirstAt
  <2> HIDE DEF r
  <2>2. DOMAIN s = 1..Len(s) /\ Len(s) \in Nat /\ DOMAIN r = 1..(Len(s) - 1)
    BY <2>1, LenProperties
  <2>3. Once(r)
    <3>1. SUFFICES ASSUME NEW i \in DOMAIN r, NEW j \in DOMAIN r, r[i] = r[j]
                   PROVE  i = j
      BY DEF Once
    <3>2. PICK a \in DOMAIN s : r[i] = s[a] /\ a = IF i < k THEN i ELSE i + 1
      BY <2>1, <2>2
    <3>3. PICK b \in DOMAIN s : r[j] = s[b] /\ b = IF j < k THEN j ELSE j + 1
      BY <2>1, <2>2
    <3>4. a = b
      BY <3>1, <3>2, <3>3 DEF Once
    <3>5. QED
      BY <2>1, <2>2, <3>2, <3>3, <3>4
  <2>4. ASSUME NEW x, Contains(r, x) PROVE Contains(s, x) /\ x # e
    <3>1. PICK i \in 1..Len(r) : r[i] = x
      BY <2>4 DEF Contains
    <3>2. PICK a \in DOMAIN s : r[i] = s[a] /\ a # k
      BY <2>1, <2>2, <3>1
    <3>3. QED
      BY <2>1, <2>2, <3>1, <3>2 DEF Contains, Once
  <2>5. ASSUME NEW x, Contains(s, x), x # e PROVE Contains(r, x)
    <3>1. PICK i \in 1..Len(s) : s[i] = x
      BY <2>5 DEF Contains
    <3>2. CASE i < k
      <4>1. i \in 1..Len(r) /\ r[i] = x
        BY <2>1, <2>2, <3>1, <3>2
      <4>2. QED
        BY <4>1 DEF Contains
    <3>3. CASE i > k
      <4>1. i - 1 \in 1..Len(r) /\ r[i - 1] = x
        BY <2>1, <2>2, <3>1, <3>3
      <4>2. QED
        BY <4>1 DEF Contains
    <3>4. QED
      BY <2>1, <2>2, <2>5, <3>1, <3>2, <3>3
  <2>6. QED
    BY <2>3, <2>4, <2>5 DEF r
<1>3. QED
  BY <1>1, <1>2

\* What append puts at the end is there, and there once if it was not before.
LEMMA AppendOnce ==
    ASSUME NEW S, NEW s \in Seq(S), Once(s), NEW e \in S, ~Contains(s, e)
    PROVE  /\ Once(Append(s, e))
           /\ \A x : Contains(Append(s, e), x) <=> Contains(s, x) \/ x = e
<1>1. /\ DOMAIN s = 1..Len(s) /\ Len(s) \in Nat
      /\ Append(s, e) \in Seq(S) /\ Len(Append(s, e)) = Len(s) + 1
      /\ DOMAIN Append(s, e) = 1..(Len(s) + 1)
      /\ \A i \in 1..Len(s) : Append(s, e)[i] = s[i]
      /\ Append(s, e)[Len(s) + 1] = e
  BY LenProperties, AppendProperties
<1>2. Once(Append(s, e))
  BY <1>1 DEF Once, Contains
<1>3. ASSUME NEW x
      PROVE  Contains(Append(s, e), x) <=> Contains(s, x) \/ x = e
  BY <1>1 DEF Contains
<1>4. QED
  BY <1>2, <1>3

-----------------------------------------------------------------------------
(* Tracking.                                                               *)

LEMMA TrackingStays ==
    ASSUME TypeOK, NoLeftoverTracking, [Next]_vars
    PROVE  NoLeftoverTracking'
<1>1. /\ worker_tracker \in [Ident -> {"none", "fresh", "hung", "overdue"}]
      /\ pc \in [Ident -> {"none", "starting", "loop", "got", "running",
                           "after", "exit", "retire", "replace", "ending"}]
  BY DEF TypeOK
<1>2. ASSUME NEW w \in Ident, WorkerStep(w)
      PROVE  NoLeftoverTracking'
  <2>1. CASE Register(w) \/ Retire(w) \/ Take(w) \/ BackToIdle(w) \/ Vanish(w)
    BY <1>1, <2>1 DEF Register, Retire, Take, BackToIdle, Vanish, listVars,
                      NoLeftoverTracking
  <2>2. CASE Begin(w) \/ Finish(w) \/ CleanUp(w)
    BY <1>1, <2>2 DEF Begin, Finish, CleanUp, NoLeftoverTracking
  <2>3. CASE Replace(w)
    <3>1. PICK S \in Spawnable(1) :
             pc' = [v \in Ident |-> IF v = w THEN "ending"
                                    ELSE IF v \in S THEN "starting" ELSE pc[v]]
      BY <2>3 DEF Replace
    <3>2. \A v \in S : pc[v] = "none"
      BY <3>1, SpawnableFree DEF Free, Alive
    <3>3. QED
      BY <1>1, <2>3, <3>1, <3>2 DEF Replace, listVars, NoLeftoverTracking
  <2>4. QED
    BY <1>2, <2>1, <2>2, <2>3 DEF WorkerStep
<1>3. ASSUME NEW w \in Ident, Deliver(w)
      PROVE  NoLeftoverTracking'
  BY <1>1, <1>3 DEF Deliver, DeliverInTask, DeliverInLoop, listVars,
                    NoLeftoverTracking
<1>4. CASE Scan \/ Kill \/ NoSpawn \/ Put
  BY <1>4 DEF Scan, Kill, NoSpawn, Put, listVars, threadVars, NoLeftoverTracking
<1>5. CASE Untrack \/ Unlist \/ CheckZombies
  BY <1>1, <1>5 DEF Untrack, Unlist, CheckZombies, threadVars,
                    NoLeftoverTracking
<1>6. CASE Record \/ SpawnMore
  <2>0. PICK n : \E S \in Spawnable(n) :
           pc' = [w \in Ident |-> IF w \in S THEN "starting" ELSE pc[w]]
    BY <1>6, Zenon DEF Record, SpawnMore
  <2>1. PICK S \in Spawnable(n) :
           pc' = [w \in Ident |-> IF w \in S THEN "starting" ELSE pc[w]]
    BY <2>0
  <2>2. \A w \in S : pc[w] = "none"
    BY <2>1, SpawnableFree DEF Free, Alive
  <2>3. worker_tracker' = worker_tracker
    BY <1>6 DEF Record, SpawnMore, listVars
  <2>4. QED
    BY <1>1, <2>1, <2>2, <2>3 DEF NoLeftoverTracking
<1>7. CASE Clock
  <2>1. CASE AgeAdded
    BY <2>1 DEF AgeAdded, listVars, threadVars, NoLeftoverTracking
  <2>2. ASSUME NEW w \in Ident, AgeTask(w)
        PROVE  NoLeftoverTracking'
    BY <1>1, <2>2 DEF AgeTask, threadVars, NoLeftoverTracking
  <2>3. ASSUME NEW w \in Ident, AgeKill(w)
        PROVE  NoLeftoverTracking'
    BY <2>3 DEF AgeKill, threadVars, NoLeftoverTracking
  <2>4. QED
    BY <1>7, <2>1, <2>2, <2>3 DEF Clock
<1>8. CASE (\E t \in Task : Accept(t)) \/ TrackThreads \/ UNCHANGED vars
  BY <1>8 DEF Accept, TrackThreads, vars, listVars, threadVars,
              NoLeftoverTracking
<1>9. QED
  BY <1>2, <1>3, <1>4, <1>5, <1>6, <1>7, <1>8 DEF Next, AddTaskStep

\* A thread is tracked only while it runs a task or has just been thrown out of
\* one: no task's age is ever charged to the next thread with the same id, for
\* every number of threads and every setting of the options.
THEOREM TrackingEnds == Spec => []NoLeftoverTracking
<1>1. Init => NoLeftoverTracking
  BY DEF Init, NoLeftoverTracking
<1>2. TypeInv /\ NoLeftoverTracking /\ [Next]_vars => NoLeftoverTracking'
  BY TrackingStays DEF TypeInv
<1>3. QED
  BY <1>1, <1>2, Typed, PTL DEF Spec

-----------------------------------------------------------------------------
(* The list of idle workers.                                               *)

\* IdleListExact of a list and the places of the threads.
Exact(list, at) ==
    /\ Once(list)
    /\ \A w \in Ident : at[w] \in {"loop", "got"} => Contains(list, w)
    /\ \A w \in Ident : Contains(list, w) => at[w] \in {"loop", "got", "retire", "exit"}

Places == [Ident -> {"none", "starting", "loop", "got", "running", "after", "exit",
                     "retire", "replace", "ending"}]

LEMMA ExactExpanded ==
    ASSUME NEW list \in Seq(Ident), NEW at
    PROVE  Exact(list, at) <=>
              /\ \A i, j \in DOMAIN list : list[i] = list[j] => i = j
              /\ \A w \in Ident : at[w] \in {"loop", "got"} => Contains(list, w)
              /\ \A w \in ToSet(list) : at[w] \in {"loop", "got", "retire", "exit"}
<1>1. /\ DOMAIN list = 1..Len(list)
      /\ \A i \in DOMAIN list : list[i] \in Ident
  BY LenProperties, ElementOfSeq
<1>2. \A w : w \in ToSet(list) <=> Contains(list, w)
  BY <1>1 DEF ToSet, Contains
<1>3. ToSet(list) \subseteq Ident
  BY <1>1 DEF ToSet
<1>4. QED
  BY <1>2, <1>3 DEF Exact, Once

LEMMA ExactIsIdleListExact ==
    /\ TypeOK => (IdleListExact <=> Exact(idle_workers, pc))
    /\ TypeOK' => (IdleListExact' <=> Exact(idle_workers', pc'))
  BY ExactExpanded DEF TypeOK, IdleListExact

\* Threads that move without a change of the list.
LEMMA ExactByMoves ==
    ASSUME NEW list, NEW at, NEW to, Exact(list, at),
           \A w \in Ident :
              \/ to[w] = at[w]
              \/ at[w] \in {"loop", "got"} /\ to[w] \in {"loop", "got", "retire", "exit"}
              \/ at[w] \notin {"loop", "got", "retire", "exit"}
                 /\ to[w] \notin {"loop", "got"}
    PROVE  Exact(list, to)
  BY DEF Exact

\* A thread that was not idle, and is.
LEMMA ExactByAppend ==
    ASSUME NEW list \in Seq(Ident), NEW at \in Places, Exact(list, at),
           NEW w \in Ident, at[w] \in {"starting", "after"}
    PROVE  Exact(Append(list, w), [at EXCEPT ![w] = "loop"])
<1>1. ~Contains(list, w)
  BY DEF Exact
<1>2. /\ Once(Append(list, w))
      /\ \A x : Contains(Append(list, w), x) <=> Contains(list, x) \/ x = w
  BY <1>1, AppendOnce DEF Exact
<1>3. QED
  BY <1>2 DEF Exact, Places

\* A thread that leaves the list.
LEMMA ExactByRemoval ==
    ASSUME NEW list \in Seq(Ident), NEW at \in Places, Exact(list, at),
           NEW w \in Ident, NEW place, place \notin {"loop", "got"}
    PROVE  Exact(RemoveFirst(list, w), [at EXCEPT ![w] = place])
<1>1. /\ Once(RemoveFirst(list, w))
      /\ \A x : Contains(RemoveFirst(list, w), x) <=> Contains(list, x) /\ x # w
  BY RemoveFirstOnce DEF Exact
<1>2. QED
  BY <1>1 DEF Exact, Places

LEMMA WorkerExact ==
    ASSUME TypeOK, Exact(idle_workers, pc), NEW w \in Ident,
           WorkerStep(w) \/ Deliver(w)
    PROVE  Exact(idle_workers', pc')
<1>1. idle_workers \in Seq(Ident) /\ pc \in Places
  BY DEF TypeOK, Places
<1>2. CASE Register(w) \/ BackToIdle(w)
  <2>1. /\ pc[w] \in {"starting", "after"}
        /\ idle_workers' = Append(idle_workers, w)
        /\ pc' = [pc EXCEPT ![w] = "loop"]
    BY <1>2 DEF Register, BackToIdle
  <2>2. QED
    BY <1>1, <2>1, ExactByAppend
<1>3. CASE Begin(w) \/ CleanUp(w)
  <2>1. \E place \in {"running", "replace", "ending"} :
           /\ idle_workers' = RemoveFirst(idle_workers, w)
           /\ pc' = [pc EXCEPT ![w] = place]
    <3>1. CASE Begin(w)
      BY <3>1 DEF Begin
    <3>2. CASE CleanUp(w)
      BY <1>1, <3>2 DEF CleanUp
    <3>3. QED
      BY <1>3, <3>1, <3>2
  <2>2. PICK place \in {"running", "replace", "ending"} :
           /\ idle_workers' = RemoveFirst(idle_workers, w)
           /\ pc' = [pc EXCEPT ![w] = place]
    BY <2>1
  <2>3. place \notin {"loop", "got"}
    OBVIOUS
  <2>4. QED
    BY <1>1, <2>2, <2>3, ExactByRemoval
<1>4. CASE Retire(w) \/ Take(w) \/ Finish(w) \/ Vanish(w) \/ Deliver(w)
  <2>1. idle_workers' = idle_workers
    BY <1>4 DEF Retire, Take, Finish, Vanish, Deliver, DeliverInTask,
                DeliverInLoop, listVars
  <2>2. \A v \in Ident :
           \/ pc'[v] = pc[v]
           \/ pc[v] \in {"loop", "got"} /\ pc'[v] \in {"loop", "got", "retire", "exit"}
           \/ pc[v] \notin {"loop", "got", "retire", "exit"}
              /\ pc'[v] \notin {"loop", "got"}
    BY <1>1, <1>4 DEF Retire, Take, Finish, Vanish, Deliver, DeliverInTask,
                      DeliverInLoop, Places
  <2>3. QED
    BY <2>1, <2>2, ExactByMoves
<1>5. CASE Replace(w)
  <2>1. PICK S \in Spawnable(1) :
           pc' = [v \in Ident |-> IF v = w THEN "ending"
                                  ELSE IF v \in S THEN "starting" ELSE pc[v]]
    BY <1>5 DEF Replace
  <2>2. \A v \in S : pc[v] = "none"
    BY <2>1, SpawnableFree DEF Free, Alive
  <2>3. pc[w] = "replace" /\ idle_workers' = idle_workers
    BY <1>5 DEF Replace, listVars
  <2>4. \A v \in Ident :
           \/ pc'[v] = pc[v]
           \/ pc[v] \notin {"loop", "got", "retire", "exit"}
              /\ pc'[v] \notin {"loop", "got"}
    BY <2>1, <2>2, <2>3
  <2>5. QED
    BY <2>3, <2>4, ExactByMoves
<1>6. QED
  BY <1>2, <1>3, <1>4, <1>5, Zenon DEF WorkerStep

LEMMA ServerExact ==
    ASSUME Exact(idle_workers, pc),
           AddTaskStep \/ (\E t \in Task : Accept(t)) \/ TrackThreads \/ Clock
           \/ UNCHANGED vars
    PROVE  Exact(idle_workers', pc')
<1>1. idle_workers' = idle_workers
  BY DEF AddTaskStep, Scan, Kill, Untrack, Unlist, Record, CheckZombies, SpawnMore,
         NoSpawn, Put, Accept, TrackThreads, Clock, AgeAdded, AgeTask, AgeKill,
         vars, listVars
<1>2. CASE Record \/ SpawnMore
  <2>1. PICK n : \E S \in Spawnable(n) :
           pc' = [w \in Ident |-> IF w \in S THEN "starting" ELSE pc[w]]
    BY <1>2, Zenon DEF Record, SpawnMore
  <2>2. PICK S \in Spawnable(n) :
           pc' = [w \in Ident |-> IF w \in S THEN "starting" ELSE pc[w]]
    BY <2>1
  <2>3. \A w \in S : pc[w] = "none"
    BY <2>2, SpawnableFree DEF Free, Alive
  <2>4. \A w \in Ident :
           \/ pc'[w] = pc[w]
           \/ pc[w] \notin {"loop", "got", "retire", "exit"}
              /\ pc'[w] \notin {"loop", "got"}
    BY <2>2, <2>3
  <2>5. QED
    BY <1>1, <2>4, ExactByMoves
<1>3. CASE ~(Record \/ SpawnMore)
  <2>1. pc' = pc
    BY <1>3 DEF AddTaskStep, Scan, Kill, Untrack, Unlist, CheckZombies, NoSpawn,
                Put, Accept, TrackThreads, Clock, AgeAdded, AgeTask, AgeKill, vars,
                threadVars
  <2>2. QED
    BY <1>1, <2>1
<1>4. QED
  BY <1>2, <1>3

LEMMA IdleListStays ==
    ASSUME TypeOK, TypeOK', IdleListExact, [Next]_vars
    PROVE  IdleListExact'
<1>1. Exact(idle_workers, pc)
  BY ExactIsIdleListExact
<1>2. Exact(idle_workers', pc')
  BY <1>1, WorkerExact, ServerExact DEF Next
<1>3. QED
  BY <1>2, ExactIsIdleListExact

\* idle_workers is exact, for every number of threads and every setting of the
\* options: a worker that waits for the queue is in it once, and no worker that
\* runs a task and no dead one is, however threads are killed and replaced.
THEOREM IdleListKept == Spec => []IdleListExact
<1>1. Init => IdleListExact
  BY DEF Init, IdleListExact, ToSet
<1>2. TypeInv /\ TypeInv' /\ IdleListExact /\ [Next]_vars => IdleListExact'
  BY IdleListStays DEF TypeInv
<1>3. QED
  BY <1>1, <1>2, Typed, PTL DEF Spec

-----------------------------------------------------------------------------
(* The size of the pool.                                                   *)

\* The threads that serve, are about to, or are about to start their
\* replacement.
Serving == {w \in Ident : pc[w] \notin {"none", "exit", "ending"}}

\* Nothing has been killed or culled.
Undisturbed ==
    /\ apc \in {"accept", "spawn", "put"}
    /\ \A i \in DOMAIN queue : queue[i] # SHUTDOWN
    /\ \A w \in Ident : exc[w] = "none" /\ dying_threads[w] = "none"
    /\ \A w \in Ident : pc[w] # "exit"

\* What a step may do to the threads that serve: more of them, or another one
\* in place of one.
Grows == Serving \subseteq Serving'

Exchanges ==
    \E w \in Serving : \E v \in Ident \ Serving :
        Serving' = (Serving \ {w}) \cup {v}

\* Where it may start a thread without a limit, Replace starts one.
LEMMA SpawnableOne ==
    ASSUME ~ThreadLimit, NEW S \in Spawnable(1)
    PROVE  \E v \in Free : S = {v}
<1>1. S \in SUBSET Free /\ Cardinality(S) = 1
  BY DEF Spawnable, kSubset
<1>2. IsFiniteSet(S)
  BY <1>1, PoolAssumption, FS_Subset DEF Free
<1>3. QED
  BY <1>1, <1>2, FS_Singleton

LEMMA TailKeeps ==
    ASSUME NEW S, NEW q \in Seq(S), q # <<>>, NEW e,
           \A i \in DOMAIN q : q[i] # e
    PROVE  \A i \in DOMAIN Tail(q) : Tail(q)[i] # e
<1>1. /\ Tail(q) \in Seq(S) /\ Len(Tail(q)) = Len(q) - 1
      /\ \A i \in 1..Len(Tail(q)) : Tail(q)[i] = q[i + 1]
  BY HeadTailProperties
<1>2. Len(q) \in Nat /\ DOMAIN q = 1..Len(q) /\ DOMAIN Tail(q) = 1..Len(Tail(q))
  BY <1>1, LenProperties
<1>3. QED
  BY <1>1, <1>2

LEMMA WorkerUndisturbed ==
    ASSUME TypeInv, Undisturbed, ~ThreadLimit, NEW w \in Ident,
           WorkerStep(w) \/ Deliver(w)
    PROVE  Undisturbed' /\ (Serving' = Serving \/ Exchanges)
<1>1. /\ queue \in Line /\ pc \in Places
      /\ dying_threads \in [Ident -> {"none", "dying", "zombie"}]
      /\ exc \in [Ident -> {"none", "pending"}]
  BY Typing DEF TypeInv, TypeOK, Places
<1>2. CASE Register(w) \/ Retire(w) \/ Begin(w) \/ Finish(w) \/ BackToIdle(w)
           \/ CleanUp(w)
  <2>1. /\ UNCHANGED <<queue, exc, apc>>
        /\ \A v \in Ident : dying_threads'[v] = "none"
    BY <1>1, <1>2 DEF Register, Retire, Begin, Finish, BackToIdle, CleanUp, listVars,
                      serverVars, Undisturbed
  <2>2. \E place \in {"loop", "retire", "running", "after", "replace"} :
           pc' = [pc EXCEPT ![w] = place]
    <3>1. CASE Register(w) \/ Retire(w) \/ Begin(w) \/ BackToIdle(w)
      BY <3>1 DEF Register, Retire, Begin, BackToIdle
    <3>2. CASE Finish(w)
      BY <3>2 DEF Finish, Undisturbed
    <3>3. CASE CleanUp(w)
      BY <3>3 DEF CleanUp, Undisturbed
    <3>4. QED
      BY <1>2, <3>1, <3>2, <3>3
  <2>3. PICK place \in {"loop", "retire", "running", "after", "replace"} :
           pc' = [pc EXCEPT ![w] = place]
    BY <2>2
  <2>4. Undisturbed'
    BY <1>1, <2>1, <2>3 DEF Undisturbed, Places
  <2>5. pc[w] \notin {"none", "exit", "ending"}
    BY <1>2 DEF Register, Retire, Begin, Finish, BackToIdle, CleanUp, Undisturbed
  <2>6. Serving' = Serving
    BY <1>1, <2>3, <2>5 DEF Serving, Places
  <2>7. QED
    BY <2>4, <2>6
<1>3. CASE Take(w)
  <2>1. queue # <<>> /\ queue' = Tail(queue) /\ UNCHANGED <<exc, apc, dying_threads>>
    BY <1>3 DEF Take, listVars, serverVars
  <2>2. 1 \in DOMAIN queue /\ Head(queue) = queue[1]
    BY <1>1, <2>1, LenProperties, EmptySeq DEF Line
  <2>3. pc' = [pc EXCEPT ![w] = "got"]
    BY <1>3, <2>2 DEF Take, Undisturbed
  <2>4. \A i \in DOMAIN queue' : queue'[i] # SHUTDOWN
    BY <1>1, <2>1, TailKeeps DEF Line, Undisturbed
  <2>5. Undisturbed'
    BY <1>1, <2>1, <2>3, <2>4 DEF Undisturbed, Places
  <2>6. Serving' = Serving
    BY <1>1, <1>3, <2>3 DEF Take, Serving, Places
  <2>7. QED
    BY <2>5, <2>6
<1>4. CASE Replace(w)
  <2>1. PICK S \in Spawnable(1) :
           pc' = [v \in Ident |-> IF v = w THEN "ending"
                                  ELSE IF v \in S THEN "starting" ELSE pc[v]]
    BY <1>4 DEF Replace
  <2>2. PICK v \in Free : S = {v}
    BY <2>1, SpawnableOne
  <2>3. pc[w] = "replace" /\ pc[v] = "none" /\ v \in Ident /\ v # w
    BY <1>4, <2>2 DEF Replace, Free, Alive
  <2>4. Undisturbed'
    BY <1>4, <2>1 DEF Replace, Undisturbed, listVars, serverVars
  <2>5. w \in Serving /\ v \in Ident \ Serving
    BY <2>3 DEF Serving
  <2>6. Serving' = (Serving \ {w}) \cup {v}
    BY <2>1, <2>2, <2>3 DEF Serving
  <2>7. QED
    BY <2>4, <2>5, <2>6 DEF Exchanges
<1>5. CASE Vanish(w)
  <2>1. pc[w] = "ending" /\ pc' = [pc EXCEPT ![w] = "none"]
    BY <1>5 DEF Vanish
  <2>2. Undisturbed'
    BY <1>1, <1>5, <2>1 DEF Vanish, Undisturbed, listVars, Places
  <2>3. Serving' = Serving
    BY <1>1, <2>1 DEF Serving, Places
  <2>4. QED
    BY <2>2, <2>3
<1>6. CASE Deliver(w)
  BY <1>6 DEF Deliver, DeliverInTask, DeliverInLoop, Undisturbed
<1>7. QED
  BY <1>2, <1>3, <1>4, <1>5, <1>6, Zenon DEF WorkerStep

LEMMA PutUndisturbed ==
    ASSUME NEW S, NEW q \in Seq(S), NEW t, NEW e,
           \A i \in DOMAIN q : q[i] # e, t # e
    PROVE  \A i \in DOMAIN (q \o [j \in 1..0 |-> e] \o <<t>>) :
              (q \o [j \in 1..0 |-> e] \o <<t>>)[i] # e
<1>1. [j \in 1..0 |-> e] = <<>>
  OBVIOUS
<1>2. q \o <<>> = q
  BY ConcatEmptySeq
<1>3. q \in Seq(S \cup {t}) /\ <<t>> \in Seq(S \cup {t})
  OBVIOUS
<1>4. /\ Len(q \o <<t>>) = Len(q) + 1 /\ q \o <<t>> \in Seq(S \cup {t})
      /\ \A i \in 1..(Len(q) + 1) :
            (q \o <<t>>)[i] = IF i <= Len(q) THEN q[i] ELSE <<t>>[i - Len(q)]
  BY <1>3, ConcatProperties
<1>5. Len(q) \in Nat /\ DOMAIN q = 1..Len(q) /\ DOMAIN (q \o <<t>>) = 1..(Len(q) + 1)
  BY <1>4, LenProperties
<1>6. \A i \in DOMAIN (q \o <<t>>) : (q \o <<t>>)[i] # e
  BY <1>4, <1>5
<1>7. QED
  BY <1>1, <1>2, <1>6

LEMMA ServerUndisturbed ==
    ASSUME TypeInv, Undisturbed, ~ThreadLimit, ~CanKill, Culled = 0,
           AddTaskStep \/ (\E t \in Task : Accept(t)) \/ TrackThreads \/ Clock
           \/ UNCHANGED vars
    PROVE  /\ Undisturbed' /\ Grows
           /\ SpawnMore \/ pc' = pc
<1>1. /\ queue \in Line /\ pc \in Places
      /\ dying_threads \in [Ident -> {"none", "dying", "zombie"}]
  BY Typing DEF TypeInv, TypeOK, Places
<1>2. CASE SpawnMore
  <2>1. PICK S \in Spawnable(SpawnIfUnder - Busy) :
           pc' = [w \in Ident |-> IF w \in S THEN "starting" ELSE pc[w]]
    BY <1>2 DEF SpawnMore
  <2>2. UNCHANGED <<queue, dying_threads, exc>> /\ apc' \in {"accept", "put"}
    BY <1>2 DEF SpawnMore, Refuse, listVars
  <2>3. Undisturbed' /\ Grows
    BY <1>1, <2>1, <2>2 DEF Undisturbed, Grows, Serving
  <2>4. QED
    BY <1>2, <2>3
<1>3. CASE Put
  <2>1. incoming \in Task /\ incoming # SHUTDOWN
    BY <1>3, Typing, PoolAssumption DEF Put, TypeInv, ServerHolds
  <2>2. queue' = queue \o [i \in 1..0 |-> SHUTDOWN] \o <<incoming>>
    BY <1>3 DEF Put
  <2>3. \A i \in DOMAIN queue' : queue'[i] # SHUTDOWN
    BY <1>1, <2>1, <2>2, PutUndisturbed DEF Undisturbed, Line
  <2>4. UNCHANGED <<dying_threads, exc, pc>> /\ apc' = "accept"
    BY <1>3 DEF Put, listVars, threadVars
  <2>5. QED
    BY <2>3, <2>4 DEF Undisturbed, Grows, Serving
<1>4. CASE NoSpawn \/ (\E t \in Task : Accept(t)) \/ UNCHANGED vars
  <2>1. UNCHANGED <<queue, dying_threads, exc, pc>>
    BY <1>4 DEF NoSpawn, Accept, vars, listVars, threadVars
  <2>2. apc' \in {"spawn", "put"} \/ apc' = apc
    BY <1>4 DEF NoSpawn, Accept, vars, serverVars
  <2>3. QED
    BY <2>1, <2>2 DEF Undisturbed, Grows, Serving
<1>5. CASE Clock \/ TrackThreads
  <2>1. UNCHANGED <<queue, exc, pc, apc>>
    BY <1>5 DEF Clock, AgeAdded, AgeTask, AgeKill, TrackThreads, threadVars, serverVars
  <2>2. \A w \in Ident : dying_threads'[w] = "none"
    BY <1>1, <1>5 DEF Clock, AgeAdded, AgeTask, AgeKill, TrackThreads, listVars,
                      Undisturbed
  <2>3. QED
    BY <2>1, <2>2 DEF Undisturbed, Grows, Serving
<1>6. QED
  BY <1>2, <1>3, <1>4, <1>5
  DEF AddTaskStep, Scan, Kill, Untrack, Unlist, Record, CheckZombies, Undisturbed

\* The threads are the elements of a finite set, so they can be counted.
LEMMA SizeKept ==
    ASSUME Grows \/ Exchanges
    PROVE  /\ Cardinality(Serving') >= Cardinality(Serving)
           /\ Exchanges => Cardinality(Serving') = Cardinality(Serving)
<1>1. /\ IsFiniteSet(Serving) /\ IsFiniteSet(Serving')
      /\ Cardinality(Serving) \in Nat /\ Cardinality(Serving') \in Nat
  <2>1. Serving \in SUBSET Ident /\ Serving' \in SUBSET Ident
    BY DEF Serving
  <2>2. QED
    BY <2>1, PoolAssumption, FS_Subset, FS_CardinalityType
<1>2. Grows => Cardinality(Serving') >= Cardinality(Serving)
  BY <1>1, FS_Subset DEF Grows
<1>3. ASSUME Exchanges PROVE Cardinality(Serving') = Cardinality(Serving)
  <2>1. PICK w \in Serving : \E v \in Ident \ Serving :
           Serving' = (Serving \ {w}) \cup {v}
    BY <1>3 DEF Exchanges
  <2>2. PICK v \in Ident \ Serving : Serving' = (Serving \ {w}) \cup {v}
    BY <2>1
  <2>3. /\ IsFiniteSet(Serving \ {w})
        /\ Cardinality(Serving \ {w}) = Cardinality(Serving) - 1
    BY <1>1, <2>1, FS_RemoveElement
  <2>4. v \notin Serving \ {w}
    BY <2>2
  <2>5. Cardinality((Serving \ {w}) \cup {v}) = Cardinality(Serving \ {w}) + 1
    BY <2>3, <2>4, FS_AddElement
  <2>6. QED
    BY <1>1, <2>2, <2>3, <2>5
<1>4. QED
  BY <1>1, <1>2, <1>3

LEMMA InitSize == Init => Undisturbed /\ Cardinality(Serving) = NWorkers
<1> SUFFICES ASSUME Init PROVE Undisturbed /\ Cardinality(Serving) = NWorkers
  OBVIOUS
<1>1. PICK S \in kSubset(NWorkers, Ident) :
         pc = [w \in Ident |-> IF w \in S THEN "starting" ELSE "none"]
  BY DEF Init
<1>2. S \in SUBSET Ident /\ Cardinality(S) = NWorkers
  BY <1>1 DEF kSubset
<1>3. Serving = S
  BY <1>1, <1>2 DEF Serving
<1>4. Undisturbed
  BY <1>1 DEF Init, Undisturbed
<1>5. QED
  BY <1>2, <1>3, <1>4

\* max_requests never drains the pool: as long as nothing is killed, no token
\* is queued to cull workers and threads can be started, nworkers threads are
\* serving, about to serve or about to start their replacement, in every order
\* of their steps, however many workers retire at the same time and whichever
\* ids are reused.
THEOREM PoolNeverDrained ==
    ASSUME ~CanKill, ~ThreadLimit
    PROVE  Spec /\ [](Culled = 0) => []PoolKeepsItsSize
<1> DEFINE Inv == Undisturbed /\ Cardinality(Serving) >= NWorkers
<1>1. Init => Inv
  BY InitSize, PoolAssumption
<1>2. TypeInv /\ Culled = 0 /\ Inv /\ [Next]_vars => Inv'
  <2> SUFFICES ASSUME TypeInv, Culled = 0, Inv, [Next]_vars PROVE Inv'
    OBVIOUS
  <2>1. Undisturbed' /\ (Grows \/ Exchanges)
    BY WorkerUndisturbed, ServerUndisturbed DEF Next, Grows
  <2>2. /\ Cardinality(Serving) \in Nat /\ Cardinality(Serving') \in Nat
        /\ NWorkers \in Nat
    <3>1. Serving \in SUBSET Ident /\ Serving' \in SUBSET Ident
      BY DEF Serving
    <3>2. QED
      BY <3>1, PoolAssumption, FS_Subset, FS_CardinalityType
  <2>3. QED
    BY <2>1, <2>2, SizeKept
<1>3. Inv => PoolKeepsItsSize
  BY DEF PoolKeepsItsSize, Serving
<1> HIDE DEF Inv
<1>4. QED
  BY <1>1, <1>2, <1>3, Typed, PTL DEF Spec

\* A thread is in self.workers once, between its registration and its end.
Registered == {"loop", "got", "running", "after", "retire"}

WorkersExact ==
    /\ Once(workers)
    /\ \A w \in Ident : Contains(workers, w) => pc[w] \in Registered

LEMMA WorkersStayExact ==
    ASSUME TypeInv, Undisturbed, WorkersExact, ~ThreadLimit, NEW w \in Ident,
           WorkerStep(w) \/ Deliver(w)
    PROVE  WorkersExact'
<1>1. workers \in Seq(Ident) /\ pc \in Places
  BY DEF TypeInv, TypeOK, Places
<1>2. CASE Register(w)
  <2>1. ~Contains(workers, w)
    BY <1>2 DEF Register, WorkersExact, Registered
  <2>2. /\ Once(workers')
        /\ \A x : Contains(workers', x) <=> Contains(workers, x) \/ x = w
    BY <1>1, <1>2, <2>1, AppendOnce DEF Register, WorkersExact
  <2>3. pc' = [pc EXCEPT ![w] = "loop"]
    BY <1>2 DEF Register
  <2>4. QED
    BY <1>1, <2>2, <2>3 DEF WorkersExact, Registered, Places
<1>3. CASE CleanUp(w)
  <2>1. /\ Once(workers')
        /\ \A x : Contains(workers', x) <=> Contains(workers, x) /\ x # w
    BY <1>1, <1>3, RemoveFirstOnce DEF CleanUp, WorkersExact
  <2>2. \A v \in Ident : v # w => pc'[v] = pc[v]
    BY <1>1, <1>3 DEF CleanUp, Places
  <2>3. QED
    BY <2>1, <2>2 DEF WorkersExact
<1>4. CASE Replace(w)
  <2>1. PICK S \in Spawnable(1) :
           pc' = [v \in Ident |-> IF v = w THEN "ending"
                                  ELSE IF v \in S THEN "starting" ELSE pc[v]]
    BY <1>4 DEF Replace
  <2>2. \A v \in S : pc[v] = "none"
    BY <2>1, SpawnableFree DEF Free, Alive
  <2>3. pc[w] = "replace" /\ workers' = workers
    BY <1>4 DEF Replace, listVars
  <2>4. QED
    BY <2>1, <2>2, <2>3 DEF WorkersExact, Registered
<1>5. CASE Retire(w) \/ Take(w) \/ Begin(w) \/ Finish(w) \/ BackToIdle(w)
  <2>1. workers' = workers
    BY <1>5 DEF Retire, Take, Begin, Finish, BackToIdle, listVars
  <2>2. \A v \in Ident : pc'[v] = pc[v] \/ pc'[v] \in Registered \cup {"exit"}
    BY <1>1, <1>5 DEF Retire, Take, Begin, Finish, BackToIdle, Places, Registered
  <2>3. \A v \in Ident : pc'[v] # "exit"
    BY WorkerUndisturbed, <1>5 DEF WorkerStep, Undisturbed
  <2>4. QED
    BY <2>1, <2>2, <2>3 DEF WorkersExact
<1>6. CASE Vanish(w)
  <2>1. workers' = workers /\ pc[w] = "ending" /\ pc' = [pc EXCEPT ![w] = "none"]
    BY <1>6 DEF Vanish, listVars
  <2>2. QED
    BY <1>1, <2>1 DEF WorkersExact, Registered, Places
<1>7. CASE Deliver(w)
  BY <1>7 DEF Deliver, DeliverInTask, DeliverInLoop, Undisturbed
<1>8. QED
  BY <1>2, <1>3, <1>4, <1>5, <1>6, <1>7, Zenon DEF WorkerStep

LEMMA NoneCulled ==
    ASSUME TypeInv, WorkersExact, Cardinality(Serving) = NWorkers
    PROVE  Culled = 0
<1>1. workers \in Seq(Ident) /\ NWorkers \in Nat
  BY PoolAssumption DEF TypeInv, TypeOK
<1>2. DOMAIN workers = 1..Len(workers) /\ Len(workers) \in Nat
  BY <1>1, LenProperties
<1>3. \A i \in 1..Len(workers) : workers[i] \in Serving
  <2>1. ASSUME NEW i \in 1..Len(workers) PROVE workers[i] \in Serving
    <3>1. workers[i] \in Ident /\ Contains(workers, workers[i])
      BY <1>1, <1>2, ElementOfSeq DEF Contains
    <3>2. QED
      BY <3>1 DEF WorkersExact, Registered, Serving
  <2>2. QED
    BY <2>1
<1>4. workers \in Injection(1..Len(workers), Serving)
  <2>1. workers \in [1..Len(workers) -> Serving]
    BY <1>1, <1>2, <1>3
  <2>2. QED
    BY <1>2, <2>1 DEF Injection, IsInjective, WorkersExact, Once
<1>5. IsFiniteSet(Serving)
  BY PoolAssumption, FS_Subset DEF Serving
<1>6. Cardinality(1..Len(workers)) = Len(workers)
  <2>1. Cardinality(1..Len(workers)) =
           IF 1 > Len(workers) THEN 0 ELSE Len(workers) - 1 + 1
    BY <1>2, FS_Interval
  <2>2. QED
    BY <1>2, <2>1
<1>7. Len(workers) <= NWorkers
  BY <1>4, <1>5, <1>6, FS_Injection
<1>8. ~(Len(workers) > NWorkers)
  BY <1>1, <1>2, <1>7
<1>9. QED
  BY <1>8, Zenon DEF Culled

\* With spawn_if_under off the pool has exactly nworkers such threads at every
\* moment, and never a worker to cull.
THEOREM PoolSizeFixed ==
    ASSUME ~CanKill, ~ThreadLimit, SpawnIfUnder = 0
    PROVE  Spec => []PoolKeepsItsSize /\ [](Cardinality(Serving) = NWorkers)
<1> DEFINE Size == Cardinality(Serving) = NWorkers
           Inv  == Undisturbed /\ Size /\ WorkersExact
<1>1. Init => Inv
  BY InitSize, LenProperties DEF Init, WorkersExact, Once, Contains
<1>2. TypeInv /\ Inv /\ [Next]_vars => Inv'
  <2> SUFFICES ASSUME TypeInv, Inv, [Next]_vars PROVE Inv'
    OBVIOUS
  <2>1. Culled = 0
    BY NoneCulled
  <2>2. CASE \E w \in Ident : WorkerStep(w) \/ Deliver(w)
    <3>1. PICK w \in Ident : WorkerStep(w) \/ Deliver(w)
      BY <2>2
    <3>2. Undisturbed' /\ WorkersExact'
      BY <3>1, WorkerUndisturbed, WorkersStayExact
    <3>3. Cardinality(Serving') = Cardinality(Serving)
      BY <3>1, WorkerUndisturbed, SizeKept
    <3>4. QED
      BY <3>2, <3>3
  <2>3. CASE AddTaskStep \/ (\E t \in Task : Accept(t)) \/ TrackThreads \/ Clock
             \/ UNCHANGED vars
    <3>1. ~SpawnMore
      <4>1. Busy \in Nat
        <5>1. DOMAIN workers = 1..Len(workers) /\ Len(workers) \in Nat
          BY LenProperties DEF TypeInv, TypeOK
        <5>2. IsFiniteSet(DOMAIN workers)
          BY <5>1, FS_Interval
        <5>3. QED
          BY <5>2, FS_Subset, FS_CardinalityType DEF Busy
      <4>2. QED
        BY <4>1, PoolAssumption DEF SpawnMore
    <3>2. Undisturbed' /\ pc' = pc
      BY <2>1, <2>3, <3>1, ServerUndisturbed
    <3>3. workers' = workers
      BY <2>3, <3>1 DEF AddTaskStep, Scan, Kill, Untrack, Unlist, Record, CheckZombies,
                        NoSpawn, Put, Accept, TrackThreads, Clock, AgeAdded, AgeTask,
                        AgeKill, vars, listVars, Undisturbed
    <3>4. QED
      BY <3>2, <3>3 DEF WorkersExact, Serving
  <2>4. QED
    BY <2>2, <2>3 DEF Next
<1>3. Inv => Size /\ PoolKeepsItsSize
  BY PoolAssumption DEF PoolKeepsItsSize, Serving
<1> HIDE DEF Inv, Size
<1>4. Spec => []PoolKeepsItsSize /\ []Size
  BY <1>1, <1>2, <1>3, Typed, PTL DEF Spec
<1>5. QED
  BY <1>4 DEF Size

-----------------------------------------------------------------------------
(* The line of tasks.                                                      *)

\* The m places of the connections in a queue, in their order.  That every
\* queue has such an enumeration would take induction; that the pool's queue
\* has one at every moment does not.
Enumerates(e, m, q) ==
    /\ m \in Nat /\ e \in [1..m -> DOMAIN q]
    /\ \A n \in 1..m : q[e[n]] # SHUTDOWN
    /\ \A i \in DOMAIN q : q[i] # SHUTDOWN => \E n \in 1..m : e[n] = i
    /\ \A k, n \in 1..m : k < n => e[k] < e[n]

\* An increasing sequence of n numbers has n elements.
LEMMA CountIncreasing ==
    ASSUME NEW m \in Nat, NEW e \in [1..m -> Nat],
           \A k, n \in 1..m : k < n => e[k] < e[n]
    PROVE  Cardinality({e[k] : k \in 1..m}) = m
<1> DEFINE R == {e[k] : k \in 1..m}
<1>1. e \in Bijection(1..m, R)
  <2>1. e \in [1..m -> R]
    OBVIOUS
  <2>2. \A k, n \in 1..m : e[k] = e[n] => k = n
    <3>1. SUFFICES ASSUME NEW k \in 1..m, NEW n \in 1..m, k # n
                   PROVE  e[k] # e[n]
      OBVIOUS
    <3>2. CASE k < n
      BY <3>2
    <3>3. CASE n < k
      BY <3>3
    <3>4. QED
      BY <3>1, <3>2, <3>3
  <2>3. \A r \in R : \E k \in 1..m : e[k] = r
    OBVIOUS
  <2>4. QED
    BY <2>1, <2>2, <2>3 DEF Bijection, Injection, Surjection, IsInjective
<1>2. IsFiniteSet(1..m) /\ Cardinality(1..m) = m
  <2>1. IsFiniteSet(1..m) /\ Cardinality(1..m) = IF 1 > m THEN 0 ELSE m - 1 + 1
    BY FS_Interval
  <2>2. QED
    BY <2>1
<1>3. QED
  BY <1>1, <1>2, FS_Bijection DEF ExistsBijection

LEMMA TasksEnumerated ==
    ASSUME NEW q \in Line, NEW m, NEW e, Enumerates(e, m, q)
    PROVE  Tasks(q) = [n \in 1..m |-> q[e[n]]]
<1>1. /\ m \in Nat /\ e \in [1..m -> Nat]
      /\ DOMAIN q = 1..Len(q) /\ Len(q) \in Nat
      /\ \A k, n \in 1..m : k < n => e[k] < e[n]
  <2>1. DOMAIN q = 1..Len(q) /\ Len(q) \in Nat
    BY LenProperties DEF Line
  <2>2. QED
    BY <2>1 DEF Enumerates
<1>2. TaskAt(q) = {e[k] : k \in 1..m}
  BY DEF TaskAt, Enumerates
<1>3. Cardinality(TaskAt(q)) = m
  BY <1>1, <1>2, CountIncreasing
<1>4. ASSUME NEW n \in 1..m
      PROVE  Cardinality({j \in TaskAt(q) : j <= e[n]}) = n
  <2> DEFINE f == [k \in 1..n |-> e[k]]
  <2>1. {j \in TaskAt(q) : j <= e[n]} = {f[k] : k \in 1..n}
    <3>1. ASSUME NEW k \in 1..m
          PROVE  e[k] <= e[n] <=> k <= n
      <4>1. CASE k < n
        BY <1>1, <4>1
      <4>2. CASE k = n
        BY <1>1, <4>2
      <4>3. CASE n < k
        BY <1>1, <4>3
      <4>4. QED
        BY <1>1, <4>1, <4>2, <4>3
    <3>2. QED
      BY <1>1, <1>2, <3>1
  <2>2. /\ n \in Nat /\ f \in [1..n -> Nat]
        /\ \A k, l \in 1..n : k < l => f[k] < f[l]
    BY <1>1
  <2>3. QED
    BY <2>1, <2>2, CountIncreasing
<1> DEFINE Nth(n) ==
              CHOOSE i \in TaskAt(q) : Cardinality({j \in TaskAt(q) : j <= i}) = n
<1>5. ASSUME NEW n \in 1..m
      PROVE  Nth(n) = e[n]
  <2> DEFINE Here(i) == Cardinality({j \in TaskAt(q) : j <= i}) = n
  <2>1. e[n] \in TaskAt(q) /\ Here(e[n])
    BY <1>2, <1>4
  <2>2. ASSUME NEW i \in TaskAt(q), Here(i)
        PROVE  i = e[n]
    <3>1. PICK k \in 1..m : i = e[k]
      BY <1>2
    <3>2. k = n
      BY <1>4, <2>2, <3>1
    <3>3. QED
      BY <3>1, <3>2
  <2> HIDE DEF Here
  <2>3. (CHOOSE i \in TaskAt(q) : Here(i)) = e[n]
    BY <2>1, <2>2
  <2>4. QED
    BY <2>3 DEF Here
<1>6. Tasks(q) = [n \in 1..Cardinality(TaskAt(q)) |-> q[Nth(n)]]
  BY DEF Tasks
<1> HIDE DEF Nth
<1>7. QED
  BY <1>3, <1>5, <1>6

Enumerable(q) == \E m : \E e : Enumerates(e, m, q)

LEMMA TailPlaces ==
    ASSUME NEW q \in Line, q # <<>>
    PROVE  /\ Tail(q) \in Line /\ Len(q) \in Nat \ {0}
           /\ DOMAIN q = 1..Len(q) /\ DOMAIN Tail(q) = 1..(Len(q) - 1)
           /\ \A i \in 1..(Len(q) - 1) : Tail(q)[i] = q[i + 1]
           /\ Head(q) = q[1]
<1>1. /\ Tail(q) \in Line /\ Len(Tail(q)) = Len(q) - 1
      /\ \A i \in 1..Len(Tail(q)) : Tail(q)[i] = q[i + 1]
  BY HeadTailProperties DEF Line
<1>2. Len(q) \in Nat /\ DOMAIN q = 1..Len(q) /\ Len(q) # 0
  BY LenProperties, EmptySeq DEF Line
<1>3. DOMAIN Tail(q) = 1..Len(Tail(q))
  BY <1>1, LenProperties DEF Line
<1>4. QED
  BY <1>1, <1>2, <1>3

\* A token goes: the tasks stay.
LEMMA TokenTaken ==
    ASSUME NEW q \in Line, q # <<>>, Head(q) = SHUTDOWN, Enumerable(q)
    PROVE  Enumerable(Tail(q)) /\ Tasks(Tail(q)) = Tasks(q)
<1>1. PICK m, e : Enumerates(e, m, q)
  BY DEF Enumerable
<1>2. /\ Tail(q) \in Line /\ Len(q) \in Nat \ {0}
      /\ DOMAIN q = 1..Len(q) /\ DOMAIN Tail(q) = 1..(Len(q) - 1)
      /\ \A i \in 1..(Len(q) - 1) : Tail(q)[i] = q[i + 1]
      /\ q[1] = SHUTDOWN
  BY TailPlaces
<1>3. \A n \in 1..m : e[n] \in 2..Len(q)
  BY <1>1, <1>2 DEF Enumerates
<1> DEFINE f == [n \in 1..m |-> e[n] - 1]
<1>4. \A n \in 1..m : f[n] \in 1..(Len(q) - 1) /\ Tail(q)[f[n]] = q[e[n]]
  BY <1>2, <1>3
<1>5. Enumerates(f, m, Tail(q))
  <2>1. m \in Nat /\ f \in [1..m -> DOMAIN Tail(q)]
    BY <1>1, <1>2, <1>4 DEF Enumerates
  <2>2. \A n \in 1..m : Tail(q)[f[n]] # SHUTDOWN
    BY <1>1, <1>4 DEF Enumerates
  <2>3. ASSUME NEW i \in DOMAIN Tail(q), Tail(q)[i] # SHUTDOWN
        PROVE  \E n \in 1..m : f[n] = i
    <3>1. i + 1 \in DOMAIN q /\ q[i + 1] # SHUTDOWN /\ i \in Nat
      BY <1>2, <2>3
    <3>2. PICK n \in 1..m : e[n] = i + 1
      BY <1>1, <3>1 DEF Enumerates
    <3>3. QED
      BY <3>1, <3>2
  <2>4. \A k, n \in 1..m : k < n => f[k] < f[n]
    BY <1>1, <1>2, <1>3 DEF Enumerates
  <2>5. QED
    BY <2>1, <2>2, <2>3, <2>4 DEF Enumerates
<1> HIDE DEF f
<1>6. Tasks(q) = [n \in 1..m |-> q[e[n]]]
  BY <1>1, TasksEnumerated
<1>7. Tasks(Tail(q)) = [n \in 1..m |-> Tail(q)[f[n]]]
  BY <1>2, <1>5, TasksEnumerated
<1>8. QED
  BY <1>4, <1>5, <1>6, <1>7 DEF Enumerable

\* A connection goes: it was the first of the tasks.
LEMMA TaskTaken ==
    ASSUME NEW q \in Line, q # <<>>, Head(q) # SHUTDOWN, Enumerable(q)
    PROVE  /\ Enumerable(Tail(q)) /\ Tasks(q) # <<>>
           /\ Head(Tasks(q)) = Head(q) /\ Tasks(Tail(q)) = Tail(Tasks(q))
<1>1. PICK m, e : Enumerates(e, m, q)
  BY DEF Enumerable
<1>2. /\ Tail(q) \in Line /\ Len(q) \in Nat \ {0}
      /\ DOMAIN q = 1..Len(q) /\ DOMAIN Tail(q) = 1..(Len(q) - 1)
      /\ \A i \in 1..(Len(q) - 1) : Tail(q)[i] = q[i + 1]
      /\ Head(q) = q[1] /\ q[1] # SHUTDOWN
  BY TailPlaces
<1>3. m \in Nat \ {0} /\ e[1] = 1
  <2>1. PICK n \in 1..m : e[n] = 1
    BY <1>1, <1>2 DEF Enumerates
  <2>2. m \in Nat \ {0} /\ e[1] \in 1..Len(q) /\ (1 < n => e[1] < e[n])
    BY <1>1, <1>2, <2>1 DEF Enumerates
  <2>3. QED
    BY <1>2, <2>1, <2>2
<1> DEFINE f == [n \in 1..(m - 1) |-> e[n + 1] - 1]
<1>4. \A n \in 1..(m - 1) :
         /\ n + 1 \in 1..m /\ e[n + 1] \in 2..Len(q)
         /\ f[n] \in 1..(Len(q) - 1) /\ Tail(q)[f[n]] = q[e[n + 1]]
  <2>1. ASSUME NEW n \in 1..(m - 1)
        PROVE  n + 1 \in 1..m /\ e[n + 1] \in 2..Len(q)
    <3>1. n + 1 \in 1..m /\ 1 \in 1..m /\ 1 < n + 1
      BY <1>3
    <3>2. e[n + 1] \in 1..Len(q) /\ e[1] < e[n + 1]
      BY <1>1, <1>2, <3>1 DEF Enumerates
    <3>3. QED
      BY <1>2, <1>3, <3>1, <3>2
  <2>2. QED
    BY <1>2, <2>1
<1>5. Enumerates(f, m - 1, Tail(q))
  <2>1. m - 1 \in Nat /\ f \in [1..(m - 1) -> DOMAIN Tail(q)]
    BY <1>2, <1>3, <1>4
  <2>2. \A n \in 1..(m - 1) : Tail(q)[f[n]] # SHUTDOWN
    BY <1>1, <1>4 DEF Enumerates
  <2>3. ASSUME NEW i \in DOMAIN Tail(q), Tail(q)[i] # SHUTDOWN
        PROVE  \E n \in 1..(m - 1) : f[n] = i
    <3>1. i + 1 \in DOMAIN q /\ q[i + 1] # SHUTDOWN /\ i \in Nat \ {0}
      BY <1>2, <2>3
    <3>2. PICK k \in 1..m : e[k] = i + 1
      BY <1>1, <3>1 DEF Enumerates
    <3>3. k - 1 \in 1..(m - 1) /\ k - 1 + 1 = k
      BY <1>3, <3>1, <3>2
    <3>4. f[k - 1] = i
      BY <3>1, <3>2, <3>3
    <3>5. QED
      BY <3>3, <3>4
  <2>4. ASSUME NEW k \in 1..(m - 1), NEW n \in 1..(m - 1), k < n
        PROVE  f[k] < f[n]
    <3>1. k + 1 \in 1..m /\ n + 1 \in 1..m /\ k + 1 < n + 1
      BY <1>3, <2>4
    <3>2. e[k + 1] < e[n + 1]
      BY <1>1, <3>1 DEF Enumerates
    <3>3. QED
      BY <1>2, <1>4, <3>2
  <2>5. QED
    BY <2>1, <2>2, <2>3, <2>4 DEF Enumerates
<1> HIDE DEF f
<1>6. Tasks(q) = [n \in 1..m |-> q[e[n]]]
  BY <1>1, TasksEnumerated
<1>7. Tasks(Tail(q)) = [n \in 1..(m - 1) |-> Tail(q)[f[n]]]
  <2>1. \A k, g : Enumerates(g, k, Tail(q)) =>
                   Tasks(Tail(q)) = [n \in 1..k |-> Tail(q)[g[n]]]
    BY <1>2, TasksEnumerated
  <2>2. QED
    BY <1>5, <2>1, Zenon
<1>8. /\ Tasks(q) \in Seq(Task \cup {SHUTDOWN}) /\ Len(Tasks(q)) = m
      /\ \A n \in 1..m : Tasks(q)[n] = q[e[n]]
  <2>1. \A n \in 1..m : q[e[n]] \in Task \cup {SHUTDOWN}
    BY <1>1, <1>2, ElementOfSeq DEF Enumerates, Line
  <2>2. QED
    BY <1>3, <1>6, <2>1, IsASeq, LenProperties
<1>9. Tasks(q) # <<>> /\ Head(Tasks(q)) = Head(q)
  BY <1>2, <1>3, <1>8, EmptySeq, LenProperties
<1>10. Tasks(Tail(q)) = Tail(Tasks(q))
  <2>1. /\ Tail(Tasks(q)) \in Seq(Task \cup {SHUTDOWN})
        /\ Len(Tail(Tasks(q))) = m - 1
        /\ \A n \in 1..Len(Tail(Tasks(q))) : Tail(Tasks(q))[n] = Tasks(q)[n + 1]
    BY <1>8, <1>9, HeadTailProperties
  <2>2. Tail(Tasks(q)) = [n \in 1..(m - 1) |-> Tail(Tasks(q))[n]]
    BY <2>1, LenProperties
  <2>3. \A n \in 1..(m - 1) : Tail(Tasks(q))[n] = Tail(q)[f[n]]
    BY <1>4, <1>8, <2>1
  <2>4. QED
    BY <1>7, <2>2, <2>3
<1>11. QED
  BY <1>5, <1>9, <1>10 DEF Enumerable

\* add_task puts some tokens and a connection: it is the last of the tasks.
LEMMA TaskPut ==
    ASSUME NEW q \in Line, Enumerable(q), NEW c \in Nat, NEW t \in Task
    PROVE  LET r == q \o [i \in 1..c |-> SHUTDOWN] \o <<t>> IN
           Enumerable(r) /\ Tasks(r) = Append(Tasks(q), t)
<1>1. PICK m, e : Enumerates(e, m, q)
  BY DEF Enumerable
<1> DEFINE r == q \o [i \in 1..c |-> SHUTDOWN] \o <<t>>
           l == Len(q) + c + 1
<1>2. /\ Len(q) \in Nat /\ DOMAIN q = 1..Len(q)
      /\ r \in Line /\ DOMAIN r = 1..l
      /\ \A i \in 1..Len(q) : r[i] = q[i]
      /\ \A i \in (Len(q) + 1)..(l - 1) : r[i] = SHUTDOWN
      /\ r[l] = t
  <2> DEFINE s == [i \in 1..c |-> SHUTDOWN]
             p == q \o s
  <2>1. s \in Line /\ Len(s) = c /\ \A i \in 1..c : s[i] = SHUTDOWN
    BY IsASeq, LenProperties DEF Line
  <2> HIDE DEF s
  <2>2. /\ p \in Line /\ Len(p) = Len(q) + c
        /\ \A i \in 1..(Len(q) + c) :
              p[i] = IF i <= Len(q) THEN q[i] ELSE s[i - Len(q)]
    BY <2>1, ConcatProperties DEF Line
  <2> HIDE DEF p
  <2>3. /\ p \o <<t>> \in Line /\ Len(p \o <<t>>) = Len(p) + 1
        /\ \A i \in 1..(Len(p) + 1) :
              (p \o <<t>>)[i] = IF i <= Len(p) THEN p[i] ELSE <<t>>[i - Len(p)]
    BY <2>2, ConcatProperties DEF Line
  <2>4. Len(q) \in Nat /\ DOMAIN q = 1..Len(q)
    BY LenProperties DEF Line
  <2>5. DOMAIN (p \o <<t>>) = 1..l
    BY <2>2, <2>3, LenProperties DEF Line
  <2>6. r = p \o <<t>>
    BY DEF p, s
  <2> HIDE DEF r
  <2>7. \A i \in 1..Len(q) : r[i] = q[i]
    BY <2>2, <2>3, <2>4, <2>6
  <2>8. ASSUME NEW i \in (Len(q) + 1)..(l - 1) PROVE r[i] = SHUTDOWN
    <3>1. /\ i \in 1..(Len(p) + 1) /\ i <= Len(p) /\ i \in 1..(Len(q) + c)
          /\ ~(i <= Len(q)) /\ i - Len(q) \in 1..c
      BY <2>2, <2>4
    <3>2. QED
      BY <2>1, <2>2, <2>3, <2>6, <3>1
  <2>9. r[l] = t
    BY <2>2, <2>3, <2>4, <2>6
  <2>10. QED
    BY <2>3, <2>4, <2>5, <2>6, <2>7, <2>8, <2>9
<1> HIDE DEF r
<1> DEFINE f == [n \in 1..(m + 1) |-> IF n <= m THEN e[n] ELSE l]
<1>3. /\ m \in Nat /\ \A n \in 1..m : e[n] \in 1..Len(q) /\ q[e[n]] # SHUTDOWN
      /\ \A i \in 1..Len(q) : q[i] # SHUTDOWN => \E n \in 1..m : e[n] = i
      /\ \A k, n \in 1..m : k < n => e[k] < e[n]
  BY <1>1, <1>2 DEF Enumerates
<1>4. /\ \A n \in 1..m : n \in 1..(m + 1) /\ f[n] = e[n] /\ r[f[n]] = q[e[n]]
      /\ m + 1 \in 1..(m + 1) /\ f[m + 1] = l
  BY <1>2, <1>3
<1>5. \A n \in 1..(m + 1) : n \in 1..m \/ n = m + 1
  BY <1>3
<1> HIDE DEF f
<1>6. Enumerates(f, m + 1, r)
  <2>1. m + 1 \in Nat /\ f \in [1..(m + 1) -> DOMAIN r]
    <3>1. \A n \in 1..(m + 1) : f[n] \in 1..l
      BY <1>2, <1>3, <1>4, <1>5
    <3>2. QED
      BY <1>2, <1>3, <3>1 DEF f
  <2>2. \A n \in 1..(m + 1) : r[f[n]] # SHUTDOWN
    <3>1. r[f[m + 1]] # SHUTDOWN
      BY <1>2, <1>4, PoolAssumption
    <3>2. QED
      BY <1>3, <1>4, <1>5, <3>1
  <2>3. ASSUME NEW i \in DOMAIN r, r[i] # SHUTDOWN
        PROVE  \E n \in 1..(m + 1) : f[n] = i
    <3>1. i \in 1..Len(q) \/ i = l
      BY <1>2, <2>3
    <3>2. CASE i = l
      BY <1>4, <3>2
    <3>3. CASE i \in 1..Len(q)
      <4>1. q[i] # SHUTDOWN
        BY <1>2, <2>3, <3>3
      <4>2. PICK n \in 1..m : e[n] = i
        BY <1>3, <3>3, <4>1
      <4>3. QED
        BY <1>4, <4>2
    <3>4. QED
      BY <3>1, <3>2, <3>3
  <2>4. ASSUME NEW k \in 1..(m + 1), NEW n \in 1..(m + 1), k < n
        PROVE  f[k] < f[n]
    <3>1. k \in 1..m
      BY <1>3, <2>4
    <3>2. CASE n \in 1..m
      BY <1>3, <1>4, <2>4, <3>1, <3>2
    <3>3. CASE n = m + 1
      <4>1. f[k] \in 1..Len(q) /\ f[n] = l
        BY <1>3, <1>4, <3>1, <3>3
      <4>2. QED
        BY <1>2, <4>1
    <3>4. QED
      BY <1>5, <3>2, <3>3
  <2>5. QED
    BY <2>1, <2>2, <2>3, <2>4 DEF Enumerates
<1>7. Tasks(q) = [n \in 1..m |-> q[e[n]]]
  BY <1>1, TasksEnumerated
<1>8. Tasks(r) = [n \in 1..(m + 1) |-> r[f[n]]]
  BY <1>2, <1>6, TasksEnumerated
<1>9. Tasks(r) = Append(Tasks(q), t)
  <2>1. Tasks(q) \in Line /\ Len(Tasks(q)) = m
    <3>1. \A n \in 1..m : q[e[n]] \in Task \cup {SHUTDOWN}
      BY <1>2, <1>3, ElementOfSeq DEF Line
    <3>2. QED
      BY <1>3, <1>7, <3>1, IsASeq, LenProperties DEF Line
  <2>2. /\ Append(Tasks(q), t) \in Line /\ Len(Append(Tasks(q), t)) = m + 1
        /\ \A n \in 1..m : Append(Tasks(q), t)[n] = Tasks(q)[n]
        /\ Append(Tasks(q), t)[m + 1] = t
    BY <2>1, AppendProperties DEF Line
  <2>3. Append(Tasks(q), t) = [n \in 1..(m + 1) |-> Append(Tasks(q), t)[n]]
    BY <2>2, LenProperties DEF Line
  <2>4. \A n \in 1..(m + 1) : r[f[n]] = Append(Tasks(q), t)[n]
    BY <1>2, <1>4, <1>5, <1>7, <2>2
  <2>5. QED
    BY <1>8, <2>3, <2>4
<1>10. QED
  BY <1>6, <1>9 DEF Enumerable, r

\* The tasks that were begun and are not over.
InHand == {job[w] : w \in Ident} \ {None}

LineInv == OnePlaceInv /\ Enumerable(queue)

LEMMA InitLine == Init => LineInv /\ Pool!Init
<1> SUFFICES ASSUME Init PROVE LineInv /\ Pool!Init
  OBVIOUS
<1>1. OnePlaceInv
  BY InitOnePlace
<1>2. queue = <<>> /\ queue \in Line /\ DOMAIN queue = {} /\ \A w \in Ident : job[w] = None
  BY DEF Init, Line
<1> DEFINE e == [n \in 1..0 |-> 0]
<1>3. Enumerates(e, 0, queue)
  BY <1>2 DEF Enumerates
<1>4. Tasks(queue) = [n \in 1..0 |-> queue[e[n]]]
  BY <1>2, <1>3, TasksEnumerated
<1>5. Tasks(queue) = <<>>
  BY <1>4
<1>6. QED
  BY <1>1, <1>2, <1>3, <1>5 DEF LineInv, Enumerable, Pool!Init

LEMMA TakeMapped ==
    ASSUME TypeOK, LineInv, NEW w \in Ident, Take(w)
    PROVE  Enumerable(queue') /\ (Pool!Start \/ UNCHANGED Pool!dispatchVars)
<1>1. /\ queue \in Line /\ job \in Jobs /\ queue # <<>> /\ queue' = Tail(queue)
      /\ job[w] = None
  BY Typing DEF Take, LineInv, OnePlaceInv, JobInHand
<1>2. CASE Head(queue) = SHUTDOWN
  <2>1. job' = job
    BY <1>2 DEF Take
  <2>2. Enumerable(queue') /\ Tasks(queue') = Tasks(queue)
    BY <1>1, <1>2, TokenTaken DEF LineInv
  <2>3. QED
    BY <2>1, <2>2 DEF Pool!dispatchVars
<1>3. CASE Head(queue) # SHUTDOWN
  <2>1. job' = [job EXCEPT ![w] = Head(queue)]
    BY <1>3 DEF Take
  <2>2. /\ Enumerable(queue') /\ Tasks(queue) # <<>>
        /\ Head(Tasks(queue)) = Head(queue) /\ Tasks(queue') = Tail(Tasks(queue))
    BY <1>1, <1>3, TaskTaken DEF LineInv
  <2>3. Head(queue) \in Task /\ Head(queue) # None
    BY <1>1, <1>3, HeadTailProperties, PoolAssumption DEF Line
  <2>4. InHand' = InHand \cup {Head(queue)}
    BY <1>1, <2>1, <2>3 DEF InHand, Jobs
  <2>5. QED
    BY <2>2, <2>4 DEF Pool!Start, InHand
<1>4. QED
  BY <1>2, <1>3

\* A worker lets go of what it has in hand.
LEMMA EndMapped ==
    ASSUME TypeOK, LineInv, NEW w \in Ident, queue' = queue,
           job' = [job EXCEPT ![w] = None]
    PROVE  (\E t \in Task : Pool!End(t)) \/ UNCHANGED Pool!dispatchVars
<1>1. job \in Jobs
  BY Typing
<1>2. CASE job[w] = None
  <2>1. job' = job
    BY <1>1, <1>2 DEF Jobs
  <2>2. QED
    BY <2>1 DEF Pool!dispatchVars
<1>3. CASE job[w] # None
  <2>1. job[w] \in Task /\ job[w] \in InHand
    BY <1>1, <1>3 DEF Jobs, InHand
  <2>2. PICK t \in Task : t = job[w]
    BY <2>1
  <2>3. \A v \in Ident : v # w /\ job[v] = job[w] => FALSE
    BY <1>3 DEF LineInv, OnePlaceInv, ConnectionInOnePlace
  <2>4. InHand' = InHand \ {t}
    BY <1>1, <2>2, <2>3 DEF InHand, Jobs
  <2>5. Pool!End(t)
    BY <2>1, <2>2, <2>4 DEF Pool!End, InHand
  <2>6. QED
    BY <2>5
<1>4. QED
  BY <1>2, <1>3

LEMMA PutMapped ==
    ASSUME TypeOK, LineInv, ServerHolds, Put
    PROVE  Enumerable(queue') /\ \E t \in Task : Pool!Submit(t)
<1>1. queue \in Line /\ job \in Jobs /\ incoming \in Task /\ incoming # None
  BY Typing, PoolAssumption DEF Put, ServerHolds
<1>2. Culled \in Nat
  <2>1. workers \in Seq(Ident) /\ NWorkers \in Nat
    BY PoolAssumption DEF TypeOK
  <2>2. Len(workers) \in Nat
    BY <2>1, LenProperties
  <2>3. QED
    BY <2>1, <2>2 DEF Culled
<1>3. /\ queue' = queue \o [i \in 1..Culled |-> SHUTDOWN] \o <<incoming>>
      /\ job' = job
  BY DEF Put, threadVars
<1> HIDE DEF Culled
<1>4. Enumerable(queue') /\ Tasks(queue') = Append(Tasks(queue), incoming)
  BY <1>1, <1>2, <1>3, TaskPut DEF LineInv
<1>5. ~Pool!Waits(incoming)
  <2>1. PICK m, e : Enumerates(e, m, queue)
    BY DEF LineInv, Enumerable
  <2>2. Tasks(queue) = [n \in 1..m |-> queue[e[n]]]
    BY <1>1, <2>1, TasksEnumerated
  <2>3. \A i \in DOMAIN queue : queue[i] # incoming
    BY <1>1 DEF LineInv, OnePlaceInv, ConnectionInOnePlace, Queued
  <2>4. \A n \in DOMAIN Tasks(queue) : Tasks(queue)[n] # incoming
    BY <2>1, <2>2, <2>3 DEF Enumerates
  <2>5. QED
    BY <2>4 DEF Pool!Waits
<1>6. incoming \notin InHand
  BY <1>1 DEF LineInv, OnePlaceInv, ConnectionInOnePlace, InHand
<1>7. Pool!Submit(incoming)
  BY <1>3, <1>4, <1>5, <1>6 DEF Pool!Submit, InHand
<1>8. QED
  BY <1>1, <1>4, <1>7

\* Every step of the pool is a step of the line, or none.
LEMMA StepMapped ==
    ASSUME TypeOK, LineInv, [Next]_vars, Put => ServerHolds
    PROVE  Enumerable(queue') /\ [Pool!Next]_(Pool!dispatchVars)
<1>1. ASSUME NEW w \in Ident, Take(w)
      PROVE  Enumerable(queue') /\ [Pool!Next]_(Pool!dispatchVars)
  BY <1>1, TakeMapped DEF Pool!Next
<1>2. ASSUME NEW w \in Ident, Finish(w) \/ Deliver(w)
      PROVE  Enumerable(queue') /\ [Pool!Next]_(Pool!dispatchVars)
  <2>1. queue' = queue /\ job' = [job EXCEPT ![w] = None]
    BY <1>2 DEF Finish, Deliver, DeliverInTask, DeliverInLoop
  <2>2. (\E t \in Task : Pool!End(t)) \/ UNCHANGED Pool!dispatchVars
    BY <2>1, EndMapped
  <2>3. QED
    BY <2>1, <2>2 DEF Pool!Next, LineInv
<1>3. CASE Put
  BY <1>3, PutMapped DEF Pool!Next
<1>4. ASSUME UNCHANGED <<queue, job>>
      PROVE  Enumerable(queue') /\ [Pool!Next]_(Pool!dispatchVars)
  BY <1>4 DEF Pool!dispatchVars, LineInv
<1>5. ASSUME NEW w \in Ident, WorkerStep(w)
      PROVE  Take(w) \/ Finish(w) \/ UNCHANGED <<queue, job>>
  BY <1>5 DEF WorkerStep, Register, Retire, Begin, BackToIdle, CleanUp, Replace,
              Vanish
<1>6. CASE AddTaskStep \/ (\E t \in Task : Accept(t)) \/ TrackThreads \/ Clock
           \/ UNCHANGED vars
  <2>1. Put \/ UNCHANGED <<queue, job>>
    BY <1>6 DEF AddTaskStep, Scan, Kill, Untrack, Unlist, Record, CheckZombies,
                SpawnMore, NoSpawn, Accept, TrackThreads, Clock, AgeAdded, AgeTask,
                AgeKill, vars, threadVars
  <2>2. QED
    BY <1>3, <1>4, <2>1
<1>7. QED
  BY <1>1, <1>2, <1>4, <1>5, <1>6 DEF Next

\* Whatever workers are killed, retired, replaced, spawned or culled, for every
\* number of them and every setting of the options, the pool is a line of
\* tasks: connections are begun in the order in which they were put into the
\* queue, each of them once, and leave it in no other way.
THEOREM BegunInOrder == Spec => ServesInOrderEvenIfKilled
<1>1. TypeInv /\ LineInv /\ [Next]_vars => LineInv'
  BY WorkerOnePlace, AcceptOnePlace, AddTaskOnePlace, OtherOnePlace, StepMapped
  DEF Next, LineInv, TypeInv
<1>2. TypeInv /\ LineInv /\ [Next]_vars => [Pool!Next]_(Pool!dispatchVars)
  BY StepMapped DEF TypeInv
<1>3. QED
  BY InitLine, Typed, <1>1, <1>2, PTL DEF Spec, ServesInOrderEvenIfKilled, Pool!Spec

-----------------------------------------------------------------------------
(* The pool while it is shut down.                                         *)

\* A forced shutdown is inside add_task and has a connection in hand until that
\* is refused; one that ends serve_forever has none.
ServerHasIt ==
    IF sd = "none" \/ forced THEN ServerHolds ELSE incoming = None

ShutdownInv == ShutdownTypeOK /\ Unworn /\ joinAt > 0 /\ ServerHasIt

LEMMA InitShutdown == ShutdownInit => ShutdownInv
<1> SUFFICES ASSUME ShutdownInit PROVE ShutdownInv
  OBVIOUS
<1>1. TypeInv
  BY InitTyped DEF ShutdownInit
<1>2. hung_workers \in Seq(Ident)
  BY DEF ShutdownInit
<1>3. /\ sd = "none" /\ forced = FALSE /\ zombies = FALSE /\ joinAt = 1 /\ joining = None
  BY DEF ShutdownInit
<1>4. ShutdownTypeOK
  BY <1>1, <1>2, <1>3 DEF ShutdownTypeOK, TypeInv
<1>5. QED
  BY <1>1, <1>3, <1>4 DEF ShutdownInv, TypeInv, ServerHasIt

\* Before a shutdown, and in one that add_task called.
LEMMA ServesUsually ==
    ASSUME ShutdownInv, sd = "none" \/ forced PROVE TypeInv
  BY DEF ShutdownInv, ShutdownTypeOK, ServerHasIt, TypeInv

-----------------------------------------------------------------------------
(* Types.                                                                  *)

\* Steps of the pool itself.
LEMMA PoolTyped ==
    ASSUME ShutdownInv, UNCHANGED <<sd, forced, joinAt, hung_workers, zombies>>,
           joining' \in {joining, None}, TypeOK', Unworn', ServerHasIt'
    PROVE  ShutdownInv'
  BY DEF ShutdownInv, ShutdownTypeOK

LEMMA WorkersInShutdown ==
    ASSUME ShutdownInv,
           \/ \E w \in Ident : WorkerStepSeen(w) \/ (Deliver(w) /\ UNCHANGED sdVars)
           \/ (Clock \/ UNCHANGED vars) /\ UNCHANGED sdVars
    PROVE  ShutdownInv'
<1>1. /\ UNCHANGED <<sd, forced, joinAt, hung_workers, zombies>>
      /\ joining' \in {joining, None}
  BY DEF WorkerStepSeen, sdVars
<1>2. (\E w \in Ident : WorkerStep(w) \/ Deliver(w)) \/ Clock \/ UNCHANGED vars
  BY DEF WorkerStepSeen
<1>3. TypeOK /\ Unworn
  BY DEF ShutdownInv, ShutdownTypeOK
<1>4. TypeOK' /\ Unworn' /\ UNCHANGED <<apc, incoming>>
  BY <1>2, <1>3, WorkerTyped, DeliverTyped, OtherTyped
<1>5. ServerHasIt'
  BY <1>1, <1>4 DEF ShutdownInv, ServerHasIt, ServerHolds
<1>6. QED
  BY <1>1, <1>4, <1>5, PoolTyped

LEMMA ServerInShutdown ==
    ASSUME ShutdownInv, UNCHANGED sdVars,
           \/ sd = "none" /\ (AddTaskStep \/ \E t \in Task : Accept(t))
           \/ sd = "kill" /\ KillStep
    PROVE  ShutdownInv'
<1>1. UNCHANGED <<sd, forced, joinAt, hung_workers, zombies, joining>>
  BY DEF sdVars
<1>2. CASE sd = "none"
  <2>1. AddTaskStep \/ \E t \in Task : Accept(t)
    BY <1>2
  <2>2. TypeInv'
    BY <1>2, <2>1, ServesUsually, AddTaskTyped, AcceptTyped
  <2>3. QED
    BY <1>1, <1>2, <2>2, PoolTyped DEF TypeInv, ServerHasIt
<1>3. CASE sd = "kill" /\ KillStep
  <2>1. TypeOK /\ Unworn
    BY DEF ShutdownInv, ShutdownTypeOK
  <2>2. /\ TypeOK' /\ Unworn' /\ apc # "accept"
        /\ Refused \/ (apc' # "accept" /\ incoming' = incoming)
    BY <1>3, <2>1, KillTyped DEF KillStep
  <2>3. ServerHasIt'
    BY <1>1, <1>3, <2>2 DEF ShutdownInv, ServerHasIt, ServerHolds, Refused
  <2>4. QED
    BY <1>1, <2>2, <2>3, PoolTyped
<1>4. QED
  BY <1>2, <1>3

LEMMA ShutdownTyped ==
    ASSUME ShutdownInv, ShutdownStep \/ LeaveLoop
    PROVE  ShutdownInv'
<1> USE PoolAssumption
<1>1. /\ TypeOK /\ Unworn /\ joinAt \in Nat /\ joinAt > 0 /\ ServerHasIt
      /\ hung_workers \in Seq(Ident) /\ joining \in Ident \cup {None}
      /\ forced \in BOOLEAN /\ zombies \in BOOLEAN
      /\ sd \in {"none", "tokens", "join", "wait", "kill", "stopped", "killed", "failed"}
  BY DEF ShutdownInv, ShutdownTypeOK
<1> USE DEF ShutdownInv, ShutdownTypeOK, ServerHasIt, ServerHolds
<1>2. CASE LeaveLoop
  <2>1. TypeOK' /\ Unworn'
    BY <1>1, <1>2 DEF LeaveLoop, TypeOK, Unworn, listVars, checkVars, threadVars
  <2>2. incoming' = None
    BY <1>1, <1>2 DEF LeaveLoop, TypeOK
  <2>3. QED
    BY <1>1, <1>2, <2>1, <2>2 DEF LeaveLoop
<1>3. CASE TooManyZombies \/ JoinNext \/ Joined \/ CountZombies
  <2>1. UNCHANGED vars
    BY <1>3 DEF TooManyZombies, JoinNext, Joined, CountZombies
  <2>2. TypeOK' /\ Unworn' /\ UNCHANGED <<apc, incoming>>
    BY <1>1, <2>1, OtherTyped
  <2>3. CASE TooManyZombies
    BY <1>1, <2>2, <2>3 DEF TooManyZombies
  <2>4. CASE JoinNext
    <3>1. workers[joinAt] \in Ident
      BY <1>1, <2>4, ElementOfSeq, LenProperties DEF JoinNext, TypeOK
    <3>2. QED
      BY <1>1, <2>2, <2>4, <3>1 DEF JoinNext
  <2>5. CASE Joined
    <3>1. hung_workers' \in Seq(Ident)
      BY <1>1, <2>5, AppendProperties DEF Joined
    <3>2. QED
      BY <1>1, <2>2, <2>5, <3>1 DEF Joined
  <2>6. CASE CountZombies
    <3>1. zombies' \in BOOLEAN /\ sd' \in {"kill", "stopped"} /\ joinAt' = 1
      BY <2>6 DEF CountZombies
    <3>2. QED
      BY <1>1, <2>2, <2>6, <3>1 DEF CountZombies
  <2>7. QED
    BY <1>3, <2>3, <2>4, <2>5, <2>6
<1>4. CASE PutTokens
  <2> DEFINE tokens == [i \in 1..Len(workers) |-> SHUTDOWN]
  <2>1. Len(workers) \in Nat
    BY <1>1, LenProperties DEF TypeOK
  <2>2. tokens \in Seq(Task \cup {SHUTDOWN})
    BY <2>1, IsASeq
  <2>3. queue' \in Seq(Task \cup {SHUTDOWN})
    BY <1>1, <1>4, <2>2, ConcatProperties DEF PutTokens, TypeOK
  <2>4. TypeOK' /\ Unworn' /\ UNCHANGED <<apc, incoming>>
    BY <1>1, <1>4, <2>3
    DEF PutTokens, TypeOK, Unworn, listVars, checkVars, threadVars, serverVars
  <2>5. hung_workers' \in Seq(Ident)
    BY <1>4 DEF PutTokens
  <2>6. QED
    BY <1>1, <1>4, <2>4, <2>5 DEF PutTokens
<1>5. CASE KillNext
  <2>1. Head(hung_workers) \in Ident /\ Tail(hung_workers) \in Seq(Ident)
    BY <1>1, <1>5, HeadTailProperties DEF KillNext
  <2>2. TypeOK' /\ Unworn'
    BY <1>1, <1>5, <2>1 DEF KillNext, TypeOK, Unworn, listVars, checkVars, threadVars
  <2>3. QED
    BY <1>1, <1>5, <2>1, <2>2 DEF KillNext
<1>6. CASE KillFailed \/ KilledUnforced \/ EventuallyKilled
  <2>1. TypeOK' /\ Unworn' /\ incoming' = incoming
    BY <1>1, <1>6 DEF KillFailed, KilledUnforced, EventuallyKilled, AllKilled, TypeOK,
                      Unworn, listVars, checkVars, threadVars
  <2>2. CASE KillFailed
    <3>1. hung_workers' \in Seq(Ident)
      BY <2>2 DEF KillFailed
    <3>2. QED
      BY <1>1, <2>1, <2>2, <3>1 DEF KillFailed
  <2>3. CASE KilledUnforced
    BY <1>1, <2>1, <2>3 DEF KilledUnforced, AllKilled
  <2>4. CASE EventuallyKilled
    BY <1>1, <2>1, <2>4 DEF EventuallyKilled, AllKilled
  <2>5. QED
    BY <1>6, <2>2, <2>3, <2>4
<1>7. CASE ForceQuit
  <2>1. Refused
    BY <1>1, <1>7, RefuseTyped DEF ForceQuit
  <2>2. TypeOK' /\ Unworn'
    BY <1>1, <1>7, <2>1
    DEF ForceQuit, Refused, TypeOK, Unworn, listVars, checkVars, threadVars
  <2>3. QED
    BY <1>1, <1>7, <2>1, <2>2 DEF ForceQuit, Refused
<1>8. CASE RaiseServerExit
  <2>1. request' \in [Task -> Ended \cup {"open"}]
    BY <1>1, <1>8 DEF RaiseServerExit, TypeOK, Ended
  <2>2. TypeOK' /\ Unworn'
    BY <1>1, <1>8, <2>1
    DEF RaiseServerExit, TypeOK, Unworn, listVars, checkVars, threadVars
  <2>3. QED
    BY <1>1, <1>8, <2>2 DEF RaiseServerExit
<1>9. QED
  BY <1>2, <1>3, <1>4, <1>5, <1>6, <1>7, <1>8 DEF ShutdownStep

\* The inductive invariant, for shutdowns of either kind.
THEOREM ShutdownStays == ShutdownSpec => []ShutdownInv
<1>1. ShutdownInv /\ [ShutdownNext]_allVars => ShutdownInv'
  <2> SUFFICES ASSUME ShutdownInv, [ShutdownNext]_allVars PROVE ShutdownInv'
    OBVIOUS
  <2>1. CASE \E w \in Ident : WorkerStepSeen(w) \/ (Deliver(w) /\ UNCHANGED sdVars)
    BY <2>1, WorkersInShutdown
  <2>2. CASE (Clock /\ UNCHANGED sdVars) \/ UNCHANGED allVars
    BY <2>2, WorkersInShutdown DEF allVars
  <2>3. CASE sd = "none" /\ (\E t \in Task : Accept(t)) /\ UNCHANGED sdVars
    BY <2>3, ServerInShutdown
  <2>4. CASE ServerStep \/ LeaveLoop
    BY <2>4, ServerInShutdown, ShutdownTyped DEF ServerStep
  <2>5. QED
    BY <2>1, <2>2, <2>3, <2>4 DEF ShutdownNext
<1>2. QED
  BY InitShutdown, <1>1, PTL DEF ShutdownSpec

\* The state of a shutdown stays within its types.
THEOREM ShutdownTypes == ShutdownSpec => []ShutdownTypeOK
  BY ShutdownStays, PTL DEF ShutdownInv

-----------------------------------------------------------------------------
(* Which steps of the pool a shutdown leaves to it.                        *)

\* A step is one of the pool, of which only a connection's arrival and add_task outside
\* kill_worker need that the server thread holds one; or it is one of the shutdown.
PoolStep == Next /\ (Put => ServerHolds)

LEMMA StepsAre ==
    ASSUME ShutdownInv, [ShutdownNext]_allVars
    PROVE  PoolStep \/ UNCHANGED vars \/ ShutdownStep \/ LeaveLoop
<1>1. CASE \E w \in Ident : WorkerStepSeen(w) \/ (Deliver(w) /\ UNCHANGED sdVars)
  <2>1. \E w \in Ident : WorkerStep(w) \/ Deliver(w)
    BY <1>1 DEF WorkerStepSeen
  <2>2. ~Put
    <3>1. PICK w \in Ident : WorkerStep(w) \/ Deliver(w)
      BY <2>1
    <3>2. UNCHANGED apc
      BY <3>1, WorkerTyped, DeliverTyped DEF ShutdownInv, ShutdownTypeOK
    <3>3. QED
      BY <3>2 DEF Put
  <2>3. QED
    BY <2>1, <2>2 DEF PoolStep, Next
<1>2. CASE Clock
  <2>1. UNCHANGED apc
    BY <1>2, OtherTyped DEF ShutdownInv, ShutdownTypeOK
  <2>2. QED
    BY <1>2, <2>1 DEF PoolStep, Next, Put
<1>3. CASE sd = "none" /\ ((\E t \in Task : Accept(t)) \/ AddTaskStep)
  <2>1. ServerHolds
    BY <1>3, ServesUsually DEF TypeInv
  <2>2. QED
    BY <1>3, <2>1 DEF PoolStep, Next
<1>4. CASE sd = "kill" /\ KillStep
  <2>1. apc # "put"
    BY <1>4 DEF KillStep, Kill, Untrack, Unlist, Record
  <2>2. QED
    BY <1>4, <2>1 DEF PoolStep, Next, AddTaskStep, KillStep, Put
<1>5. CASE UNCHANGED allVars
  BY <1>5 DEF allVars
<1>6. QED
  BY <1>1, <1>2, <1>3, <1>4, <1>5 DEF ShutdownNext, ServerStep

\* What a step of the shutdown itself does to the pool.
LEMMA ShutdownDoes ==
    ASSUME ShutdownStep \/ LeaveLoop
    PROVE  /\ UNCHANGED <<workers, idle_workers, worker_tracker, job, pc>>
           /\ \/ UNCHANGED <<queue, incoming, request>>
              \/ UNCHANGED queue /\ incoming' = None
                 /\ request' = [request EXCEPT ![incoming] = "dropped"]
              \/ PutTokens
<1>1. UNCHANGED <<workers, idle_workers, worker_tracker, job, pc>>
  BY DEF ShutdownStep, LeaveLoop, TooManyZombies, PutTokens, JoinNext, Joined,
     CountZombies, KillNext, KillFailed, KilledUnforced, ForceQuit, EventuallyKilled,
     RaiseServerExit, vars, listVars, threadVars
<1>2. CASE ForceQuit \/ RaiseServerExit
  BY <1>1, <1>2 DEF ForceQuit, RaiseServerExit, Refuse
<1>3. CASE ~(ForceQuit \/ RaiseServerExit \/ PutTokens)
  BY <1>1, <1>3 DEF ShutdownStep, LeaveLoop, TooManyZombies, JoinNext, Joined,
     CountZombies, KillNext, KillFailed, KilledUnforced, EventuallyKilled, vars,
     serverVars
<1>4. QED
  BY <1>1, <1>2, <1>3

-----------------------------------------------------------------------------
(* Connections.                                                            *)

\* A connection that is dropped with the server, if it has one.
LEMMA DropOnePlace ==
    ASSUME TypeOK, OnePlaceInv, UNCHANGED <<queue, job, pc>>, incoming' = None,
           request' = [request EXCEPT ![incoming] = "dropped"]
    PROVE  OnePlaceInv'
<1>1. /\ queue \in Line /\ job \in Jobs /\ request \in Fates
      /\ incoming \in Task \cup {None}
  BY Typing
<1>2. Kept(queue, job, incoming, request)
  BY KeptIsOnePlace DEF OnePlaceInv
<1>3. incoming = None => request' = request
  BY <1>1, PoolAssumption DEF Fates
<1>4. "dropped" \in Ended
  BY DEF Ended
<1>5. Kept(queue', job', incoming', request')
  BY <1>1, <1>2, <1>3, <1>4, KeptByRefusal
<1>6. QED
  BY <1>5, KeptIsOnePlace DEF OnePlaceInv, JobInHand

LEMMA TokensOnePlace ==
    ASSUME TypeOK, OnePlaceInv, PutTokens
    PROVE  OnePlaceInv'
<1> DEFINE p == queue \o [i \in 1..Len(workers) |-> SHUTDOWN]
<1>1. queue \in Line /\ job \in Jobs /\ incoming \in Task \cup {None}
  BY Typing
<1>2. Len(workers) \in Nat
  BY LenProperties DEF TypeOK
<1>3. Kept(queue, job, incoming, request)
  BY KeptIsOnePlace DEF OnePlaceInv
<1>4. Kept(p, job, incoming, request)
  BY <1>1, <1>2, <1>3, KeptByTokens
<1>5. queue' = p /\ UNCHANGED <<job, pc, incoming, request>>
  BY DEF PutTokens, threadVars, serverVars
<1>6. QED
  BY <1>4, <1>5, KeptIsOnePlace DEF OnePlaceInv, JobInHand

LEMMA OnePlaceInShutdown ==
    ASSUME ShutdownInv, OnePlaceInv, [ShutdownNext]_allVars
    PROVE  OnePlaceInv'
<1>1. TypeOK
  BY DEF ShutdownInv, ShutdownTypeOK
<1>2. CASE \E w \in Ident : WorkerStepSeen(w) \/ (Deliver(w) /\ UNCHANGED sdVars)
  BY <1>1, <1>2, WorkerOnePlace DEF WorkerStepSeen
<1>3. CASE Clock \/ UNCHANGED allVars
  BY <1>3, OtherOnePlace DEF allVars
<1>4. CASE sd = "none" /\ ((\E t \in Task : Accept(t)) \/ AddTaskStep)
  BY <1>4, ServesUsually, AcceptOnePlace, AddTaskOnePlace
<1>5. CASE sd = "kill" /\ KillStep
  BY <1>1, <1>5, KillOnePlace DEF KillStep
<1>6. CASE ShutdownStep \/ LeaveLoop
  <2>1. UNCHANGED <<job, pc>>
    BY <1>6, ShutdownDoes
  <2>2. CASE UNCHANGED <<queue, incoming, request>>
    BY <2>1, <2>2, NothingMoves
  <2>3. CASE PutTokens
    BY <1>1, <2>3, TokensOnePlace
  <2>4. QED
    BY <1>1, <1>6, <2>1, <2>2, <2>3, ShutdownDoes, DropOnePlace
<1>7. QED
  BY <1>2, <1>3, <1>4, <1>5, <1>6 DEF ShutdownNext, ServerStep

\* No connection is forgotten and none is served twice while the pool is shut down,
\* by the end of serve_forever or in the middle of add_task, whichever workers outlive
\* their join and are killed, and whatever raises on the way.
THEOREM ShutdownKeepsConnections == ShutdownSpec => []ConnectionInOnePlace
<1>1. ShutdownInit => OnePlaceInv
  BY InitOnePlace DEF ShutdownInit
<1>2. ShutdownSpec => []OnePlaceInv
  BY <1>1, OnePlaceInShutdown, ShutdownStays, PTL DEF ShutdownSpec
<1>3. QED
  BY <1>2, PTL DEF OnePlaceInv

-----------------------------------------------------------------------------
(* Lists.                                                                  *)

\* What is true of the lists of a pool that serves is true of one that is shut down:
\* nothing is tracked that does not run, and idle_workers is exact.
THEOREM ShutdownKeepsLists == ShutdownSpec => [](NoLeftoverTracking /\ IdleListExact)
<1> DEFINE Lists == NoLeftoverTracking /\ IdleListExact
<1>1. ShutdownInit => Lists
  BY DEF ShutdownInit, Init, NoLeftoverTracking, IdleListExact, ToSet
<1>2. ShutdownInv /\ ShutdownInv' /\ Lists /\ [ShutdownNext]_allVars => Lists'
  <2> SUFFICES ASSUME ShutdownInv, ShutdownInv', Lists, [ShutdownNext]_allVars
               PROVE  Lists'
    OBVIOUS
  <2>1. TypeOK /\ TypeOK'
    BY DEF ShutdownInv, ShutdownTypeOK
  <2>2. CASE PoolStep \/ UNCHANGED vars
    BY <2>1, <2>2, TrackingStays, IdleListStays DEF PoolStep
  <2>3. CASE ShutdownStep \/ LeaveLoop
    <3>1. UNCHANGED <<idle_workers, worker_tracker, pc>>
      BY <2>3, ShutdownDoes
    <3>2. QED
      BY <3>1 DEF NoLeftoverTracking, IdleListExact
  <2>4. QED
    BY <2>2, <2>3, StepsAre
<1>3. QED
  BY <1>1, <1>2, ShutdownStays, PTL DEF ShutdownSpec

-----------------------------------------------------------------------------
(* The order of the connections.                                           *)

\* Tokens at the end of the queue leave the line as it is.
LEMMA TokensPut ==
    ASSUME NEW q \in Line, Enumerable(q), NEW c \in Nat
    PROVE  LET r == q \o [i \in 1..c |-> SHUTDOWN] IN
           Enumerable(r) /\ Tasks(r) = Tasks(q)
<1>1. PICK m, e : Enumerates(e, m, q)
  BY DEF Enumerable
<1> DEFINE s == [i \in 1..c |-> SHUTDOWN]
           r == q \o s
<1>2. s \in Line /\ Len(s) = c /\ \A i \in 1..c : s[i] = SHUTDOWN
  BY IsASeq, LenProperties DEF Line
<1>3. /\ r \in Line /\ Len(q) \in Nat /\ DOMAIN q = 1..Len(q)
      /\ DOMAIN r = 1..(Len(q) + c)
      /\ \A i \in 1..Len(q) : r[i] = q[i]
      /\ \A i \in 1..(Len(q) + c) : i \notin 1..Len(q) => r[i] = SHUTDOWN
  <2> HIDE DEF s
  <2>1. /\ r \in Line /\ Len(r) = Len(q) + c
        /\ \A i \in 1..(Len(q) + c) :
              r[i] = IF i <= Len(q) THEN q[i] ELSE s[i - Len(q)]
    BY <1>2, ConcatProperties DEF Line
  <2>2. Len(q) \in Nat /\ DOMAIN q = 1..Len(q) /\ DOMAIN r = 1..(Len(q) + c)
    BY <2>1, LenProperties DEF Line
  <2> HIDE DEF r
  <2>3. \A i \in 1..Len(q) : r[i] = q[i]
    BY <2>1, <2>2
  <2>4. ASSUME NEW i \in 1..(Len(q) + c), i \notin 1..Len(q)
        PROVE  r[i] = SHUTDOWN
    <3>1. ~(i <= Len(q)) /\ i - Len(q) \in 1..c
      BY <2>2, <2>4
    <3>2. QED
      BY <1>2, <2>1, <3>1
  <2>5. QED
    BY <2>1, <2>2, <2>3, <2>4
<1> HIDE DEF r
<1>4. /\ m \in Nat /\ e \in [1..m -> DOMAIN q]
      /\ \A n \in 1..m : q[e[n]] # SHUTDOWN
      /\ \A i \in DOMAIN q : q[i] # SHUTDOWN => \E n \in 1..m : e[n] = i
      /\ \A k, n \in 1..m : k < n => e[k] < e[n]
  BY <1>1 DEF Enumerates
<1>5. \A n \in 1..m : e[n] \in DOMAIN q /\ r[e[n]] = q[e[n]]
  BY <1>3, <1>4
<1>6. DOMAIN q \subseteq DOMAIN r
  BY <1>3
<1>7. e \in [1..m -> DOMAIN r]
  BY <1>4, <1>6
<1>8. \A i \in DOMAIN r : r[i] # SHUTDOWN => i \in DOMAIN q /\ q[i] # SHUTDOWN
  BY <1>3
<1>9. Enumerates(e, m, r)
  BY <1>4, <1>5, <1>7, <1>8 DEF Enumerates
<1>10. /\ Tasks(q) = [n \in 1..m |-> q[e[n]]]
       /\ Tasks(r) = [n \in 1..m |-> r[e[n]]]
  BY <1>1, <1>3, <1>9, TasksEnumerated
<1>11. Tasks(r) = Tasks(q)
  BY <1>5, <1>10
<1>12. QED
  BY <1>9, <1>11 DEF Enumerable, r

\* Seen from outside a shutdown adds and takes nothing.
LEMMA ShutdownMapped ==
    ASSUME TypeOK, LineInv, ShutdownStep \/ LeaveLoop
    PROVE  Enumerable(queue') /\ UNCHANGED Pool!dispatchVars
<1>1. job' = job
  BY ShutdownDoes
<1>2. CASE queue' = queue
  BY <1>1, <1>2 DEF Pool!dispatchVars, LineInv
<1>3. CASE PutTokens
  <2>1. Len(workers) \in Nat /\ queue \in Line
    BY Typing, LenProperties DEF TypeOK
  <2>2. queue' = queue \o [i \in 1..Len(workers) |-> SHUTDOWN]
    BY <1>3 DEF PutTokens
  <2>3. Enumerable(queue') /\ Tasks(queue') = Tasks(queue)
    BY <2>1, <2>2, TokensPut DEF LineInv
  <2>4. QED
    BY <1>1, <2>3 DEF Pool!dispatchVars
<1>4. QED
  BY <1>2, <1>3, ShutdownDoes

\* A pool that is shut down is still a line of tasks: the connections in the queue are
\* begun in their order, each once, or stay there.
THEOREM ShutdownBeginsInOrder == ShutdownSpec => ServesInOrderEvenIfKilled
<1>1. ASSUME ShutdownInv, LineInv, [ShutdownNext]_allVars
      PROVE  LineInv' /\ [Pool!Next]_(Pool!dispatchVars)
  <2>1. TypeOK /\ OnePlaceInv'
    BY <1>1, OnePlaceInShutdown DEF ShutdownInv, ShutdownTypeOK, LineInv
  <2>2. CASE PoolStep \/ UNCHANGED vars
    <3>1. [Next]_vars /\ (Put => ServerHolds)
      BY <2>2 DEF PoolStep, Put, vars, serverVars
    <3>2. QED
      BY <1>1, <2>1, <3>1, StepMapped DEF LineInv
  <2>3. CASE ShutdownStep \/ LeaveLoop
    BY <1>1, <2>1, <2>3, ShutdownMapped DEF LineInv
  <2>4. QED
    BY <1>1, <2>2, <2>3, StepsAre
<1>2. ShutdownInit => LineInv /\ Pool!Init
  BY InitLine DEF ShutdownInit
<1>3. QED
  BY <1>1, <1>2, ShutdownStays, PTL
  DEF ShutdownSpec, ServesInOrderEvenIfKilled, Pool!Spec
=============================================================================
