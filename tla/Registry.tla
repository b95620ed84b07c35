-------------------------------- MODULE Registry --------------------------------
(***************************************************************************)
(* Request-local objects: paste/registry.py with the part of               *)
(* paste/evalexception/middleware.py that uses it.                         *)
(*                                                                         *)
(* A StackedObjectProxy is a global that stands for a different object in  *)
(* every thread: it keeps a stack for each of them.  A request has one     *)
(* Registry, a list of contexts (dictionaries from proxies to objects);    *)
(* each RegistryManager the request goes through adds a context when it is *)
(* called and takes the last one away, with the objects in it, when the    *)
(* application returns or fails, or, for a streaming manager, when the     *)
(* response has been iterated over.                                        *)
(*                                                                         *)
(* An unexpected exception below an EvalException saves the list of        *)
(* contexts and swaps the methods of the proxies in it; a debugging        *)
(* request then sees the saved objects from its own thread.                *)
(*                                                                         *)
(* A dictionary is an index into `context`, because the saved list and the *)
(* registry's own list share their dictionaries, and, once debugging has   *)
(* begun, are one list.                                                    *)
(***************************************************************************)
EXTENDS Integers, SequencesExt

CONSTANTS Thread, Request, Proxy, Obj,
          MaxManagers,    \* bound: managers a request goes through
          MaxLeftBehind,  \* bound: objects left on a stack when a request begins
          MaxServing,     \* bound: threads that serve a request at one time; what
                          \* they share are the methods of the proxies
          None

ASSUME RegistryAssumption ==
    /\ None \notin Thread \cup Request \cup Proxy \cup Obj
    /\ MaxManagers \in Nat /\ MaxLeftBehind \in Nat /\ MaxServing \in Nat

VARIABLES
    debugging,        \* there is an EvalException around the managers
    mode,             \* of a thread: "idle"; "app": application code runs;
                      \* "return", "raise": a result or an exception travels
                      \* up; "debug": a debugging request
    serving,          \* the request of the thread
    frames,           \* the managers on its Python stack, outermost first
    pending,          \* the result is a streaming_iter that was not started
    raised,           \* kind of the exception that travels up
    context,          \* the dictionaries of each request's registry
    live,             \* registry.reglist
    saved,            \* saved_registry_states: <<>> when the request has none
    restored,         \* registry.reglist is the saved list
    stack,            \* of each thread and proxy
    restoring,        \* restoration_context_id.request_id of each thread
    swapped,          \* proxies whose methods are the restoration ones
    selfCalling,      \* proxies whose _orig methods are restoration ones too
    todo,             \* proxies a thread has yet to enable_restoration for
    checked,          \* the one it has found not enabled
    debugInfos,       \* EvalException.debug_infos
    caught,           \* requests one of whose exceptions was caught below the
                      \* EvalException
    atRaise,          \* what the proxies stood for when the exception was raised,
                      \* or stand for since; kept for an only exception of a request
                      \* on a thread without leftovers
    leaky             \* threads on which objects were left behind

requestVars == <<serving, frames, pending, raised>>
saveVars    == <<swapped, selfCalling, todo, checked>>
debugVars   == <<restored, restoring, debugInfos>>
vars == <<debugging, mode, requestVars, context, live, saved, stack, saveVars,
          debugVars, caught, atRaise, leaky>>

Nothing == [p \in Proxy |-> None]

\* Registries, stacks and saved contexts stay within their types.
TypeOK ==
    /\ debugging \in BOOLEAN
    /\ mode \in [Thread -> {"idle", "app", "return", "raise", "debug"}]
    /\ serving \in [Thread -> Request \cup {None}]
    /\ frames \in [Thread -> Seq({"plain", "stream"})]
    /\ pending \in [Thread -> BOOLEAN]
    /\ raised \in [Thread -> {"none", "expected", "unexpected", "base"}]
    /\ context \in [Request -> Seq([Proxy -> Obj \cup {None}])]
    /\ live \in [Request -> Seq(Nat)] /\ saved \in [Request -> Seq(Nat)]
    /\ restored \in SUBSET Request
    /\ stack \in [Thread -> [Proxy -> Seq(Obj)]]
    /\ restoring \in [Thread -> Request \cup {None}]
    /\ swapped \in SUBSET Proxy /\ selfCalling \in SUBSET Proxy
    /\ todo \in [Thread -> SUBSET Proxy]
    /\ checked \in [Thread -> Proxy \cup {None}]
    /\ debugInfos \in SUBSET Request /\ caught \in SUBSET Request
    /\ atRaise \in [Request -> [Proxy -> Obj \cup {None}]]
    /\ leaky \in SUBSET Thread
    /\ \A t \in Thread : /\ restoring[t] # None <=> mode[t] = "debug"
                         /\ serving[t] = None <=> mode[t] \in {"idle", "debug"}

Init ==
    /\ debugging \in BOOLEAN
    /\ mode = [t \in Thread |-> "idle"]
    /\ serving = [t \in Thread |-> None]
    /\ frames = [t \in Thread |-> <<>>]
    /\ pending = [t \in Thread |-> FALSE]
    /\ raised = [t \in Thread |-> "none"]
    /\ context = [r \in Request |-> <<>>]
    /\ live = [r \in Request |-> <<>>] /\ saved = [r \in Request |-> <<>>]
    /\ restored = {}
    /\ stack = [t \in Thread |-> [p \in Proxy |-> <<>>]]
    /\ restoring = [t \in Thread |-> None]
    /\ swapped = {} /\ selfCalling = {}
    /\ todo = [t \in Thread |-> {}] /\ checked = [t \in Thread |-> None]
    /\ debugInfos = {} /\ caught = {}
    /\ atRaise = [r \in Request |-> Nothing]
    /\ leaky = {}

-----------------------------------------------------------------------------
(* Registry and StackedObjectProxy.                                        *)

\* _current_obj of a proxy without a default, from its stack.
Top(s) == IF s = <<>> THEN None ELSE Last(s)

\* The dictionary register and cleanup work on.
Current(t) == context[serving[t]][Last(live[serving[t]])]

\* Registry.prepare
Prepare(r) ==
    /\ context' = [context EXCEPT ![r] = Append(@, Nothing)]
    /\ live' = [live EXCEPT ![r] = Append(@, Len(context[r]) + 1)]

\* The stack of a proxy after it stood for `old` in the context, if for anything,
\* and `new` is registered.
Pushed(s, old, new) == Append(IF old = None THEN s ELSE Front(s), new)

\* Mutant: the first context is taken away instead of the last.
CleanupOldest(t) ==
    LET r == serving[t]
    IN  /\ stack' = [stack EXCEPT ![t] =
                       [p \in Proxy |-> IF context[r][Head(live[r])][p] = None
                                        THEN @[p] ELSE Front(@[p])]]
        /\ live' = [live EXCEPT ![r] = Tail(@)]

\* Registry.cleanup; that every pop returns the object expected follows from
\* StacksMirrorRegistry.
Cleanup(t) ==
    /\ stack' = [stack EXCEPT ![t] =
                    [p \in Proxy |-> IF Current(t)[p] = None
                                     THEN @[p] ELSE Front(@[p])]]
    /\ live' = [live EXCEPT ![serving[t]] = Front(@)]

-----------------------------------------------------------------------------
(* A request goes down through the managers to the application.            *)

Start(t, r) ==
    /\ mode[t] = "idle"
    /\ \A p \in Proxy : Len(stack[t][p]) <= MaxLeftBehind
    /\ \A u \in Thread : serving[u] # r
    /\ Cardinality({u \in Thread : serving[u] # None}) < MaxServing
    /\ r \notin debugInfos
    /\ mode' = [mode EXCEPT ![t] = "app"]
    /\ serving' = [serving EXCEPT ![t] = r]
    /\ UNCHANGED <<debugging, frames, pending, raised, context, live, saved, stack,
                   saveVars, debugVars, caught, atRaise, leaky>>

\* RegistryManager.__call__ without streaming.
Enter(t) ==
    /\ mode[t] = "app" /\ Len(context[serving[t]]) < MaxManagers
    /\ Prepare(serving[t])
    /\ frames' = [frames EXCEPT ![t] = Append(@, "plain")]
    /\ UNCHANGED <<debugging, mode, serving, pending, raised, saved, stack,
                   saveVars, debugVars, caught, atRaise, leaky>>

\* RegistryManager.__call__ with streaming: it prepares the context and returns
\* a generator; the code above it gets the generator as its own result.
EnterStreaming(t) ==
    /\ mode[t] = "app" /\ Len(context[serving[t]]) < MaxManagers
    /\ Prepare(serving[t])
    /\ pending' = [pending EXCEPT ![t] = TRUE]
    /\ mode' = [mode EXCEPT ![t] = "return"]
    /\ UNCHANGED <<debugging, serving, frames, raised, saved, stack, saveVars,
                   debugVars, caught, atRaise, leaky>>

\* Registry.register and multiregister, below some manager.
Register(t, p, o) ==
    LET r == serving[t] IN
    /\ mode[t] = "app" /\ live[r] # <<>>
    /\ stack' = [stack EXCEPT ![t][p] = Pushed(@, Current(t)[p], o)]
    /\ context' = [context EXCEPT ![r][Last(live[r])][p] = o]
    /\ UNCHANGED <<debugging, mode, requestVars, live, saved, saveVars, debugVars,
                   caught, atRaise, leaky>>

\* The application, or its generator, returns, yields or raises.
Return(t) ==
    /\ mode[t] = "app"
    /\ mode' = [mode EXCEPT ![t] = "return"]
    /\ UNCHANGED <<debugging, requestVars, context, live, saved, stack, saveVars,
                   debugVars, caught, atRaise, leaky>>

\* Nobody asks for paste.expected_exceptions where there is no EvalException.
Raise(t, kind) ==
    LET r == serving[t] IN
    /\ mode[t] = "app" /\ (kind = "expected" => debugging)
    /\ mode' = [mode EXCEPT ![t] = "raise"]
    /\ raised' = [raised EXCEPT ![t] = kind]
    /\ atRaise' = [atRaise EXCEPT ![r] =
                      IF r \in caught \/ t \in leaky THEN @
                      ELSE [p \in Proxy |-> Top(stack[t][p])]]
    /\ UNCHANGED <<debugging, serving, frames, pending, context, live, saved, stack,
                   saveVars, debugVars, caught, leaky>>

-----------------------------------------------------------------------------
(* The result travels up.                                                  *)

AtFrame(t, kind) == frames[t] # <<>> /\ Last(frames[t]) = kind

\* The else clauses: a plain manager has got its application's result, or the
\* loop of a streaming one is over.
Leave(t) ==
    /\ mode[t] = "return"
    /\ AtFrame(t, "plain") \/ (AtFrame(t, "stream") /\ ~pending[t])
    /\ Cleanup(t)
    /\ frames' = [frames EXCEPT ![t] = Front(@)]
    /\ UNCHANGED <<debugging, mode, serving, pending, raised, context, saved,
                   saveVars, debugVars, caught, atRaise, leaky>>

\* The server, or the loop of a streaming manager, takes the first item of a
\* streaming_iter, which now calls its application.
Iterate(t) ==
    /\ mode[t] = "return" /\ pending[t] /\ ~AtFrame(t, "plain")
    /\ pending' = [pending EXCEPT ![t] = FALSE]
    /\ frames' = [frames EXCEPT ![t] = Append(@, "stream")]
    /\ mode' = [mode EXCEPT ![t] = "app"]
    /\ UNCHANGED <<debugging, serving, raised, context, live, saved, stack,
                   saveVars, debugVars, caught, atRaise, leaky>>

\* An item goes up through the loops to the server, which asks for the next one.
Yield(t) ==
    /\ mode[t] = "return" /\ AtFrame(t, "stream") /\ ~pending[t]
    /\ mode' = [mode EXCEPT ![t] = "app"]
    /\ UNCHANGED <<debugging, requestVars, context, live, saved, stack, saveVars,
                   debugVars, caught, atRaise, leaky>>

\* What the thread leaves on its stacks when the request ends here.
LeavesBehind(t) ==
    IF \E i \in DOMAIN live[serving[t]] :
            context[serving[t]][live[serving[t]][i]] # Nothing
    THEN leaky \cup {t} ELSE leaky

Rest(t) ==
    /\ mode' = [mode EXCEPT ![t] = "idle"]
    /\ serving' = [serving EXCEPT ![t] = None]
    /\ frames' = [frames EXCEPT ![t] = <<>>]
    /\ pending' = [pending EXCEPT ![t] = FALSE]
    /\ raised' = [raised EXCEPT ![t] = "none"]

\* The registry of a request that nobody will debug is garbage, and its name can
\* stand for another request.
Forget(r) ==
    /\ context' = [context EXCEPT ![r] = <<>>]
    /\ live' = [live EXCEPT ![r] = <<>>] /\ saved' = [saved EXCEPT ![r] = <<>>]
    /\ atRaise' = [atRaise EXCEPT ![r] = Nothing]
    /\ caught' = caught \ {r}

\* The server drops a response it cannot send, after some item or before the
\* first one: GeneratorExit is not an Exception,
\* and a generator that was not started runs no code at all.  EvalException takes
\* all the items before the server sees any.
Abandon(t) ==
    /\ ~debugging
    /\ mode[t] = "return"
    /\ IF pending[t] THEN frames[t] = <<>> ELSE AtFrame(t, "stream")
    /\ leaky' = LeavesBehind(t)
    /\ Rest(t) /\ Forget(serving[t])
    /\ UNCHANGED <<debugging, stack, saveVars, debugVars>>

Finish(t) ==
    /\ mode[t] = "return" /\ frames[t] = <<>> /\ ~pending[t]
    /\ Rest(t) /\ Forget(serving[t])
    /\ UNCHANGED <<debugging, stack, saveVars, debugVars, leaky>>

-----------------------------------------------------------------------------
(* An exception travels up.                                                *)

Saving(t) == todo[t] # {} \/ checked[t] # None

\* StackedObjectRestorer.save_registry_state, in the innermost manager the
\* exception reaches; the methods of the proxies are swapped afterwards.
Save(t) ==
    LET r == serving[t] IN
    /\ mode[t] = "raise" /\ raised[t] = "unexpected" /\ debugging
    /\ frames[t] # <<>> /\ saved[r] = <<>>
    /\ saved' = [saved EXCEPT ![r] = live[r]]
    /\ todo' = [todo EXCEPT ![t] =
                   {p \in Proxy : \E i \in DOMAIN live[r] :
                                      context[r][live[r][i]][p] # None}]
    /\ UNCHANGED <<debugging, mode, requestVars, context, live, stack, swapped,
                   selfCalling, checked, debugVars, caught, atRaise, leaky>>

\* enable_restoration: the test, and the swap, which keeps as original methods
\* those the proxy has at that moment.
EnableCheck(t, p) ==
    /\ p \in todo[t] /\ checked[t] = None
    /\ todo' = [todo EXCEPT ![t] = @ \ {p}]
    /\ checked' = [checked EXCEPT ![t] = IF p \in swapped THEN None ELSE p]
    /\ UNCHANGED <<debugging, mode, requestVars, context, live, saved, stack,
                   swapped, selfCalling, debugVars, caught, atRaise, leaky>>

EnableSwap(t) ==
    /\ checked[t] # None
    /\ swapped' = swapped \cup {checked[t]}
    /\ selfCalling' = IF checked[t] \in swapped
                      THEN selfCalling \cup {checked[t]} ELSE selfCalling
    /\ checked' = [checked EXCEPT ![t] = None]
    /\ UNCHANGED <<debugging, mode, requestVars, context, live, saved, stack, todo,
                   debugVars, caught, atRaise, leaky>>

\* cleanup and raise; an exception that is not an Exception passes by.
Unwind(t) ==
    /\ mode[t] = "raise" /\ frames[t] # <<>> /\ ~Saving(t)
    /\ raised[t] = "unexpected" /\ debugging => saved[serving[t]] # <<>>
    /\ IF raised[t] = "base"
          THEN UNCHANGED <<stack, live>>
          ELSE Cleanup(t)
    /\ frames' = [frames EXCEPT ![t] = Front(@)]
    /\ UNCHANGED <<debugging, mode, serving, pending, raised, context, saved,
                   saveVars, debugVars, caught, atRaise, leaky>>

\* A middleware between the managers catches the exception and goes on.
Catch(t) ==
    /\ mode[t] = "raise" /\ raised[t] # "base" /\ ~Saving(t)
    /\ mode' = [mode EXCEPT ![t] = "app"]
    /\ raised' = [raised EXCEPT ![t] = "none"]
    /\ caught' = caught \cup {serving[t]}
    /\ atRaise' = [atRaise EXCEPT ![serving[t]] = Nothing]
    /\ UNCHANGED <<debugging, serving, frames, pending, context, live, saved, stack,
                   saveVars, debugVars, leaky>>

\* Above the managers: EvalException keeps the unexpected ones, and the server
\* thread goes on whatever was raised.
Fail(t) ==
    /\ mode[t] = "raise" /\ frames[t] = <<>>
    /\ leaky' = LeavesBehind(t)
    /\ Rest(t)
    /\ IF debugging /\ raised[t] = "unexpected"
          THEN /\ debugInfos' = debugInfos \cup {serving[t]}
               /\ UNCHANGED <<context, live, saved, atRaise, caught>>
          ELSE Forget(serving[t]) /\ UNCHANGED debugInfos
    /\ UNCHANGED <<debugging, stack, saveVars, restored, restoring>>

-----------------------------------------------------------------------------
(* Debugging requests.                                                     *)

\* restoration_begin, in show_frame and exec_input.
DebugBegin(t, r) ==
    /\ mode[t] = "idle" /\ r \in debugInfos
    /\ \A p \in Proxy : Len(stack[t][p]) <= MaxLeftBehind
    /\ mode' = [mode EXCEPT ![t] = "debug"]
    /\ restoring' = [restoring EXCEPT ![t] = r]
    /\ restored' = IF saved[r] # <<>> THEN restored \cup {r} ELSE restored
    /\ UNCHANGED <<debugging, requestVars, context, live, saved, stack, saveVars,
                   debugInfos, caught, atRaise, leaky>>

\* What the proxy stands for in the code a debugging request runs;
\* get_saved_proxied_obj looks from the last context down.
Holding(r, p) == {i \in DOMAIN saved[r] : context[r][saved[r][i]][p] # None}

\* Mutant: the first context that holds the proxy counts.
RestoredFromFirst(t, p) ==
    LET r == restoring[t] IN
    IF p \in swapped /\ Holding(r, p) # {}
    THEN context[r][saved[r][CHOOSE i \in Holding(r, p) :
                                \A j \in Holding(r, p) : i <= j]][p]
    ELSE Top(stack[t][p])

Restored(t, p) ==
    LET r == restoring[t] IN
    IF p \in swapped /\ Holding(r, p) # {}
    THEN context[r][saved[r][CHOOSE i \in Holding(r, p) :
                                \A j \in Holding(r, p) : j <= i]][p]
    ELSE Top(stack[t][p])

\* The code registers an object with the request's registry.  A proxy with the
\* swapped methods is not pushed to; another one is, and nobody will pop it.
DebugRegister(t, p, o) ==
    LET r == restoring[t]
        c == Last(saved[r])
        s == stack[t][p]
        old == context[r][c][p]
    IN  /\ mode[t] = "debug" /\ r \in restored
        /\ IF p \notin swapped /\ old # None /\ (s = <<>> \/ Last(s) # old)
              THEN /\ stack' = [stack EXCEPT ![t][p] =
                                   IF s = <<>> THEN s ELSE Front(s)]
                   /\ UNCHANGED <<context, atRaise>>
              ELSE /\ context' = [context EXCEPT ![r][c][p] = o]
                   /\ atRaise' = IF p \in swapped
                                    /\ atRaise[r][p] # None
                                 THEN [atRaise EXCEPT ![r][p] = o] ELSE atRaise
                   /\ stack' = IF p \in swapped THEN stack
                               ELSE [stack EXCEPT ![t][p] = Pushed(@, old, o)]
        /\ leaky' = IF p \in swapped THEN leaky ELSE leaky \cup {t}
        /\ UNCHANGED <<debugging, mode, requestVars, live, saved, saveVars,
                       debugVars, caught>>

\* restoration_end
DebugEnd(t) ==
    /\ mode[t] = "debug"
    /\ mode' = [mode EXCEPT ![t] = "idle"]
    /\ restoring' = [restoring EXCEPT ![t] = None]
    /\ UNCHANGED <<debugging, requestVars, context, live, saved, stack, saveVars,
                   restored, debugInfos, caught, atRaise, leaky>>

-----------------------------------------------------------------------------

ManagerStep(t) ==
    \/ Enter(t) \/ EnterStreaming(t) \/ Return(t) \/ Leave(t) \/ Iterate(t)
    \/ Yield(t) \/ Abandon(t) \/ Finish(t)
    \/ Save(t) \/ EnableSwap(t) \/ Unwind(t) \/ Catch(t) \/ Fail(t) \/ DebugEnd(t)

Next ==
    \E t \in Thread :
        \/ ManagerStep(t)
        \/ \E r \in Request : Start(t, r) \/ DebugBegin(t, r)
        \/ \E p \in Proxy : EnableCheck(t, p)
        \/ \E p \in Proxy, o \in Obj : Register(t, p, o) \/ DebugRegister(t, p, o)
        \/ \E kind \in {"expected", "unexpected", "base"} : Raise(t, kind)

Spec == Init /\ [][Next]_vars

-----------------------------------------------------------------------------
(* Properties.                                                             *)

\* What each context of a registry holds for a proxy, outermost first.
Registered(r, p) == [i \in DOMAIN live[r] |-> context[r][live[r][i]][p]]

Held(objects) == {i \in DOMAIN objects : objects[i] # None}

\* The objects held are, in their order, the last ones of the stack: each lies as
\* deep as there are objects held from its context on.
OnTop(objects, s) ==
    \A i \in Held(objects) :
        LET depth == Cardinality({j \in Held(objects) : i <= j})
        IN  depth <= Len(s) /\ s[Len(s) + 1 - depth] = objects[i]

\* What a thread's proxies stand for is what its own request has registered, in
\* the order of the contexts, on top of whatever earlier requests left behind;
\* on a thread where nothing was left behind there is nothing else.  So every
\* pop of a cleanup finds the object it expects, although a streaming manager
\* below a plain one makes them take away each other's contexts.
StacksMirrorRegistry ==
    \A t \in Thread, p \in Proxy :
        LET mine == IF serving[t] = None THEN <<>> ELSE Registered(serving[t], p)
        IN  /\ OnTop(mine, stack[t][p])
            /\ t \notin leaky => Len(stack[t][p]) = Cardinality(Held(mine))

\* A debugging request sees the objects that were current when its exception was
\* raised below a manager, or that debugging requests have registered in their
\* place, whatever other requests do with the same proxies meanwhile; for requests
\* of which no exception was caught below the EvalException, on a thread without
\* leftovers.
DebuggerSeesTheObjects ==
    \A t \in Thread, p \in Proxy :
        LET r == restoring[t] IN
        r \in restored /\ atRaise[r][p] # None =>
            Restored(t, p) = atRaise[r][p]

\* The methods kept as original ones are the original ones.
OriginalsKept == selfCalling = {}
=============================================================================
