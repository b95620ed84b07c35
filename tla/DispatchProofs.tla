----------------------------- MODULE DispatchProofs -----------------------------
(***************************************************************************)
(* Theorems about Dispatch, for any chains of the middlewares, cascades in   *)
(* cascades among them, and any number of forwarded requests.                *)
(***************************************************************************)
EXTENDS Dispatch, WellFoundedInduction, TLAPS

Layers == {"recursive", "forward", "cascade"}
Codes == Status \cup {500}
Paths == Path \cup {ErrorPath[s] : s \in DOMAIN ErrorPath}

Dicts == [path : Paths, list : Environs \cup {None}, input : Environs, own : BOOLEAN]
Streams == [full : BOOLEAN, read : BOOLEAN]
Wrappers == [at : Layers, layer : Nat \ {0}, environ : Environs, kept : Codes \cup {None}]
Keepers ==
    [at : {"keeper"}, layer : Nat \ {0}, environ : Environs, kept : Codes \cup {None}, status : Codes]
Stacks == Seq(Wrappers \cup Keepers)

Calls == [do : {"call"}, layer : Nat \ {0}, environ : Environs, read : BOOLEAN, started : BOOLEAN]
Returns == [do : {"return"}, late : Codes \cup {None}, to : Stacks]
Raises == [do : {"raise"}, what : {"http", "error", "loop"}]
Forwards == [do : {"raise"}, what : {"forward"}, path : Paths, status : Codes \cup {None}]
OwnForwarding == [do : {"raise"}, what : {"forward"}, environ : Environs]

\* Identities of environs are not None, and the server's is among them; the
\* chains are made of the middlewares of this module.
Assumed ==
    /\ 1 \in Environs /\ None \notin Environs
    /\ Chains \subseteq Seq(Layers)

\* A StatusBasedForward only notes a status that has an error document.
NotesErrors(f) == f.at = "forward" => f.kept \in DOMAIN ErrorPath \cup {None}

Typed ==
    /\ chain \in Seq(Layers) /\ body \in {"none", "small", "large"}
    /\ environ \in [Environs -> Dicts] /\ stream \in [Environs -> Streams]
    /\ frames \in Stacks
    /\ event \in Calls \cup Returns \cup Raises \cup Forwards \cup OwnForwarding
    /\ told \in Seq(Codes) /\ hungry \in BOOLEAN
    /\ event.do = "call" /\ event.read => event.layer > Len(chain)
    /\ \A i \in 1..Len(frames) : NotesErrors(frames[i])

-----------------------------------------------------------------------------
(* Who decides about the status.                                             *)

\* No keeper among the first n frames.
Free(fs, n) == \A j \in 1..n : fs[j].at # "keeper"

\* What is not called for an error document notes statuses that were given, and
\* so does the outermost keeper.
Decided(fs, g) ==
    \A i \in 1..Len(fs) : Free(fs, i - 1) =>
        /\ fs[i].kept \in g \cup {None}
        /\ fs[i].at = "keeper" => fs[i].status \in g

EventDecided(ev, fs, g) ==
    /\ ev.do = "raise" /\ "status" \in DOMAIN ev /\ Free(fs, Len(fs)) => ev.status \in g \cup {None}
    /\ ev.do = "return" => /\ Decided(ev.to, g)
                           /\ Free(ev.to, Len(ev.to)) => ev.late \in g \cup {None}

\* What a keeper may have above it: a RecursiveMiddleware, which lets no forward through,
\* or another keeper; and what the one on top has called.
KeeperCalls(ev) ==
    /\ ev.do = "call" => ev.layer \in 1..Len(chain) /\ chain[ev.layer] = "recursive"
    /\ ev.do = "raise" => ev.what # "forward"

RecursiveAbove(fs, ev) ==
    \A i \in 1..Len(fs) :
        /\ fs[i].at = "recursive" => fs[i].layer \in 1..Len(chain) /\ chain[fs[i].layer] = "recursive"
        /\ fs[i].at = "keeper" => IF i < Len(fs) THEN fs[i + 1].at \in {"recursive", "keeper"}
                                  ELSE KeeperCalls(ev)

StatusInv ==
    /\ Decided(frames, given) /\ EventDecided(event, frames, given)
    /\ RecursiveAbove(frames, event) /\ ErrorDocumentKeepsStatus

-----------------------------------------------------------------------------
(* Who has read the body.                                                    *)

Carried(ev) == "environ" \in DOMAIN ev

\* The environs of the frames, and that of the event above them.
Envs(fs) == [i \in 1..Len(fs) |-> fs[i].environ]
Line(fs, ev) == IF Carried(ev) THEN Append(Envs(fs), ev.environ) ELSE Envs(fs)

\* Forwarded, for any dictionaries.
OnForward(dicts, e) == dicts[e].list # None \/ dicts[e].own

\* The calls with one environ follow each other; whatever is called for a forwarded
\* request is forwarded; and a stream was made for an environ that was called before.
Nested(line) ==
    \A i, j, k \in 1..Len(line) : i < j /\ j < k /\ line[i] = line[k] => line[j] = line[i]
ForwardedOn(line, dicts) ==
    \A i, j \in 1..Len(line) : i < j /\ OnForward(dicts, line[i]) => OnForward(dicts, line[j])
InputsBelow(line, dicts) ==
    \A i \in 1..Len(line) : ~OnForward(dicts, line[i]) =>
        \E k \in 1..i : line[k] = dicts[line[i]].input

Orderly(line, dicts) == Nested(line) /\ ForwardedOn(line, dicts) /\ InputsBelow(line, dicts)

\* Nothing of the body has been read when an application is called.
LeftFor(ev, dicts, streams) ==
    ev.do = "call" /\ ~ev.read /\ ~OnForward(dicts, ev.environ) =>
        streams[dicts[ev.environ].input].full /\ ~streams[dicts[ev.environ].input].read

\* All of it is in what a cascade can rewind.
LeftBelow(fs, dicts, streams) ==
    \A i \in 1..Len(fs) :
        fs[i].at = "cascade" /\ ~OnForward(dicts, fs[i].environ) =>
            streams[dicts[fs[i].environ].input].full

BodyInv ==
    /\ Orderly(Line(frames, event), environ)
    /\ event.do = "raise" /\ Carried(event) => OnForward(environ, event.environ)
    /\ body # "none" => LeftFor(event, environ, stream) /\ LeftBelow(frames, environ, stream)
    /\ hungry = FALSE

-----------------------------------------------------------------------------
(* Lemmas about the frames.                                                  *)

LEMMA MinIsLeast ==
    ASSUME NEW S \in SUBSET Nat, S # {}
    PROVE  Min(S) \in S /\ \A y \in S : Min(S) <= y
<1>1. PICK x \in S : \A y \in S : ~(<<y, x>> \in OpToRel(<, Nat))
  BY NatLessThanWellFounded, WFMin
<1>2. ASSUME NEW y \in S PROVE x <= y
  <2>1. x \in Nat /\ y \in Nat
    OBVIOUS
  <2>2. ~(y < x)
    BY <1>1, <2>1, Zenon DEF OpToRel
  <2> QED BY <2>1, <2>2
<1> QED BY <1>2 DEF Min

LEMMA MaxIsMember ==
    ASSUME NEW n \in Nat, NEW S \in SUBSET (1..n), S # {}
    PROVE  Max(S) \in S
<1> DEFINE T == {n - x : x \in S}
<1>1. T \in SUBSET Nat
  OBVIOUS
<1>5. T # {}
  <2>1. PICK x \in S : TRUE
    OBVIOUS
  <2>2. n - x \in T
    BY <2>1
  <2> QED BY <2>2
<1>2. Min(T) \in T /\ \A y \in T : Min(T) <= y
  BY <1>1, <1>5, MinIsLeast
<1>3. PICK x \in S : Min(T) = n - x
  BY <1>2
<1>4. ASSUME NEW y \in S PROVE x >= y
  <2>1. n - y \in T
    OBVIOUS
  <2>2. n - x <= n - y
    BY <1>2, <1>3, <2>1
  <2>3. x \in Int /\ y \in Int
    OBVIOUS
  <2> HIDE DEF T
  <2> QED BY <2>2, <2>3
<1> QED BY <1>4 DEF Max

LEMMA FrontOfSeq ==
    ASSUME NEW S, NEW q \in Seq(S), q # <<>>
    PROVE  LET p == SubSeq(q, 1, Len(q) - 1)
           IN  /\ Len(q) \in Nat \ {0}
               /\ p \in Seq(S) /\ Len(p) = Len(q) - 1 /\ \A i \in 1..Len(p) : p[i] = q[i]
<1>1. Len(q) \in Nat \ {0}
  OBVIOUS
<1>2. SubSeq(q, 1, Len(q) - 1) = [i \in 1..(Len(q) - 1) |-> q[i]]
  BY <1>1
<1> DEFINE m == Len(q) - 1
           p == [i \in 1..m |-> q[i]]
<1>3. m \in Nat /\ \A i \in 1..m : q[i] \in S
  BY <1>1
<1>4. p \in [1..m -> S] /\ \A i \in 1..m : p[i] = q[i]
  BY <1>3
<1>5. p \in Seq(S) /\ Len(p) = m
  <2> HIDE DEF p, m
  <2> QED BY <1>3, <1>4
<1> QED BY <1>1, <1>2, <1>4, <1>5

LEMMA Frame0 ==
    ASSUME NEW fs \in Stacks, NEW i \in 1..Len(fs)
    PROVE  /\ fs[i] \in Wrappers \cup Keepers
           /\ fs[i].environ \in Environs /\ fs[i].layer \in Nat \ {0} /\ fs[i].kept \in Codes \cup {None}
           /\ fs[i].at = "keeper" => fs[i].status \in Codes
BY DEF Stacks, Wrappers, Keepers, Layers

LEMMA Popped ==
    ASSUME NEW fs \in Stacks, fs # <<>>
    PROVE  LET p == SubSeq(fs, 1, Len(fs) - 1)
           IN  /\ Len(fs) \in Nat \ {0}
               /\ p \in Stacks /\ Len(p) = Len(fs) - 1 /\ \A i \in 1..Len(p) : p[i] = fs[i]
BY FrontOfSeq DEF Stacks

LEMMA Pushed ==
    ASSUME NEW fs \in Stacks, NEW f \in Wrappers \cup Keepers
    PROVE  /\ Append(fs, f) \in Stacks /\ Len(Append(fs, f)) = Len(fs) + 1
           /\ \A i \in 1..Len(fs) : Append(fs, f)[i] = fs[i]
           /\ Append(fs, f)[Len(fs) + 1] = f
BY DEF Stacks

LEMMA StatusIsCode ==
    ASSUME NEW fs \in Stacks, NEW i \in Nat, NEW s \in Codes
    PROVE  StatusAt(fs, i, s) \in Codes
<1> DEFINE keepers == {j \in (i + 1)..Len(fs) : fs[j].at = "keeper"}
<1>1. CASE keepers = {}
  BY <1>1 DEF StatusAt
<1>2. CASE keepers # {}
  <2>1. Len(fs) \in Nat /\ keepers \in SUBSET Nat
    BY DEF Stacks
  <2>2. Min(keepers) \in keepers
    BY <1>2, <2>1, MinIsLeast
  <2>3. Min(keepers) \in 1..Len(fs) /\ fs[Min(keepers)].at = "keeper"
    BY <2>1, <2>2
  <2>4. fs[Min(keepers)].status \in Codes
    BY <2>3, Frame0
  <2> QED BY <1>2, <2>4 DEF StatusAt
<1> QED BY <1>1, <1>2

\* What start_response leaves of the frames: a status is noted where it is kept.
LEMMA NotedFrames ==
    ASSUME NEW fs \in Stacks, NEW s \in Codes
    PROVE  /\ Noted(fs, s) \in Stacks /\ Len(Noted(fs, s)) = Len(fs)
           /\ \A i \in 1..Len(fs) :
                 /\ Noted(fs, s)[i].at = fs[i].at /\ Noted(fs, s)[i].layer = fs[i].layer
                 /\ Noted(fs, s)[i].environ = fs[i].environ
                 /\ fs[i].at = "keeper" => Noted(fs, s)[i].status = fs[i].status
                 /\ \/ Noted(fs, s)[i].kept = fs[i].kept
                    \/ Noted(fs, s)[i].kept = StatusAt(fs, i, s) /\ fs[i].at # "keeper"
                 /\ NotesErrors(fs[i]) => NotesErrors(Noted(fs, s)[i])
<1> DEFINE n == Max(Holders(fs, s))
           noted == [fs EXCEPT ![n].kept = StatusAt(fs, n, s)]
<1>0. Len(fs) \in Nat /\ DOMAIN fs = 1..Len(fs)
  BY DEF Stacks
<1>1. CASE Noted(fs, s) = fs
  BY <1>1
<1>2. CASE Noted(fs, s) # fs
  <2>1. Holders(fs, s) # {} /\ Noted(fs, s) = noted
    BY <1>2 DEF Noted
  <2>2. Holders(fs, s) \in SUBSET (1..Len(fs))
    BY <1>0 DEF Holders
  <2>3. n \in Holders(fs, s)
    BY <1>0, <2>1, <2>2, MaxIsMember
  <2>4. n \in 1..Len(fs) /\ Keeps(fs[n], StatusAt(fs, n, s))
    BY <1>0, <2>3 DEF Holders
  <2>5. StatusAt(fs, n, s) \in Codes
    BY <2>4, StatusIsCode
  <2>6. fs[n] \in Wrappers \cup Keepers /\ fs[n].at # "keeper"
    BY <2>4, Frame0 DEF Keeps
  <2>7. fs[n] \in Wrappers
    BY <2>6 DEF Keepers
  <2> DEFINE f == [fs[n] EXCEPT !.kept = StatusAt(fs, n, s)]
  <2>8. /\ f \in Wrappers /\ f.at = fs[n].at /\ f.layer = fs[n].layer
        /\ f.environ = fs[n].environ /\ f.kept = StatusAt(fs, n, s)
    BY <2>5, <2>7 DEF Wrappers
  <2>9. /\ Noted(fs, s) \in Stacks /\ Len(Noted(fs, s)) = Len(fs)
        /\ Noted(fs, s)[n] = f /\ \A i \in 1..Len(fs) : i # n => Noted(fs, s)[i] = fs[i]
    <3> HIDE DEF n
    <3>1. noted = [fs EXCEPT ![n] = f]
      OBVIOUS
    <3>2. f \in Wrappers \cup Keepers
      BY <2>8
    <3> HIDE DEF f, noted
    <3> QED BY <1>0, <2>1, <2>4, <3>1, <3>2 DEF Stacks
  <2>10. NotesErrors(f)
    BY <2>4, <2>8 DEF NotesErrors, Keeps
  <2> HIDE DEF f, n
  <2> QED BY <2>4, <2>6, <2>8, <2>9, <2>10
<1> QED BY <1>1, <1>2

-----------------------------------------------------------------------------
(* The types.                                                                *)

LEMMA Made ==
    /\ \A layer \in Nat \ {0}, e \in Environs :
          Call(layer, e) \in Calls /\ Call(layer, e).do = "call" /\ Call(layer, e).layer = layer
          /\ Call(layer, e).environ = e /\ ~Call(layer, e).read
    /\ Return \in Returns /\ Return.do = "return" /\ Return.to = <<>> /\ Return.late = None
    /\ \A what \in {"http", "error", "loop"} : Raise(what) \in Raises /\ Raise(what).do = "raise"
                                               /\ Raise(what).what = what
    /\ \A p \in Paths, s \in Codes \cup {None} :
          Forward(p, s) \in Forwards /\ Forward(p, s).status = s /\ Forward(p, s).do = "raise"
<1>1. << >> \in Stacks
  BY DEF Stacks
<1> HIDE DEF Stacks
<1> QED BY <1>1 DEF Call, Calls, Return, Returns, Raise, Raises, Forward, Forwards

LEMMA Kinds ==
    ASSUME NEW ev \in Calls \cup Returns \cup Raises \cup Forwards \cup OwnForwarding
    PROVE  /\ ev.do = "call" <=> ev \in Calls
           /\ ev.do = "return" <=> ev \in Returns
           /\ ev.do = "raise" <=> ev \in Raises \cup Forwards \cup OwnForwarding
           /\ ev.do = "raise" => (ev.what # "forward" <=> ev \in Raises)
           /\ Carried(ev) <=> ev \in Calls \cup OwnForwarding
           /\ "status" \in DOMAIN ev <=> ev \in Forwards
           /\ Carried(ev) => ev.environ \in Environs
<1> USE DEF Carried
<1>1. CASE ev \in Calls
  BY <1>1 DEF Calls, Returns, Raises, Forwards, OwnForwarding
<1>2. CASE ev \in Returns
  <2>1. DOMAIN ev = {"do", "late", "to"} /\ ev.do = "return"
    BY <1>2 DEF Returns
  <2> QED BY <1>2, <2>1 DEF Calls, Raises, Forwards, OwnForwarding
<1>3. CASE ev \in Raises
  BY <1>3 DEF Calls, Returns, Raises, Forwards, OwnForwarding
<1>4. CASE ev \in Forwards
  BY <1>4 DEF Calls, Returns, Raises, Forwards, OwnForwarding
<1>5. CASE ev \in OwnForwarding
  BY <1>5 DEF Calls, Returns, Raises, Forwards, OwnForwarding
<1> QED BY <1>1, <1>2, <1>3, <1>4, <1>5

\* The types of the three parts a step may change.
EventTyped ==
    /\ event \in Calls \cup Returns \cup Raises \cup Forwards \cup OwnForwarding
    /\ event.do = "call" /\ event.read => event.layer > Len(chain)
FramesTyped == frames \in Stacks /\ \A i \in 1..Len(frames) : NotesErrors(frames[i])
EnvironsTyped == environ \in [Environs -> Dicts] /\ stream \in [Environs -> Streams]

LEMMA TypedParts ==
    Typed <=> /\ EventTyped /\ FramesTyped /\ EnvironsTyped
              /\ chain \in Seq(Layers) /\ body \in {"none", "small", "large"}
              /\ told \in Seq(Codes) /\ hungry \in BOOLEAN
BY Zenon DEF Typed, EventTyped, FramesTyped, EnvironsTyped

LEMMA DictsChanged ==
    ASSUME NEW d \in Dicts, NEW e \in Environs
    PROVE  /\ [d EXCEPT !.input = e] \in Dicts
           /\ [d EXCEPT !.list = e] \in Dicts
           /\ \A p \in Paths : /\ [d EXCEPT !.list = e, !.path = p] \in Dicts
                              /\ [d EXCEPT !.path = p, !.own = TRUE] \in Dicts
           /\ d.input \in Environs /\ d.list \in Environs \cup {None}
BY DEF Dicts

LEMMA PopTyped ==
    ASSUME FramesTyped, frames # <<>>
    PROVE  /\ Len(frames) \in Nat \ {0} /\ Top = frames[Len(frames)]
           /\ Top \in Wrappers \cup Keepers /\ Top.environ \in Environs /\ Top.layer \in Nat \ {0}
           /\ Pop \in Stacks /\ Len(Pop) = Len(frames) - 1
           /\ \A i \in 1..Len(Pop) : Pop[i] = frames[i]
           /\ frames' = Pop => FramesTyped'
<1>1. /\ Len(frames) \in Nat \ {0}
      /\ Pop \in Stacks /\ Len(Pop) = Len(frames) - 1 /\ \A i \in 1..Len(Pop) : Pop[i] = frames[i]
  BY Popped DEF FramesTyped, Pop
<1>2. Top \in Wrappers \cup Keepers /\ Top.environ \in Environs /\ Top.layer \in Nat \ {0}
  BY <1>1, Frame0 DEF FramesTyped, Top
<1>3. ASSUME frames' = Pop PROVE FramesTyped'
  <2>1. \A i \in 1..Len(Pop) : i \in 1..Len(frames)
    BY <1>1
  <2> QED BY <1>1, <1>3, <2>1 DEF FramesTyped
<1> QED BY <1>1, <1>2, <1>3 DEF Top

LEMMA PushTyped ==
    ASSUME FramesTyped, NEW f \in Wrappers \cup Keepers, NotesErrors(f), frames' = Append(frames, f)
    PROVE  FramesTyped'
<1>1. Len(frames) \in Nat
  BY DEF FramesTyped, Stacks
<1> QED BY <1>1, Pushed DEF FramesTyped

LEMMA NoteTyped ==
    ASSUME FramesTyped, NEW s \in Codes, frames' = Noted(frames, s)
    PROVE  FramesTyped'
BY NotedFrames DEF FramesTyped

LEMMA ToldTyped ==
    ASSUME told \in Seq(Codes), NEW fs \in Stacks, NEW s \in Codes
    PROVE  Told(fs, s) \in Seq(Codes)
<1>1. StatusAt(fs, 0, s) \in Codes
  BY StatusIsCode
<1> QED BY <1>1 DEF Told

LEMMA InitTyped ==
    ASSUME Assumed, DispatchInit PROVE Typed
<1>1. event \in Calls /\ event.do = "call" /\ ~event.read
  <2>1. 1 \in Nat \ {0} /\ 1 \in Environs /\ event = Call(1, 1)
    BY DEF DispatchInit, Assumed
  <2> QED BY <2>1, Made
<1>2. environ \in [Environs -> Dicts]
  BY DEF DispatchInit, Assumed, Dicts, Paths
<1>3. stream \in [Environs -> Streams]
  BY DEF DispatchInit, Streams
<1>4. FramesTyped
  BY DEF DispatchInit, FramesTyped, Stacks
<1>5. /\ chain \in Seq(Layers) /\ body \in {"none", "small", "large"}
      /\ told \in Seq(Codes) /\ hungry \in BOOLEAN
  <2>1. chain \in Seq(Layers)
    BY DEF DispatchInit, Assumed
  <2>2. body \in {"none", "small", "large"} /\ hungry \in BOOLEAN
    BY DEF DispatchInit
  <2>3. told \in Seq(Codes)
    BY DEF DispatchInit
  <2> QED BY <2>1, <2>2, <2>3
<1>6. EventTyped
  BY <1>1 DEF EventTyped
<1> QED BY <1>2, <1>3, <1>4, <1>5, <1>6, TypedParts DEF EnvironsTyped

\* An action that leaves the dictionaries and the request alone.
LEMMA TypedSame ==
    ASSUME Typed, UNCHANGED <<chain, body>>, EventTyped', FramesTyped', EnvironsTyped',
           told' \in Seq(Codes), hungry' \in BOOLEAN
    PROVE  Typed'
<1>1. chain' \in Seq(Layers) /\ body' \in {"none", "small", "large"}
  BY DEF Typed
<1> QED BY <1>1 DEF Typed, EventTyped, FramesTyped, EnvironsTyped

LEMMA StepTyped ==
    ASSUME Assumed, Typed, [DispatchNext]_dispatchVars PROVE Typed'
<1>0. /\ EventTyped /\ FramesTyped /\ EnvironsTyped
      /\ chain \in Seq(Layers) /\ told \in Seq(Codes) /\ hungry \in BOOLEAN
  BY TypedParts
<1> DEFINE Rest == UNCHANGED <<chain, body>> /\ told' \in Seq(Codes) /\ hungry' \in BOOLEAN
<1>a. ASSUME UNCHANGED <<environ, stream>> PROVE EnvironsTyped'
  BY <1>0, <1>a DEF EnvironsTyped
<1>b. ASSUME UNCHANGED frames PROVE FramesTyped'
  BY <1>0, <1>b DEF FramesTyped
<1>c. ASSUME UNCHANGED <<event, chain>> PROVE EventTyped'
  BY <1>0, <1>c DEF EventTyped
<1>d. ASSUME NEW layer \in Nat \ {0}, NEW e \in Environs, event' = Call(layer, e) PROVE EventTyped'
  BY <1>d, Made DEF EventTyped
<1>e. ASSUME event' \in Returns \cup Raises \cup Forwards \cup OwnForwarding PROVE EventTyped'
  <2>1. event'.do # "call"
    BY <1>e DEF Returns, Raises, Forwards, OwnForwarding
  <2> QED BY <1>e, <2>1 DEF EventTyped
<1>f. Return \in Returns /\ \A what \in {"http", "error", "loop"} : Raise(what) \in Raises
  BY Made
<1>g. event.do = "call" => event \in Calls /\ event.environ \in Environs /\ event.layer \in Nat \ {0}
  BY Kinds DEF Typed, Calls
<1>h. \A copy \in Fresh : copy \in Environs
  BY DEF Fresh, Unused
<1> HIDE DEF Calls, Returns, Raises, Forwards, OwnForwarding, Stacks, Dicts, Streams
<1>1. ASSUME NEW kind \in {"recursive", "forward"}, CallWrapper(kind) PROVE Typed'
  <2>1. event \in Calls /\ event.environ \in Environs /\ event.layer \in Nat \ {0} /\ event.layer + 1 \in Nat \ {0}
    BY <1>1, <1>g DEF CallWrapper, Called
  <2>2. Frame(kind) \in Wrappers \cup Keepers /\ NotesErrors(Frame(kind))
    <3>1. Frame(kind) \in Wrappers
      BY <2>1 DEF Frame, Wrappers, Layers
    <3>2. Frame(kind).kept = None
      BY DEF Frame
    <3> QED BY <3>1, <3>2 DEF NotesErrors
  <2>3. Rest /\ UNCHANGED <<environ, stream>> /\ frames' = Append(frames, Frame(kind))
        /\ event' = Call(event.layer + 1, event.environ)
    BY <1>0, <1>1 DEF CallWrapper, requestVars, environVars
  <2>4. EventTyped' /\ FramesTyped' /\ EnvironsTyped'
    BY <1>0, <1>a, <1>d, <2>1, <2>2, <2>3, PushTyped
  <2> QED BY <2>3, <2>4, TypedSame
<1>2. ASSUME CallCascade PROVE Typed'
  <2> DEFINE e == event.environ
             left == stream[environ[e].input].full /\ ~stream[environ[e].input].read
  <2>1. event \in Calls /\ e \in Environs /\ event.layer \in Nat \ {0} /\ Rest
    BY <1>0, <1>2, <1>g DEF CallCascade, Called, requestVars
  <2>2. CASE body = "large" /\ ~left
    <3>1. event' = Raise("error") /\ UNCHANGED <<environ, stream, frames>>
      BY <1>2, <2>2 DEF CallCascade, environVars
    <3> QED BY <1>a, <1>b, <1>e, <1>f, <2>1, <3>1, TypedSame
  <2>3. CASE ~(body = "large" /\ ~left)
    <3>1. PICK copy \in Fresh :
             /\ environ' = IF body = "none" THEN [environ EXCEPT ![copy] = environ[e]]
                           ELSE [environ EXCEPT ![e].input = e,
                                                ![copy] = [environ[e] EXCEPT !.input = e]]
             /\ stream' = IF body = "none" THEN stream
                          ELSE [stream EXCEPT ![e] = [full |-> left, read |-> FALSE]]
             /\ frames' = Append(frames, Frame("cascade"))
             /\ event' = Call(event.layer + 1, copy)
      BY <1>2, <2>3 DEF CallCascade
    <3>2. copy \in Environs /\ event.layer + 1 \in Nat \ {0}
      BY <1>h, <2>1
    <3>3. Frame("cascade") \in Wrappers \cup Keepers /\ NotesErrors(Frame("cascade"))
      BY <2>1 DEF Frame, Wrappers, Layers, NotesErrors
    <3>4. EnvironsTyped'
      <4>1. [environ[e] EXCEPT !.input = e] \in Dicts /\ environ[e] \in Dicts
        <5>1. environ[e] \in Dicts
          <6> HIDE DEF e
          <6> QED BY <1>0, <2>1 DEF EnvironsTyped
        <5> QED BY <2>1, <5>1, DictsChanged
      <4>2. [full |-> left, read |-> FALSE] \in Streams
        BY <1>0 DEF Streams
      <4> HIDE DEF e, left
      <4> QED BY <1>0, <2>1, <3>1, <3>2, <4>1, <4>2 DEF EnvironsTyped
    <3>5. EventTyped' /\ FramesTyped'
      BY <1>0, <1>d, <3>1, <3>2, <3>3, PushTyped
    <3> QED BY <2>1, <3>4, <3>5, TypedSame
  <2> QED BY <2>2, <2>3
<1>3. ASSUME ReadBody PROVE Typed'
  <2> DEFINE in == environ[event.environ].input
  <2>1. event \in Calls /\ event.environ \in Environs /\ event.layer > Len(chain)
    BY <1>3, <1>g DEF ReadBody, InApp
  <2>2. /\ UNCHANGED <<chain, body, environ, frames, told>>
        /\ stream' = [stream EXCEPT ![in].read = TRUE] /\ event' = [event EXCEPT !.read = TRUE]
        /\ hungry' = (hungry \/ (~Forwarded(event.environ) /\ (stream[in].read \/ ~stream[in].full)))
    BY <1>3 DEF ReadBody, requestVars
  <2>3. EventTyped'
    BY <2>1, <2>2 DEF EventTyped, Calls
  <2>4. in \in Environs
    BY <1>0, <2>1 DEF EnvironsTyped, Dicts
  <2>5. [stream[in] EXCEPT !.read = TRUE] \in Streams
    BY <1>0, <2>4 DEF EnvironsTyped, Streams
  <2>6. EnvironsTyped'
    <3> HIDE DEF in
    <3> QED BY <1>0, <2>2, <2>4, <2>5 DEF EnvironsTyped
  <2>7. hungry' \in BOOLEAN /\ told' \in Seq(Codes)
    BY <1>0, <2>2
  <2> QED BY <1>b, <2>2, <2>3, <2>6, <2>7, TypedSame
<1>4. ASSUME NEW s \in Status, StartResponse(s) PROVE Typed'
  <2>1. event \in Calls /\ s \in Codes /\ event.layer > Len(chain)
    BY <1>4, <1>g DEF StartResponse, InApp, Codes
  <2>2. Told(frames, s) \in Seq(Codes)
    BY <1>0, <2>1, ToldTyped DEF FramesTyped
  <2>3. Rest
    BY <1>0, <1>4, <2>2 DEF StartResponse, requestVars
  <2>4. [event EXCEPT !.started = TRUE] \in Calls /\ [event EXCEPT !.started = TRUE].layer > Len(chain)
    BY <2>1 DEF Calls
  <2>5. EventTyped'
    <3>1. CASE event' = Raise("error")
      BY <1>e, <1>f, <3>1
    <3>2. CASE event' = [event EXCEPT !.started = TRUE]
      BY <2>3, <2>4, <3>2 DEF EventTyped
    <3> QED BY <1>4, <3>1, <3>2 DEF StartResponse
  <2>6. FramesTyped' /\ EnvironsTyped'
    BY <1>0, <1>4, <1>a, <2>1, NoteTyped DEF StartResponse, environVars
  <2> QED BY <2>3, <2>5, <2>6, TypedSame
<1>5. CASE AppReturns
  BY <1>0, <1>5, <1>a, <1>b, <1>e, <1>f, TypedSame DEF AppReturns, requestVars, environVars
<1>6. ASSUME NEW s \in Status, AppReturnsLazily(s) PROVE Typed'
  <2>1. Rest /\ UNCHANGED <<environ, stream, frames>> /\ event' = [Return EXCEPT !.late = s, !.to = frames]
    BY <1>0, <1>6 DEF AppReturnsLazily, requestVars, environVars
  <2>2. event' \in Returns
    BY <1>0, <1>f, <2>1 DEF Returns, Codes, FramesTyped
  <2> QED BY <1>a, <1>b, <1>e, <2>1, <2>2, TypedSame
<1>7. ASSUME NEW what \in {"http", "error"}, AppRaises(what) PROVE Typed'
  BY <1>0, <1>7, <1>a, <1>b, <1>e, <1>f, TypedSame DEF AppRaises, requestVars, environVars
<1>8. ASSUME NEW p \in Path, AppForwards(p) PROVE Typed'
  <2>1. Forward(p, None) \in Forwards
    BY Made DEF Paths
  <2> QED BY <1>0, <1>8, <1>a, <1>b, <1>e, <2>1, TypedSame DEF AppForwards, requestVars, environVars
<1>9. ASSUME NEW p \in Path, AppForwardsEnviron(p) PROVE Typed'
  <2>1. event \in Calls /\ event.environ \in Environs
    BY <1>9, <1>g DEF AppForwardsEnviron, InApp
  <2>2. PICK copy \in Fresh :
           /\ environ' = [environ EXCEPT ![copy] = [environ[event.environ] EXCEPT !.path = p, !.own = TRUE]]
           /\ event' = [do |-> "raise", what |-> "forward", environ |-> copy]
    BY <1>9 DEF AppForwardsEnviron
  <2>3. Rest /\ UNCHANGED <<stream, frames>>
    BY <1>0, <1>9 DEF AppForwardsEnviron, requestVars
  <2>4. event' \in OwnForwarding
    BY <1>h, <2>2 DEF OwnForwarding
  <2>5. [environ[event.environ] EXCEPT !.path = p, !.own = TRUE] \in Dicts
    <3>1. environ[event.environ] \in Dicts /\ p \in Paths
      BY <1>0, <2>1 DEF EnvironsTyped, Paths
    <3> QED BY <2>1, <3>1, DictsChanged
  <2>6. EnvironsTyped'
    BY <1>0, <1>h, <2>2, <2>3, <2>5 DEF EnvironsTyped
  <2> QED BY <1>b, <1>e, <2>3, <2>4, <2>6, TypedSame
<1>10. CASE Pass
  <2>1. frames # <<>> /\ frames' = Pop /\ UNCHANGED <<chain, body, environ, stream, event, told, hungry>>
    BY <1>10 DEF Pass, Returned, Raised, requestVars, environVars
  <2> QED BY <1>0, <1>a, <1>c, <2>1, PopTyped, TypedSame
<1>11. CASE RaiseForward
  <2>1. /\ frames # <<>> /\ frames' = Pop /\ UNCHANGED <<chain, body, environ, stream, told, hungry>>
        /\ event' = Forward(ErrorPath[Top.kept], Top.kept) /\ Top.at = "forward" /\ Top.kept # None
    BY <1>11 DEF RaiseForward, Returned, requestVars, environVars
  <2>2. NotesErrors(Top) /\ Top.kept \in Codes \cup {None}
    BY <1>0, <2>1, PopTyped, Frame0 DEF FramesTyped
  <2>3. Top.kept \in DOMAIN ErrorPath
    BY <2>1, <2>2 DEF NotesErrors
  <2>4. event' \in Forwards
    BY <2>1, <2>2, <2>3, Made DEF Paths
  <2> QED BY <1>0, <1>a, <1>e, <2>1, <2>4, PopTyped, TypedSame
<1>12. CASE ForwardRequest
  <2> DEFINE e == Top.environ
             keeper == [at |-> "keeper", layer |-> Top.layer, environ |-> e, kept |-> None,
                        status |-> event.status]
             list == IF environ[e].list = None THEN e ELSE environ[e].list
  <2>1. /\ frames # <<>> /\ Top.at = "recursive" /\ event.do = "raise" /\ event.what = "forward"
        /\ UNCHANGED <<chain, body, stream, told, hungry>>
        /\ IF "environ" \in DOMAIN event
           THEN /\ event' = Call(Top.layer, event.environ) /\ frames' = Pop
                /\ environ' = [environ EXCEPT ![e].list = list]
           ELSE /\ event' = Call(Top.layer, e)
                /\ frames' = IF event.status = None THEN Pop ELSE Append(Pop, keeper)
                /\ environ' = [environ EXCEPT ![e].list = list, ![e].path = event.path]
    BY <1>12 DEF ForwardRequest, Raised, requestVars
  <2>2. /\ Top.layer \in Nat \ {0} /\ e \in Environs /\ Pop \in Stacks
        /\ \A i \in 1..Len(Pop) : NotesErrors(Pop[i])
    <3>1. \A i \in 1..Len(Pop) : i \in 1..Len(frames) /\ Pop[i] = frames[i]
      BY <1>0, <2>1, PopTyped
    <3> QED BY <1>0, <2>1, <3>1, PopTyped DEF FramesTyped
  <2>3. /\ environ[e] \in Dicts /\ list \in Environs
        /\ [environ[e] EXCEPT !.list = list] \in Dicts
        /\ \A p \in Paths : [environ[e] EXCEPT !.list = list, !.path = p] \in Dicts
    BY <1>0, <2>2 DEF EnvironsTyped, Dicts
  <2>4. CASE Carried(event)
    <3>1. event.environ \in Environs
      BY <2>4, Kinds DEF Typed
    <3>2. EnvironsTyped'
      <4>1. environ' = [environ EXCEPT ![e] = [environ[e] EXCEPT !.list = list]]
        BY <2>1, <2>4 DEF Carried
      <4> HIDE DEF e, list
      <4> QED BY <1>0, <2>1, <2>2, <2>3, <4>1 DEF EnvironsTyped
    <3>3. EventTyped'
      BY <1>d, <2>1, <2>2, <2>4, <3>1 DEF Carried
    <3>4. FramesTyped'
      BY <1>0, <2>1, <2>4, PopTyped DEF Carried
    <3> QED BY <1>0, <2>1, <3>2, <3>3, <3>4, TypedSame
  <2>5. CASE ~Carried(event)
    <3>1. event \in Forwards
      BY <2>1, <2>5, Kinds DEF Typed
    <3>2. event.path \in Paths /\ event.status \in Codes \cup {None}
      BY <3>1 DEF Forwards
    <3>3. EnvironsTyped'
      <4>1. environ' = [environ EXCEPT ![e] = [environ[e] EXCEPT !.list = list, !.path = event.path]]
        BY <2>1, <2>5 DEF Carried
      <4>2. [environ[e] EXCEPT !.list = list, !.path = event.path] \in Dicts
        BY <2>3, <3>2
      <4> HIDE DEF e, list
      <4> QED BY <1>0, <2>1, <2>2, <4>1, <4>2 DEF EnvironsTyped
    <3>4. EventTyped'
      BY <1>d, <2>1, <2>2, <2>5 DEF Carried
    <3>5. FramesTyped'
      <4>1. CASE event.status = None
        BY <1>0, <2>1, <2>5, <4>1, PopTyped DEF Carried
      <4>2. CASE event.status # None
        <5>1. frames' = Append(Pop, keeper)
          BY <2>1, <2>5, <4>2 DEF Carried
        <5>2. keeper \in Wrappers \cup Keepers /\ NotesErrors(keeper)
          BY <2>2, <3>2, <4>2 DEF Keepers, NotesErrors
        <5>3. Len(Pop) \in Nat
          BY <2>2 DEF Stacks
        <5> HIDE DEF keeper
        <5> QED BY <2>2, <5>1, <5>2, <5>3, Pushed DEF FramesTyped
      <4> QED BY <4>1, <4>2
    <3> QED BY <1>0, <2>1, <3>3, <3>4, <3>5, TypedSame
  <2> QED BY <2>4, <2>5
<1>13. CASE ForwardingLoop
  <2>1. /\ frames # <<>> /\ frames' = Pop /\ UNCHANGED <<chain, body, environ, stream, told, hungry>>
        /\ event' \in Raises
    BY <1>13, <1>f DEF ForwardingLoop, Raised, requestVars, environVars
  <2> QED BY <1>0, <1>a, <1>e, <2>1, PopTyped, TypedSame
<1>14. CASE ErrorPageNotFetched
  <2>1. /\ frames # <<>> /\ UNCHANGED <<chain, body, environ, stream, hungry>>
        /\ event' = Return /\ told' = Told(frames, 500)
        /\ frames' = SubSeq(Noted(frames, 500), 1, Len(frames) - 1)
    BY <1>14 DEF ErrorPageNotFetched, Raised, requestVars, environVars
  <2>2. 500 \in Codes
    BY DEF Codes
  <2>3. told' \in Seq(Codes)
    BY <1>0, <2>1, <2>2, ToldTyped DEF FramesTyped
  <2>4. FramesTyped'
    <3> DEFINE n == Noted(frames, 500)
    <3>1. /\ n \in Stacks /\ Len(n) = Len(frames)
          /\ \A i \in 1..Len(frames) : NotesErrors(frames[i]) => NotesErrors(n[i])
      <4> HIDE DEF NotesErrors
      <4>1. frames \in Stacks
        BY <1>0 DEF FramesTyped
      <4> QED BY <2>2, <4>1, NotedFrames
    <3>2. frames \in Stacks /\ Len(frames) \in Nat \ {0}
      BY <1>0, <2>1, PopTyped DEF FramesTyped
    <3>3. n # <<>>
      BY <3>1, <3>2
    <3> HIDE DEF n
    <3>4. /\ frames' \in Stacks /\ Len(frames') = Len(n) - 1
          /\ \A i \in 1..Len(frames') : frames'[i] = n[i]
      BY <2>1, <3>1, <3>3, Popped DEF n
    <3>5. \A i \in 1..Len(frames') : i \in 1..Len(frames)
      BY <3>1, <3>2, <3>4
    <3> QED BY <1>0, <3>1, <3>4, <3>5 DEF FramesTyped
  <2> QED BY <1>0, <1>a, <1>e, <1>f, <2>1, <2>3, <2>4, TypedSame
<1>15. CASE NextApplication
  <2> DEFINE in == environ[Top.environ].input
  <2>1. /\ frames # <<>> /\ frames' = Pop /\ UNCHANGED <<chain, body, environ, told, hungry>>
        /\ event' = Call(Len(chain) + 1, Top.environ)
        /\ stream' = IF body = "none" THEN stream ELSE [stream EXCEPT ![in].read = FALSE]
    BY <1>15 DEF NextApplication, LastApplication, Returned, Raised, requestVars
  <2>2. Top.environ \in Environs /\ FramesTyped' /\ Len(chain) + 1 \in Nat \ {0}
    BY <1>0, <2>1, PopTyped
  <2>3. EnvironsTyped'
    <3>1. in \in Environs
      BY <1>0, <2>2 DEF EnvironsTyped, Dicts
    <3>2. [stream[in] EXCEPT !.read = FALSE] \in Streams
      BY <1>0, <3>1 DEF EnvironsTyped, Streams
    <3> HIDE DEF in
    <3> QED BY <1>0, <2>1, <3>1, <3>2 DEF EnvironsTyped
  <2>4. EventTyped'
    BY <1>d, <2>1, <2>2
  <2> QED BY <1>0, <2>1, <2>2, <2>3, <2>4, TypedSame
<1>16. CASE ExhaustingFails
  <2>1. /\ frames # <<>> /\ frames' = Pop /\ UNCHANGED <<chain, body, environ, stream, told, hungry>>
        /\ event' \in Raises
    BY <1>16, <1>f DEF ExhaustingFails, Returned, requestVars, environVars
  <2> QED BY <1>0, <1>a, <1>e, <2>1, PopTyped, TypedSame
<1>17. CASE Served
  <2>1. UNCHANGED <<chain, body, environ, stream, frames, event, hungry>>
    BY <1>17 DEF Served, requestVars, environVars
  <2>2. event \in Returns
    BY <1>17, Kinds DEF Served, Typed
  <2>3. event.late # None => Told(event.to, event.late) \in Seq(Codes)
    BY <1>0, <2>2, ToldTyped DEF Returns
  <2>4. told' \in Seq(Codes)
    <3>1. << >> \in Seq(Codes)
      OBVIOUS
    <3>2. told' = told \/ told' = << >> \/ (event.late # None /\ told' = Told(event.to, event.late))
      BY <1>17 DEF Served
    <3> QED BY <1>0, <2>3, <3>1, <3>2
  <2> QED BY <1>0, <1>a, <1>b, <1>c, <2>1, <2>4, TypedSame
<1>18. CASE Failed \/ UNCHANGED dispatchVars
  <2>1. UNCHANGED <<chain, body, environ, stream, frames, event, told, hungry>>
    BY <1>18 DEF Failed, dispatchVars, requestVars, environVars
  <2> QED BY <1>0, <1>a, <1>b, <1>c, <2>1, TypedSame
<1> QED
  BY <1>1, <1>2, <1>3, <1>4, <1>5, <1>6, <1>7, <1>8, <1>9, <1>10, <1>11, <1>12, <1>13,
     <1>14, <1>15, <1>16, <1>17, <1>18 DEF DispatchNext, CallRecursive, CallForward

-----------------------------------------------------------------------------
(* Who decides about the status.                                             *)

LEMMA OutermostDecides ==
    ASSUME NEW fs \in Stacks, NEW i \in 0..Len(fs), NEW g, NEW s, Decided(fs, g), Free(fs, i),
           Free(fs, Len(fs)) => s \in g
    PROVE  StatusAt(fs, i, s) \in g
<1> DEFINE keepers == {j \in (i + 1)..Len(fs) : fs[j].at = "keeper"}
<1>0. Len(fs) \in Nat /\ i \in Nat
  BY DEF Stacks
<1>1. CASE keepers = {}
  <2>1. Free(fs, Len(fs))
    <3> SUFFICES ASSUME NEW j \in 1..Len(fs) PROVE fs[j].at # "keeper"
      BY DEF Free
    <3>1. j \in 1..i \/ j \in (i + 1)..Len(fs)
      BY <1>0
    <3> QED BY <1>1, <3>1 DEF Free
  <2> QED BY <1>1, <2>1 DEF StatusAt
<1>2. CASE keepers # {}
  <2>1. keepers \in SUBSET Nat
    BY <1>0
  <2>2. Min(keepers) \in keepers /\ \A y \in keepers : Min(keepers) <= y
    BY <1>2, <2>1, MinIsLeast
  <2> DEFINE m == Min(keepers)
  <2> HIDE DEF m
  <2>3. m \in (i + 1)..Len(fs) /\ fs[m].at = "keeper"
    BY <2>2 DEF m
  <2>4. Free(fs, m - 1)
    <3> SUFFICES ASSUME NEW j \in 1..(m - 1) PROVE fs[j].at # "keeper"
      BY DEF Free
    <3>1. j \in 1..i \/ (j \in (i + 1)..Len(fs) /\ j < m)
      BY <1>0, <2>3
    <3>2. j \in keepers => m <= j
      BY <2>2 DEF m
    <3>3. j < m => j \notin keepers
      BY <1>0, <2>3, <3>2
    <3> QED BY <3>1, <3>3 DEF Free
  <2>5. m \in 1..Len(fs)
    BY <1>0, <2>3
  <2>6. fs[m].status \in g
    BY <2>3, <2>4, <2>5 DEF Decided
  <2> QED BY <1>2, <2>6 DEF StatusAt, m
<1> QED BY <1>1, <1>2

LEMMA NotedDecided ==
    ASSUME NEW fs \in Stacks, NEW g, NEW s \in Codes, Decided(fs, g), Free(fs, Len(fs)) => s \in g
    PROVE  Decided(Noted(fs, s), g)
<1> DEFINE n == Noted(fs, s)
<1>1. /\ Len(n) = Len(fs) /\ Len(fs) \in Nat
      /\ \A i \in 1..Len(fs) :
            /\ n[i].at = fs[i].at
            /\ fs[i].at = "keeper" => n[i].status = fs[i].status
            /\ n[i].kept = fs[i].kept \/ (n[i].kept = StatusAt(fs, i, s) /\ fs[i].at # "keeper")
  BY NotedFrames DEF Stacks
<1> HIDE DEF n
<1>2. SUFFICES ASSUME NEW i \in 1..Len(fs), Free(n, i - 1)
               PROVE  n[i].kept \in g \cup {None} /\ (n[i].at = "keeper" => n[i].status \in g)
  BY <1>1 DEF Decided, n
<1>3. Free(fs, i - 1)
  <2> SUFFICES ASSUME NEW j \in 1..(i - 1) PROVE fs[j].at # "keeper"
    BY DEF Free
  <2>1. j \in 1..Len(fs)
    BY <1>1
  <2> QED BY <1>1, <1>2, <2>1 DEF Free
<1>4. fs[i].kept \in g \cup {None} /\ (fs[i].at = "keeper" => fs[i].status \in g)
  BY <1>3 DEF Decided
<1>5. CASE n[i].kept = fs[i].kept
  BY <1>1, <1>4, <1>5
<1>6. CASE n[i].kept = StatusAt(fs, i, s) /\ fs[i].at # "keeper"
  <2>1. Free(fs, i)
    <3> SUFFICES ASSUME NEW j \in 1..i PROVE fs[j].at # "keeper"
      BY DEF Free
    <3>1. j = i \/ j \in 1..(i - 1)
      BY <1>1
    <3> QED BY <1>3, <1>6, <3>1 DEF Free
  <2>2. i \in 0..Len(fs)
    BY <1>1
  <2>3. StatusAt(fs, i, s) \in g
    BY <2>1, <2>2, OutermostDecides
  <2> QED BY <1>1, <1>6, <2>3
<1> QED BY <1>1, <1>5, <1>6

LEMMA ToldDecided ==
    ASSUME told \in Seq(Codes), NEW fs \in Stacks, NEW g, NEW s \in Codes, Decided(fs, g),
           Free(fs, Len(fs)) => s \in g, \A i \in DOMAIN told : told[i] \in g
    PROVE  \A i \in DOMAIN Told(fs, s) : Told(fs, s)[i] \in g
<1>1. 0 \in 0..Len(fs) /\ Free(fs, 0)
  BY DEF Stacks, Free
<1>2. StatusAt(fs, 0, s) \in g /\ StatusAt(fs, 0, s) \in Codes
  BY <1>1, OutermostDecides, StatusIsCode
<1>3. CASE Told(fs, s) = told
  BY <1>3
<1>4. CASE Told(fs, s) = Append(told, StatusAt(fs, 0, s))
  <2>1. \A i \in DOMAIN Append(told, StatusAt(fs, 0, s)) :
           \/ i \in DOMAIN told /\ Append(told, StatusAt(fs, 0, s))[i] = told[i]
           \/ Append(told, StatusAt(fs, 0, s))[i] = StatusAt(fs, 0, s)
    BY <1>2
  <2> QED BY <1>2, <1>4, <2>1
<1> QED BY <1>3, <1>4 DEF Told

LEMMA DecidedMore ==
    ASSUME NEW fs, NEW g, NEW h, g \subseteq h, Decided(fs, g)
    PROVE  Decided(fs, h)
BY DEF Decided

LEMMA PopDecided ==
    ASSUME FramesTyped, frames # <<>>, NEW g, Decided(frames, g)
    PROVE  /\ Decided(Pop, g)
           /\ Free(Pop, Len(Pop)) => Top.kept \in g \cup {None}
           /\ Free(Pop, Len(Pop)) /\ Top.at # "keeper" => Free(frames, Len(frames))
<1>1. /\ Len(frames) \in Nat \ {0} /\ Len(Pop) = Len(frames) - 1 /\ Top = frames[Len(frames)]
      /\ \A i \in 1..Len(Pop) : Pop[i] = frames[i]
  BY PopTyped
<1>2. \A i \in 1..Len(frames) : i = Len(frames) \/ i \in 1..Len(Pop)
  BY <1>1
<1>3. \A i \in 0..Len(Pop) : Free(Pop, i) <=> Free(frames, i)
  BY <1>1 DEF Free
<1>4. Decided(Pop, g)
  <2> SUFFICES ASSUME NEW i \in 1..Len(Pop), Free(Pop, i - 1)
               PROVE  Pop[i].kept \in g \cup {None} /\ (Pop[i].at = "keeper" => Pop[i].status \in g)
    BY DEF Decided
  <2>1. i \in 1..Len(frames) /\ i - 1 \in 0..Len(Pop) /\ Pop[i] = frames[i]
    BY <1>1
  <2>2. Free(frames, i - 1)
    BY <1>3, <2>1
  <2> QED BY <2>1, <2>2 DEF Decided
<1>5. ASSUME Free(Pop, Len(Pop)) PROVE Free(frames, Len(frames) - 1)
  BY <1>1, <1>3, <1>5
<1>6. Free(Pop, Len(Pop)) => Top.kept \in g \cup {None}
  <2>1. Len(frames) \in 1..Len(frames)
    BY <1>1
  <2> QED BY <1>1, <1>5, <2>1 DEF Decided
<1>7. Free(Pop, Len(Pop)) /\ Top.at # "keeper" => Free(frames, Len(frames))
  BY <1>1, <1>2 DEF Free
<1> QED BY <1>4, <1>6, <1>7

LEMMA PushDecided ==
    ASSUME NEW fs \in Stacks, NEW g, NEW f \in Wrappers \cup Keepers, Decided(fs, g), f.kept = None,
           f.at = "keeper" /\ Free(fs, Len(fs)) => f.status \in g
    PROVE  Decided(Append(fs, f), g)
<1> DEFINE n == Append(fs, f)
<1>1. /\ Len(fs) \in Nat /\ Len(n) = Len(fs) + 1 /\ n[Len(fs) + 1] = f
      /\ \A i \in 1..Len(fs) : n[i] = fs[i]
  BY Pushed DEF Stacks
<1> HIDE DEF n
<1>2. SUFFICES ASSUME NEW i \in 1..Len(n), Free(n, i - 1)
               PROVE  n[i].kept \in g \cup {None} /\ (n[i].at = "keeper" => n[i].status \in g)
  BY DEF Decided, n
<1>3. i - 1 \in 0..Len(fs)
  BY <1>1
<1>4. Free(fs, i - 1)
  <2>1. \A j \in 1..(i - 1) : j \in 1..Len(fs)
    BY <1>1, <1>3
  <2> QED BY <1>1, <1>2, <2>1 DEF Free
<1>5. CASE i = Len(fs) + 1
  BY <1>1, <1>4, <1>5
<1>6. CASE i # Len(fs) + 1
  <2>1. i \in 1..Len(fs)
    BY <1>1, <1>6
  <2> QED BY <1>1, <1>4, <2>1 DEF Decided
<1> QED BY <1>5, <1>6

\* No keeper on top.
Uncovered(fs) == \A i \in 1..Len(fs) : fs[i].at = "keeper" => i < Len(fs)

LEMMA AboveSame ==
    ASSUME NEW fs \in Stacks, NEW gs \in Stacks, Len(gs) = Len(fs), NEW old, NEW ev,
           \A i \in 1..Len(fs) : gs[i].at = fs[i].at /\ gs[i].layer = fs[i].layer,
           RecursiveAbove(fs, old), KeeperCalls(ev) \/ Uncovered(fs)
    PROVE  RecursiveAbove(gs, ev)
<1>1. SUFFICES ASSUME NEW i \in 1..Len(fs)
               PROVE  /\ gs[i].at = "recursive" =>
                            gs[i].layer \in 1..Len(chain) /\ chain[gs[i].layer] = "recursive"
                      /\ gs[i].at = "keeper" => IF i < Len(fs) THEN gs[i + 1].at \in {"recursive", "keeper"}
                                                ELSE KeeperCalls(ev)
  BY DEF RecursiveAbove
<1>2. Len(fs) \in Nat /\ (i < Len(fs) => i + 1 \in 1..Len(fs))
  BY DEF Stacks
<1> QED BY <1>1, <1>2 DEF RecursiveAbove, Uncovered

LEMMA AbovePopped ==
    ASSUME FramesTyped, frames # <<>>, NEW old, NEW ev, RecursiveAbove(frames, old),
           KeeperCalls(ev) \/ Top.at \notin {"recursive", "keeper"}
    PROVE  RecursiveAbove(Pop, ev)
<1>1. /\ Len(frames) \in Nat \ {0} /\ Len(Pop) = Len(frames) - 1 /\ Top = frames[Len(frames)]
      /\ \A i \in 1..Len(Pop) : Pop[i] = frames[i]
  BY PopTyped
<1>2. SUFFICES ASSUME NEW i \in 1..Len(Pop)
               PROVE  /\ frames[i].at = "recursive" =>
                            frames[i].layer \in 1..Len(chain) /\ chain[frames[i].layer] = "recursive"
                      /\ frames[i].at = "keeper" =>
                            IF i < Len(Pop) THEN Pop[i + 1].at \in {"recursive", "keeper"}
                            ELSE KeeperCalls(ev)
  BY <1>1 DEF RecursiveAbove
<1>3. i \in 1..Len(frames) /\ i < Len(frames)
  BY <1>1
<1>4. i < Len(Pop) => Pop[i + 1] = frames[i + 1]
  BY <1>1
<1>5. ~(i < Len(Pop)) => frames[i + 1] = Top
  <2>1. ~(i < Len(Pop)) => i + 1 = Len(frames)
    BY <1>1
  <2> QED BY <1>1, <2>1
<1> QED BY <1>3, <1>4, <1>5 DEF RecursiveAbove

LEMMA AbovePushed ==
    ASSUME NEW fs \in Stacks, NEW f \in Wrappers \cup Keepers, NEW old, NEW ev, RecursiveAbove(fs, old),
           f.at = "recursive" => f.layer \in 1..Len(chain) /\ chain[f.layer] = "recursive",
           f.at = "keeper" => KeeperCalls(ev),
           f.at \in {"recursive", "keeper"} \/ Uncovered(fs)
    PROVE  RecursiveAbove(Append(fs, f), ev)
<1> DEFINE n == Append(fs, f)
<1>1. /\ Len(fs) \in Nat /\ Len(n) = Len(fs) + 1 /\ n[Len(fs) + 1] = f
      /\ \A i \in 1..Len(fs) : n[i] = fs[i]
  BY Pushed DEF Stacks
<1> HIDE DEF n
<1>2. SUFFICES ASSUME NEW i \in 1..Len(n)
               PROVE  /\ n[i].at = "recursive" =>
                            n[i].layer \in 1..Len(chain) /\ chain[n[i].layer] = "recursive"
                      /\ n[i].at = "keeper" =>
                            IF i < Len(n) THEN n[i + 1].at \in {"recursive", "keeper"} ELSE KeeperCalls(ev)
  BY DEF RecursiveAbove, n
<1>3. CASE i = Len(fs) + 1
  BY <1>1, <1>3
<1>4. CASE i < Len(fs)
  <2>1. i \in 1..Len(fs) /\ i + 1 \in 1..Len(fs) /\ n[i] = fs[i] /\ n[i + 1] = fs[i + 1] /\ i < Len(n)
    BY <1>1, <1>4
  <2> QED BY <1>4, <2>1 DEF RecursiveAbove
<1>5. CASE i = Len(fs)
  <2>1. i \in 1..Len(fs) /\ n[i] = fs[i] /\ n[i + 1] = f /\ i < Len(n)
    BY <1>1, <1>5
  <2> QED BY <1>5, <2>1 DEF RecursiveAbove, Uncovered
<1> QED BY <1>1, <1>3, <1>4, <1>5

\* An application is not called by a keeper.
LEMMA UncoveredUnless ==
    ASSUME RecursiveAbove(frames, event), ~KeeperCalls(event), frames \in Stacks
    PROVE  Uncovered(frames)
<1>1. Len(frames) \in Nat
  BY DEF Stacks
<1> QED BY <1>1 DEF RecursiveAbove, Uncovered

LEMMA StatusMade ==
    ASSUME chain' = chain, Decided(frames', given'), EventDecided(event', frames', given'),
           RecursiveAbove(frames', event'), \A i \in DOMAIN told' : told'[i] \in given'
    PROVE  StatusInv'
<1>1. RecursiveAbove(frames, event)'
  BY DEF RecursiveAbove, KeeperCalls
<1>2. Decided(frames, given)' /\ EventDecided(event, frames, given)'
  BY DEF Decided, EventDecided, Free
<1> QED BY <1>1, <1>2 DEF StatusInv, ErrorDocumentKeepsStatus

\* The events nobody has to decide about.
LEMMA Harmless ==
    ASSUME NEW fs, NEW g, NEW ev \in Calls \cup Raises \cup OwnForwarding \cup Forwards \cup {Return},
           ev \in Forwards => ev.status = None
    PROVE  EventDecided(ev, fs, g)
<1>1. CASE ev = Return
  <2>1. ev.do = "return" /\ ev.to = <<>> /\ ev.late = None
    BY <1>1, Made
  <2>2. Decided(<<>>, g)
    BY DEF Decided
  <2> QED BY <2>1, <2>2 DEF EventDecided
<1>2. CASE ev \in Calls \cup Raises \cup OwnForwarding \cup Forwards
  <2>1. ev.do # "return" /\ ("status" \in DOMAIN ev => ev \in Forwards)
    BY <1>2, Kinds DEF Calls, Raises, Forwards, OwnForwarding
  <2> QED BY <2>1 DEF EventDecided
<1> QED BY <1>1, <1>2

LEMMA StatusInit ==
    ASSUME Assumed, DispatchInit PROVE StatusInv
<1>1. Call(1, 1) \in Calls
  <2>1. 1 \in Nat \ {0} /\ 1 \in Environs
    BY DEF Assumed
  <2> QED BY <2>1, Made
<1>2. frames = <<>> /\ told = <<>> /\ event = Call(1, 1)
  BY DEF DispatchInit
<1>3. EventDecided(event, frames, given)
  <2>1. event \in Calls /\ event \notin Forwards
    BY <1>1, <1>2 DEF Calls, Forwards
  <2> QED BY <2>1, Harmless
<1> QED BY <1>2, <1>3 DEF StatusInv, Decided, RecursiveAbove, ErrorDocumentKeepsStatus

LEMMA StatusStep ==
    ASSUME Typed, StatusInv, [DispatchNext]_dispatchVars PROVE StatusInv'
<1>0. /\ FramesTyped /\ frames \in Stacks /\ told \in Seq(Codes) /\ Len(frames) \in Nat
      /\ event \in Calls \cup Returns \cup Raises \cup Forwards \cup OwnForwarding
      /\ Decided(frames, given) /\ EventDecided(event, frames, given) /\ RecursiveAbove(frames, event)
      /\ \A i \in DOMAIN told : told[i] \in given
  BY TypedParts DEF EventTyped, FramesTyped, Stacks, StatusInv, ErrorDocumentKeepsStatus
<1>a. event.do = "call" => event \in Calls /\ event.environ \in Environs /\ event.layer \in Nat \ {0}
  BY <1>0, Kinds DEF Calls
<1>b. ASSUME InApp PROVE Uncovered(frames)
  <2>1. ~KeeperCalls(event)
    BY <1>a, <1>b DEF InApp, KeeperCalls
  <2> QED BY <1>0, <2>1, UncoveredUnless
<1>c. /\ Return.do = "return"
      /\ \A what \in {"http", "error", "loop"} :
             Raise(what) \in Raises /\ Raise(what).do = "raise" /\ Raise(what).what = what
  BY Made
\* A step that leaves the frames and what has been said.
<1>d. ASSUME UNCHANGED <<chain, frames, told, given>>, EventDecided(event', frames, given),
             KeeperCalls(event') \/ Uncovered(frames)
      PROVE  StatusInv'
  <2>1. RecursiveAbove(frames, event')
    BY <1>0, <1>d, AboveSame
  <2> QED BY <1>0, <1>d, <2>1, StatusMade
\* A step that takes the top frame away.
<1>e. ASSUME frames # <<>>, frames' = Pop, UNCHANGED <<chain, told, given>>,
             EventDecided(event', Pop, given),
             KeeperCalls(event') \/ Top.at \notin {"recursive", "keeper"}
      PROVE  StatusInv'
  <2>1. Decided(Pop, given)
    BY <1>0, <1>e, PopDecided
  <2>2. RecursiveAbove(Pop, event')
    BY <1>0, <1>e, AbovePopped
  <2> QED BY <1>0, <1>e, <2>1, <2>2, StatusMade
\* A step that calls the next layer.
<1>f. ASSUME NEW kind \in Layers, Called(kind), frames' = Append(frames, Frame(kind)),
             event' \in Calls, UNCHANGED <<chain, told, given>>
      PROVE  StatusInv'
  <2>1. event \in Calls /\ event.environ \in Environs /\ event.layer \in Nat \ {0}
        /\ event.layer <= Len(chain) /\ chain[event.layer] = kind
    BY <1>a, <1>f DEF Called
  <2>2. /\ Frame(kind) \in Wrappers \cup Keepers /\ Frame(kind).kept = None /\ Frame(kind).at = kind
        /\ Frame(kind).layer = event.layer /\ kind # "keeper"
    BY <2>1 DEF Frame, Wrappers, Layers
  <2> DEFINE f == Frame(kind)
  <2> HIDE DEF f
  <2>3. Decided(Append(frames, f), given)
    BY <1>0, <2>2, PushDecided DEF f
  <2>4. event.layer \in 1..Len(chain)
    BY <2>1, TypedParts
  <2>5. kind = "recursive" \/ Uncovered(frames)
    <3>1. kind # "recursive" => ~KeeperCalls(event)
      BY <1>f, <2>1 DEF KeeperCalls, Called
    <3> QED BY <1>0, <3>1, UncoveredUnless
  <2>6. RecursiveAbove(Append(frames, f), event')
    BY <1>0, <2>1, <2>2, <2>4, <2>5, AbovePushed DEF f
  <2>7. EventDecided(event', frames', given)
    <3>1. event' \notin Forwards
      BY <1>f DEF Calls, Forwards
    <3> QED BY <1>f, <3>1, Harmless
  <2> QED BY <1>0, <1>f, <2>3, <2>6, <2>7, StatusMade DEF f
\* A step of an application that neither answers nor makes a status known.
<1>g. ASSUME InApp, UNCHANGED <<chain, frames, told, given>>,
             event' \in Calls \cup Raises \cup OwnForwarding \cup Forwards \cup {Return},
             event' \in Forwards => event'.status = None
      PROVE  StatusInv'
  <2>1. EventDecided(event', frames, given)
    BY <1>g, Harmless
  <2> QED BY <1>b, <1>d, <1>g, <2>1
<1> HIDE DEF Calls, Returns, Raises, Forwards, OwnForwarding, Stacks
<1>1. ASSUME NEW kind \in {"recursive", "forward"}, CallWrapper(kind) PROVE StatusInv'
  <2>1. event \in Calls /\ event.environ \in Environs /\ event.layer + 1 \in Nat \ {0}
    BY <1>1, <1>a DEF CallWrapper, Called
  <2>2. Called(kind) /\ frames' = Append(frames, Frame(kind)) /\ UNCHANGED <<chain, told, given>>
        /\ event' = Call(event.layer + 1, event.environ)
    BY <1>1 DEF CallWrapper, requestVars
  <2>3. event' \in Calls
    BY <2>1, <2>2, Made
  <2> QED BY <1>f, <2>2, <2>3 DEF Layers
<1>2. CASE CallCascade
  <2>1. Called("cascade") /\ UNCHANGED <<chain, told, given>> /\ event.do = "call"
    BY <1>2 DEF CallCascade, Called, requestVars
  <2>2. CASE event' = Raise("error") /\ frames' = frames
    <3>1. event' \in Raises /\ KeeperCalls(event')
      BY <1>c, <2>2 DEF KeeperCalls
    <3>2. event' \notin Forwards
      BY <3>1 DEF Raises, Forwards
    <3>3. EventDecided(event', frames, given)
      BY <3>1, <3>2, Harmless
    <3> QED BY <1>d, <2>1, <2>2, <3>1, <3>3
  <2>3. CASE \E copy \in Fresh : /\ frames' = Append(frames, Frame("cascade"))
                                /\ event' = Call(event.layer + 1, copy)
    <3>1. PICK copy \in Environs : /\ frames' = Append(frames, Frame("cascade"))
                                   /\ event' = Call(event.layer + 1, copy)
      BY <2>3 DEF Fresh, Unused
    <3>2. event.layer + 1 \in Nat \ {0}
      BY <1>a, <2>1
    <3>3. event' \in Calls
      BY <3>1, <3>2, Made
    <3> QED BY <1>f, <2>1, <3>1, <3>3 DEF Layers
  <2>4. \/ event' = Raise("error") /\ frames' = frames
        \/ \E copy \in Fresh : /\ frames' = Append(frames, Frame("cascade"))
                               /\ event' = Call(event.layer + 1, copy)
    BY <1>2 DEF CallCascade
  <2> QED BY <2>2, <2>3, <2>4
<1>3. CASE ReadBody
  <2>1. InApp /\ UNCHANGED <<chain, frames, told, given>> /\ event' = [event EXCEPT !.read = TRUE]
    BY <1>3 DEF ReadBody, requestVars
  <2>2. event' \in Calls
    BY <1>a, <2>1 DEF InApp, Calls
  <2>3. event' \notin Forwards
    BY <2>2 DEF Calls, Forwards
  <2> QED BY <1>g, <2>1, <2>2, <2>3
<1>4. ASSUME NEW s \in Status, StartResponse(s) PROVE StatusInv'
  <2>1. /\ InApp /\ chain' = chain /\ frames' = Noted(frames, s) /\ given' = Given(s) /\ s \in Codes
        /\ told' = IF Refused(frames, s, FALSE) THEN told ELSE Told(frames, s)
        /\ event' = IF Refused(frames, s, FALSE) THEN Raise("error") ELSE [event EXCEPT !.started = TRUE]
    BY <1>4 DEF StartResponse, requestVars, Codes
  <2>2. given \subseteq given' /\ (Free(frames, Len(frames)) => s \in given')
    <3>1. Free(frames, Len(frames)) => ~ForErrorDocument
      BY <1>0 DEF Free, ForErrorDocument, Stacks
    <3> QED BY <2>1, <3>1 DEF Given
  <2>3. Decided(frames, given') /\ \A i \in DOMAIN told : told[i] \in given'
    BY <1>0, <2>2, DecidedMore
  <2>4. Decided(frames', given')
    BY <1>0, <2>1, <2>2, <2>3, NotedDecided
  <2>5. \A i \in DOMAIN told' : told'[i] \in given'
    <3>1. \A i \in DOMAIN Told(frames, s) : Told(frames, s)[i] \in given'
      BY <1>0, <2>1, <2>2, <2>3, ToldDecided
    <3> QED BY <2>1, <2>3, <3>1
  <2>6. event' \in Calls \cup Raises
    BY <1>a, <1>c, <2>1 DEF InApp, Calls
  <2>7. EventDecided(event', frames', given')
    <3>1. event' \notin Forwards
      BY <2>6 DEF Calls, Raises, Forwards
    <3> QED BY <2>6, <3>1, Harmless
  <2>8. RecursiveAbove(frames', event')
    <3>1. /\ frames' \in Stacks /\ Len(frames') = Len(frames)
          /\ \A i \in 1..Len(frames) : frames'[i].at = frames[i].at /\ frames'[i].layer = frames[i].layer
      BY <1>0, <2>1, NotedFrames
    <3> QED BY <1>0, <1>b, <2>1, <3>1, AboveSame
  <2> QED BY <2>1, <2>4, <2>5, <2>7, <2>8, StatusMade
<1>5. CASE AppReturns
  <2>1. event' \notin Forwards
    BY <1>5, <1>c DEF AppReturns, Forwards
  <2> QED BY <1>5, <1>g, <2>1 DEF AppReturns, requestVars
<1>6. ASSUME NEW s \in Status, AppReturnsLazily(s) PROVE StatusInv'
  <2>1. /\ InApp /\ UNCHANGED <<chain, frames, told>> /\ given' = Given(s)
        /\ event' = [Return EXCEPT !.late = s, !.to = frames]
    BY <1>6 DEF AppReturnsLazily, requestVars
  <2>2. given \subseteq given' /\ (Free(frames, Len(frames)) => s \in given')
    <3>1. Free(frames, Len(frames)) => ~ForErrorDocument
      BY <1>0 DEF Free, ForErrorDocument, Stacks
    <3> QED BY <2>1, <3>1 DEF Given
  <2>3. Decided(frames, given') /\ \A i \in DOMAIN told : told[i] \in given'
    BY <1>0, <2>2, DecidedMore
  <2>4. event'.do = "return" /\ event'.late = s /\ event'.to = frames
    BY <2>1 DEF Return
  <2>5. EventDecided(event', frames, given')
    BY <2>2, <2>3, <2>4 DEF EventDecided
  <2>6. RecursiveAbove(frames, event')
    BY <1>0, <1>b, <2>1, AboveSame
  <2> QED BY <2>1, <2>3, <2>5, <2>6, StatusMade
<1>7. ASSUME NEW what \in {"http", "error"}, AppRaises(what) PROVE StatusInv'
  <2>1. InApp /\ UNCHANGED <<chain, frames, told, given>> /\ event' \in Raises
    BY <1>7, <1>c DEF AppRaises, requestVars
  <2>2. event' \notin Forwards
    BY <2>1 DEF Raises, Forwards
  <2> QED BY <1>g, <2>1, <2>2
<1>8. ASSUME NEW p \in Path, AppForwards(p) PROVE StatusInv'
  <2>1. InApp /\ UNCHANGED <<chain, frames, told, given>> /\ event' = Forward(p, None)
    BY <1>8 DEF AppForwards, requestVars
  <2>2. event' \in Forwards /\ event'.status = None
    BY <2>1, Made DEF Paths
  <2> QED BY <1>g, <2>1, <2>2
<1>9. ASSUME NEW p \in Path, AppForwardsEnviron(p) PROVE StatusInv'
  <2>1. InApp /\ UNCHANGED <<chain, frames, told, given>>
        /\ \E copy \in Environs : event' = [do |-> "raise", what |-> "forward", environ |-> copy]
    BY <1>9 DEF AppForwardsEnviron, requestVars, Fresh, Unused
  <2>2. event' \in OwnForwarding
    BY <2>1 DEF OwnForwarding
  <2>3. event' \notin Forwards
    BY <2>2 DEF OwnForwarding, Forwards
  <2> QED BY <1>g, <2>1, <2>2, <2>3
<1>10. CASE Pass
  <2>1. frames # <<>> /\ frames' = Pop /\ UNCHANGED <<chain, event, told, given>>
    BY <1>10 DEF Pass, Returned, Raised, requestVars
  <2>2. \/ event.do = "return" \/ Top.at \notin {"recursive", "keeper"}
        \/ (event.do = "raise" /\ (Top.at = "keeper" \/ event.what # "forward"))
    BY <1>10 DEF Pass, Returned, Raised
  <2>3. event.do = "raise" /\ Top.at = "keeper" => event.what # "forward"
    <3>1. Len(frames) \in 1..Len(frames) /\ Top = frames[Len(frames)]
      BY <1>0, <2>1, PopTyped
    <3> QED BY <1>0, <3>1 DEF RecursiveAbove, KeeperCalls
  <2>4. KeeperCalls(event) \/ Top.at \notin {"recursive", "keeper"}
    BY <2>2, <2>3 DEF KeeperCalls
  <2>5. EventDecided(event, Pop, given)
    <3>1. CASE event.do = "raise" /\ "status" \in DOMAIN event
      <4>1. event.what = "forward"
        <5>1. event \in Forwards
          BY <1>0, <3>1, Kinds
        <5> QED BY <5>1 DEF Forwards
      <4>2. Free(Pop, Len(Pop)) => Free(frames, Len(frames))
        BY <1>0, <2>1, <2>3, <3>1, <4>1, PopDecided
      <4> QED BY <1>0, <3>1, <4>2 DEF EventDecided
    <3>2. CASE ~(event.do = "raise" /\ "status" \in DOMAIN event)
      BY <1>0, <3>2 DEF EventDecided
    <3> QED BY <3>1, <3>2
  <2> QED BY <1>e, <2>1, <2>4, <2>5
<1>11. CASE RaiseForward
  <2>1. /\ frames # <<>> /\ frames' = Pop /\ UNCHANGED <<chain, told, given>> /\ Top.at = "forward"
        /\ event' = Forward(ErrorPath[Top.kept], Top.kept) /\ Top.kept # None
    BY <1>11 DEF RaiseForward, Returned, requestVars
  <2>2. event'.status = Top.kept /\ event'.do = "raise"
    BY <2>1 DEF Forward
  <2>3. EventDecided(event', Pop, given)
    BY <1>0, <2>1, <2>2, PopDecided DEF EventDecided
  <2> QED BY <1>e, <2>1, <2>3
<1>12. CASE ForwardRequest
  <2> DEFINE keeper == [at |-> "keeper", layer |-> Top.layer, environ |-> Top.environ, kept |-> None,
                        status |-> event.status]
  <2>1. /\ frames # <<>> /\ Top.at = "recursive" /\ event.do = "raise" /\ event.what = "forward"
        /\ UNCHANGED <<chain, told, given>>
        /\ IF "environ" \in DOMAIN event
           THEN event' = Call(Top.layer, event.environ) /\ frames' = Pop
           ELSE /\ event' = Call(Top.layer, Top.environ)
                /\ frames' = IF event.status = None THEN Pop ELSE Append(Pop, keeper)
    BY <1>12 DEF ForwardRequest, Raised, requestVars
  <2>2. /\ Top.environ \in Environs /\ Top.layer \in Nat \ {0} /\ Pop \in Stacks
        /\ Len(frames) \in 1..Len(frames) /\ Top = frames[Len(frames)]
    BY <1>0, <2>1, PopTyped
  <2>3. Top.layer \in 1..Len(chain) /\ chain[Top.layer] = "recursive"
    BY <1>0, <2>1, <2>2 DEF RecursiveAbove
  <2>4. event' \in Calls /\ event'.do = "call" /\ event'.layer = Top.layer
    <3>1. Carried(event) => event.environ \in Environs
      BY <1>0, Kinds
    <3> QED BY <2>1, <2>2, <3>1, Made DEF Carried
  <2>5. KeeperCalls(event')
    BY <2>3, <2>4 DEF KeeperCalls
  <2>6. EventDecided(event', frames', given)
    <3>1. event' \notin Forwards
      BY <2>4 DEF Calls, Forwards
    <3> QED BY <2>4, <3>1, Harmless
  <2>7. CASE frames' = Pop
    BY <1>e, <2>1, <2>5, <2>6, <2>7
  <2>8. CASE ~Carried(event) /\ event.status # None /\ frames' = Append(Pop, keeper)
    <3>1. event \in Forwards
      BY <1>0, <2>1, <2>8, Kinds
    <3>2. event.status \in Codes /\ "status" \in DOMAIN event
      BY <2>8, <3>1 DEF Forwards
    <3>3. Free(Pop, Len(Pop)) => event.status \in given
      <4>1. Free(Pop, Len(Pop)) => Free(frames, Len(frames))
        BY <1>0, <2>1, PopDecided
      <4> QED BY <1>0, <2>1, <2>8, <3>2, <4>1 DEF EventDecided
    <3>4. keeper \in Wrappers \cup Keepers /\ keeper.at = "keeper" /\ keeper.kept = None
          /\ keeper.status = event.status
      BY <2>2, <3>2 DEF Keepers
    <3> HIDE DEF keeper
    <3>5. Decided(Pop, given) /\ RecursiveAbove(Pop, event')
      BY <1>0, <2>1, <2>5, PopDecided, AbovePopped
    <3>6. Decided(Append(Pop, keeper), given)
      BY <2>2, <3>3, <3>4, <3>5, PushDecided
    <3>7. RecursiveAbove(Append(Pop, keeper), event')
      BY <2>2, <2>5, <3>4, <3>5, AbovePushed
    <3> QED BY <1>0, <2>1, <2>6, <2>8, <3>6, <3>7, StatusMade
  <2>9. frames' = Pop \/ (~Carried(event) /\ event.status # None /\ frames' = Append(Pop, keeper))
    BY <2>1 DEF Carried
  <2> QED BY <2>7, <2>8, <2>9
<1>13. CASE ForwardingLoop
  <2>1. /\ frames # <<>> /\ frames' = Pop /\ UNCHANGED <<chain, told, given>> /\ event' = Raise("loop")
    BY <1>13 DEF ForwardingLoop, Raised, requestVars
  <2>2. KeeperCalls(event') /\ event' \in Raises
    BY <1>c, <2>1 DEF KeeperCalls
  <2>3. event' \notin Forwards
    BY <2>2 DEF Raises, Forwards
  <2>4. EventDecided(event', Pop, given)
    BY <2>2, <2>3, Harmless
  <2> QED BY <1>e, <2>1, <2>2, <2>4
<1>14. CASE ErrorPageNotFetched
  <2> DEFINE n == Noted(frames, 500)
  <2>1. /\ frames # <<>> /\ Top.at = "keeper" /\ UNCHANGED <<chain, given>>
        /\ event' = Return /\ told' = Told(frames, 500)
        /\ frames' = SubSeq(n, 1, Len(frames) - 1)
    BY <1>14 DEF ErrorPageNotFetched, Raised, requestVars
  <2>2. 500 \in Codes /\ ~Free(frames, Len(frames))
    <3>1. Len(frames) \in 1..Len(frames) /\ Top = frames[Len(frames)]
      BY <1>0, <2>1, PopTyped
    <3> QED BY <2>1, <3>1 DEF Free, Codes
  <2>3. Decided(n, given)
    BY <1>0, <2>2, NotedDecided
  <2>4. \A i \in DOMAIN told' : told'[i] \in given
    <3>1. Free(frames, Len(frames)) => 500 \in given
      BY <2>2
    <3>2. ASSUME NEW s \in Codes, s = 500
          PROVE  \A i \in DOMAIN Told(frames, s) : Told(frames, s)[i] \in given
      <4>1. Free(frames, Len(frames)) => s \in given
        BY <3>1, <3>2
      <4> QED BY <1>0, <4>1, ToldDecided
    <3> QED BY <2>1, <2>2, <3>2
  <2>5. n \in Stacks /\ Len(n) = Len(frames) /\ Len(frames) \in Nat \ {0}
        /\ \A i \in 1..Len(frames) : n[i].at = frames[i].at /\ n[i].layer = frames[i].layer
    <3>1. n \in Stacks /\ Len(n) = Len(frames)
          /\ \A i \in 1..Len(frames) : n[i].at = frames[i].at /\ n[i].layer = frames[i].layer
      BY <1>0, <2>2, NotedFrames
    <3>2. Len(frames) \in Nat \ {0}
      BY <1>0, <2>1, PopTyped
    <3> QED BY <3>1, <3>2
  <2> HIDE DEF n
  <2>6. KeeperCalls(event')
    BY <1>c, <2>1 DEF KeeperCalls
  <2>7. RecursiveAbove(n, event')
    BY <1>0, <2>5, <2>6, AboveSame
  <2>8. n # <<>>
    BY <2>5
  <2>9. /\ frames' \in Stacks /\ Len(frames') = Len(n) - 1
        /\ \A i \in 1..Len(frames') : frames'[i] = n[i]
    BY <2>1, <2>5, <2>8, Popped
  <2>10. Decided(frames', given)
    <3> SUFFICES ASSUME NEW i \in 1..Len(frames'), Free(frames', i - 1)
                 PROVE  /\ frames'[i].kept \in given \cup {None}
                        /\ frames'[i].at = "keeper" => frames'[i].status \in given
      BY DEF Decided
    <3>1. i \in 1..Len(n) /\ \A j \in 1..(i - 1) : j \in 1..Len(frames')
      BY <2>5, <2>9
    <3>2. Free(n, i - 1)
      BY <2>9, <3>1 DEF Free
    <3> QED BY <2>3, <2>9, <3>1, <3>2 DEF Decided
  <2>11. RecursiveAbove(frames', event')
    <3> SUFFICES ASSUME NEW i \in 1..Len(frames')
                 PROVE  /\ frames'[i].at = "recursive" =>
                             frames'[i].layer \in 1..Len(chain) /\ chain[frames'[i].layer] = "recursive"
                        /\ frames'[i].at = "keeper" =>
                             IF i < Len(frames') THEN frames'[i + 1].at \in {"recursive", "keeper"}
                             ELSE KeeperCalls(event')
      BY DEF RecursiveAbove
    <3>1. i \in 1..Len(n) /\ frames'[i] = n[i] /\ i < Len(n)
          /\ (i < Len(frames') => frames'[i + 1] = n[i + 1])
      BY <2>5, <2>9
    <3> QED BY <2>6, <2>7, <3>1 DEF RecursiveAbove
  <2>12. EventDecided(event', frames', given)
    <3>1. event' \notin Forwards
      BY <1>c, <2>1 DEF Forwards
    <3> QED BY <2>1, <3>1, Harmless
  <2> QED BY <2>1, <2>4, <2>10, <2>11, <2>12, StatusMade
<1>15. CASE NextApplication
  <2>1. /\ frames # <<>> /\ frames' = Pop /\ UNCHANGED <<chain, told, given>> /\ Top.at = "cascade"
        /\ event' = Call(Len(chain) + 1, Top.environ)
    BY <1>15 DEF NextApplication, LastApplication, Returned, Raised, requestVars
  <2>2. event' \in Calls
    <3>1. Top.environ \in Environs /\ Len(chain) + 1 \in Nat \ {0}
      BY <1>0, <2>1, PopTyped, TypedParts
    <3> QED BY <2>1, <3>1, Made
  <2>3. event' \notin Forwards
    BY <2>2 DEF Calls, Forwards
  <2>4. EventDecided(event', Pop, given)
    BY <2>2, <2>3, Harmless
  <2> QED BY <1>e, <2>1, <2>4
<1>16. CASE ExhaustingFails
  <2>1. /\ frames # <<>> /\ frames' = Pop /\ UNCHANGED <<chain, told, given>> /\ Top.at = "cascade"
        /\ event' \in Raises
    BY <1>16, <1>c DEF ExhaustingFails, Returned, requestVars
  <2>2. event' \notin Forwards
    BY <2>1 DEF Raises, Forwards
  <2>3. EventDecided(event', Pop, given)
    BY <2>1, <2>2, Harmless
  <2> QED BY <1>e, <2>1, <2>3
<1>17. CASE Served
  <2>1. /\ UNCHANGED <<chain, frames, event, given>> /\ event.do = "return"
        /\ told' = told \/ told' = << >> \/ (event.late # None /\ told' = Told(event.to, event.late))
    BY <1>17 DEF Served, requestVars
  <2>2. event \in Returns
    BY <1>0, <2>1, Kinds
  <2>3. \A i \in DOMAIN told' : told'[i] \in given
    <3>1. CASE told' = told \/ told' = << >>
      BY <1>0, <3>1
    <3>2. CASE event.late # None /\ told' = Told(event.to, event.late)
      <4>1. event.to \in Stacks /\ event.late \in Codes
        BY <2>2, <3>2 DEF Returns
      <4>2. /\ Decided(event.to, given)
            /\ Free(event.to, Len(event.to)) => event.late \in given
        BY <1>0, <2>1, <3>2 DEF EventDecided
      <4> QED BY <1>0, <3>2, <4>1, <4>2, ToldDecided
    <3> QED BY <2>1, <3>1, <3>2
  <2> QED BY <1>0, <2>1, <2>3, StatusMade
<1>18. CASE Failed \/ UNCHANGED dispatchVars
  <2>1. UNCHANGED <<chain, frames, event, told, given>>
    BY <1>18 DEF Failed, dispatchVars, requestVars
  <2> QED BY <1>0, <2>1, StatusMade
<1> QED
  BY <1>1, <1>2, <1>3, <1>4, <1>5, <1>6, <1>7, <1>8, <1>9, <1>10, <1>11, <1>12, <1>13,
     <1>14, <1>15, <1>16, <1>17, <1>18 DEF DispatchNext, CallRecursive, CallForward

\* Whatever becomes of the forwarded requests, in whichever order the middlewares are,
\* the client is told a status of an application that was not serving an error document
\* (errordocument.py 63-86).
THEOREM StatusKept ==
    ASSUME Assumed PROVE DispatchSpec => []ErrorDocumentKeepsStatus
<1>1. DispatchInit => Typed /\ StatusInv
  BY InitTyped, StatusInit
<1>2. Typed /\ StatusInv /\ [DispatchNext]_dispatchVars => (Typed /\ StatusInv)'
  BY StepTyped, StatusStep
<1>3. StatusInv => ErrorDocumentKeepsStatus
  BY DEF StatusInv
<1> QED BY <1>1, <1>2, <1>3, PTL DEF DispatchSpec

-----------------------------------------------------------------------------
(* Who has read the body.                                                    *)

LEMMA LineIs ==
    ASSUME NEW fs \in Stacks,
           NEW ev \in Calls \cup Returns \cup Raises \cup Forwards \cup OwnForwarding
    PROVE  /\ Line(fs, ev) \in Seq(Environs) /\ Len(fs) \in Nat
           /\ Len(Line(fs, ev)) = IF Carried(ev) THEN Len(fs) + 1 ELSE Len(fs)
           /\ \A i \in 1..Len(fs) : Line(fs, ev)[i] = fs[i].environ
           /\ Carried(ev) => Line(fs, ev)[Len(fs) + 1] = ev.environ /\ ev.environ \in Environs
<1>1. Len(fs) \in Nat /\ \A i \in 1..Len(fs) : fs[i].environ \in Environs
  BY Frame0 DEF Stacks
<1>2. Envs(fs) \in [1..Len(fs) -> Environs] /\ \A i \in 1..Len(fs) : Envs(fs)[i] = fs[i].environ
  BY <1>1 DEF Envs
<1> DEFINE q == Envs(fs)
           n == Len(fs)
<1>3. q \in Seq(Environs) /\ Len(q) = n
  <2> HIDE DEF q, n
  <2>1. n \in Nat /\ q \in [1..n -> Environs]
    BY <1>1, <1>2 DEF q, n
  <2> QED BY <2>1
<1>4. Carried(ev) => ev.environ \in Environs
  BY Kinds
<1>5. CASE Carried(ev)
  BY <1>1, <1>2, <1>3, <1>4, <1>5 DEF Line
<1>6. CASE ~Carried(ev)
  BY <1>1, <1>2, <1>3, <1>6 DEF Line
<1> QED BY <1>5, <1>6

\* Fewer calls.
LEMMA OrderlyFront ==
    ASSUME NEW line \in Seq(Environs), NEW short \in Seq(Environs), NEW dicts, Orderly(line, dicts),
           Len(short) <= Len(line), \A i \in 1..Len(short) : short[i] = line[i]
    PROVE  Orderly(short, dicts)
<1>1. \A i \in 1..Len(short) : i \in 1..Len(line) /\ \A k \in 1..i : k \in 1..Len(short)
  OBVIOUS
<1>2. Nested(short)
  BY <1>1 DEF Orderly, Nested
<1>3. ForwardedOn(short, dicts)
  BY <1>1 DEF Orderly, ForwardedOn
<1>4. InputsBelow(short, dicts)
  BY <1>1 DEF Orderly, InputsBelow
<1> QED BY <1>2, <1>3, <1>4 DEF Orderly

\* Another call with the same environ.
LEMMA OrderlyAgain ==
    ASSUME NEW line \in Seq(Environs), NEW long \in Seq(Environs), NEW dicts, Orderly(line, dicts),
           Len(line) > 0, Len(long) = Len(line) + 1, \A i \in 1..Len(line) : long[i] = line[i],
           long[Len(long)] = line[Len(line)]
    PROVE  Orderly(long, dicts)
<1> DEFINE n == Len(line)
<1>0. n \in Nat \ {0} /\ Len(long) = n + 1 /\ long[n + 1] = line[n] /\ n \in 1..n
      /\ \A i \in 1..n : long[i] = line[i]
  OBVIOUS
<1>a. \A i \in 1..Len(long) : i = n + 1 \/ (i \in 1..n /\ i < n + 1)
  BY <1>0
<1> HIDE DEF n
<1>1. Nested(long)
  <2> SUFFICES ASSUME NEW i \in 1..Len(long), NEW j \in 1..Len(long), NEW k \in 1..Len(long),
                      i < j, j < k, long[i] = long[k]
               PROVE  long[j] = long[i]
    BY DEF Nested
  <2>1. i \in 1..n /\ j \in 1..n /\ long[i] = line[i] /\ long[j] = line[j]
    BY <1>0, <1>a
  <2>2. CASE k = n + 1
    <3>1. line[i] = line[n]
      BY <1>0, <2>1, <2>2
    <3>2. j = n \/ j < n
      BY <1>0, <2>1
    <3> QED BY <1>0, <2>1, <3>1, <3>2 DEF Orderly, Nested, n
  <2>3. CASE k \in 1..n
    BY <1>0, <2>1, <2>3 DEF Orderly, Nested, n
  <2> QED BY <1>a, <2>2, <2>3
<1>2. ForwardedOn(long, dicts)
  <2> SUFFICES ASSUME NEW i \in 1..Len(long), NEW j \in 1..Len(long), i < j, OnForward(dicts, long[i])
               PROVE  OnForward(dicts, long[j])
    BY DEF ForwardedOn
  <2>1. i \in 1..n /\ long[i] = line[i]
    BY <1>0, <1>a
  <2>2. CASE j = n + 1
    <3>1. i = n \/ i < n
      BY <1>0, <2>1
    <3> QED BY <1>0, <2>1, <2>2, <3>1 DEF Orderly, ForwardedOn, n
  <2>3. CASE j \in 1..n
    BY <1>0, <2>1, <2>3 DEF Orderly, ForwardedOn, n
  <2> QED BY <1>a, <2>2, <2>3
<1>3. InputsBelow(long, dicts)
  <2> SUFFICES ASSUME NEW i \in 1..Len(long), ~OnForward(dicts, long[i])
               PROVE  \E k \in 1..i : long[k] = dicts[long[i]].input
    BY DEF InputsBelow
  <2>1. PICK m \in 1..n : m <= i /\ long[i] = line[m]
    BY <1>0, <1>a
  <2>2. PICK k \in 1..m : line[k] = dicts[line[m]].input
    BY <2>1 DEF Orderly, InputsBelow, n
  <2>3. k \in 1..i /\ k \in 1..n
    BY <1>0, <2>1, <2>2
  <2> QED BY <1>0, <2>1, <2>2, <2>3
<1> QED BY <1>1, <1>2, <1>3 DEF Orderly

\* A call with an environ that no call had.
LEMMA OrderlyNew ==
    ASSUME NEW line \in Seq(Environs), NEW long \in Seq(Environs), NEW dicts, Orderly(line, dicts),
           Len(long) = Len(line) + 1, \A i \in 1..Len(line) : long[i] = line[i],
           \A i \in 1..Len(line) : line[i] # long[Len(long)],
           \/ OnForward(dicts, long[Len(long)])
           \/ /\ \A i \in 1..Len(line) : ~OnForward(dicts, line[i])
              /\ \E k \in 1..Len(long) : long[k] = dicts[long[Len(long)]].input
    PROVE  Orderly(long, dicts)
<1> DEFINE n == Len(line)
<1>0. n \in Nat /\ Len(long) = n + 1 /\ \A i \in 1..n : long[i] = line[i] /\ line[i] # long[n + 1]
  OBVIOUS
<1>a. \A i \in 1..Len(long) : i = n + 1 \/ (i \in 1..n /\ i < n + 1)
  BY <1>0
<1>b. \/ OnForward(dicts, long[n + 1])
      \/ /\ \A i \in 1..n : ~OnForward(dicts, line[i])
         /\ \E k \in 1..(n + 1) : long[k] = dicts[long[n + 1]].input
  BY <1>0
<1> HIDE DEF n
<1>1. Nested(long)
  <2> SUFFICES ASSUME NEW i \in 1..Len(long), NEW j \in 1..Len(long), NEW k \in 1..Len(long),
                      i < j, j < k, long[i] = long[k]
               PROVE  long[j] = long[i]
    BY DEF Nested
  <2>1. i \in 1..n /\ j \in 1..n /\ k \in 1..n
    BY <1>0, <1>a
  <2> QED BY <1>0, <2>1 DEF Orderly, Nested, n
<1>2. ForwardedOn(long, dicts)
  <2> SUFFICES ASSUME NEW i \in 1..Len(long), NEW j \in 1..Len(long), i < j, OnForward(dicts, long[i])
               PROVE  OnForward(dicts, long[j])
    BY DEF ForwardedOn
  <2>1. i \in 1..n /\ long[i] = line[i]
    BY <1>0, <1>a
  <2>2. CASE j = n + 1
    BY <1>b, <2>1, <2>2
  <2>3. CASE j \in 1..n
    BY <1>0, <2>1, <2>3 DEF Orderly, ForwardedOn, n
  <2> QED BY <1>a, <2>2, <2>3
<1>3. InputsBelow(long, dicts)
  <2> SUFFICES ASSUME NEW i \in 1..Len(long), ~OnForward(dicts, long[i])
               PROVE  \E k \in 1..i : long[k] = dicts[long[i]].input
    BY DEF InputsBelow
  <2>1. CASE i = n + 1
    BY <1>b, <2>1
  <2>2. CASE i \in 1..n
    <3>1. PICK k \in 1..i : line[k] = dicts[line[i]].input
      BY <1>0, <2>2 DEF Orderly, InputsBelow, n
    <3>2. k \in 1..n
      BY <1>0, <2>2
    <3> QED BY <1>0, <2>2, <3>1, <3>2
  <2> QED BY <1>a, <2>1, <2>2
<1> QED BY <1>1, <1>2, <1>3 DEF Orderly

\* The last call but one of forwarded ones ends.
LEMMA OrderlySkip ==
    ASSUME NEW line \in Seq(Environs), NEW short \in Seq(Environs), NEW dicts, Orderly(line, dicts),
           Len(short) > 0, Len(line) = Len(short) + 1,
           \A i \in 1..(Len(short) - 1) : short[i] = line[i],
           short[Len(short)] = line[Len(line)], OnForward(dicts, short[Len(short)])
    PROVE  Orderly(short, dicts)
<1> DEFINE n == Len(short)
<1>0. /\ n \in Nat \ {0} /\ Len(line) = n + 1 /\ short[n] = line[n + 1]
      /\ \A i \in 1..(n - 1) : short[i] = line[i] /\ i \in 1..Len(line)
  OBVIOUS
<1>a. \A i \in 1..n : i = n \/ (i \in 1..(n - 1) /\ i < n)
  BY <1>0
<1>b. OnForward(dicts, short[n])
  OBVIOUS
<1> HIDE DEF n
<1>1. Nested(short)
  <2> SUFFICES ASSUME NEW i \in 1..n, NEW j \in 1..n, NEW k \in 1..n, i < j, j < k, short[i] = short[k]
               PROVE  short[j] = short[i]
    BY DEF Nested, n
  <2>1. i \in 1..(n - 1) /\ j \in 1..(n - 1)
    BY <1>0, <1>a
  <2>2. PICK m \in 1..Len(line) : m > j /\ short[k] = line[m]
    BY <1>0, <1>a, <2>1
  <2>3. i \in 1..Len(line) /\ j \in 1..Len(line) /\ short[i] = line[i] /\ short[j] = line[j]
    BY <1>0, <2>1
  <2> QED BY <2>2, <2>3 DEF Orderly, Nested
<1>2. ForwardedOn(short, dicts)
  <2> SUFFICES ASSUME NEW i \in 1..n, NEW j \in 1..n, i < j, OnForward(dicts, short[i])
               PROVE  OnForward(dicts, short[j])
    BY DEF ForwardedOn, n
  <2>1. i \in 1..(n - 1)
    BY <1>0, <1>a
  <2>2. CASE j = n
    BY <1>b, <2>2
  <2>3. CASE j \in 1..(n - 1)
    BY <1>0, <2>1, <2>3 DEF Orderly, ForwardedOn
  <2> QED BY <1>a, <2>2, <2>3
<1>3. InputsBelow(short, dicts)
  <2> SUFFICES ASSUME NEW i \in 1..n, ~OnForward(dicts, short[i])
               PROVE  \E k \in 1..i : short[k] = dicts[short[i]].input
    BY DEF InputsBelow, n
  <2>1. i \in 1..(n - 1)
    BY <1>a, <1>b
  <2>2. PICK k \in 1..i : line[k] = dicts[line[i]].input
    BY <1>0, <2>1 DEF Orderly, InputsBelow
  <2>3. k \in 1..(n - 1)
    BY <1>0, <2>1
  <2> QED BY <1>0, <2>1, <2>2, <2>3
<1> QED BY <1>1, <1>2, <1>3 DEF Orderly

\* The environ of a call above which everything is forwarded is marked as forwarded.
LEMMA OrderlyMarked ==
    ASSUME NEW line \in Seq(Environs), NEW dicts, NEW marked, Orderly(line, dicts),
           NEW m \in 1..Len(line), \A j \in 1..Len(line) : j > m => OnForward(dicts, line[j]),
           OnForward(marked, line[m]),
           \A i \in 1..Len(line) : line[i] # line[m] => marked[line[i]] = dicts[line[i]]
    PROVE  Orderly(line, marked)
<1>0. Len(line) \in Nat /\ m \in Nat
  OBVIOUS
<1>a. \A i \in 1..Len(line) : OnForward(dicts, line[i]) => OnForward(marked, line[i])
  BY DEF OnForward
<1>b. \A i \in 1..Len(line) : line[i] # line[m] => (OnForward(dicts, line[i]) <=> OnForward(marked, line[i]))
  BY DEF OnForward
<1>1. ForwardedOn(line, marked)
  <2> SUFFICES ASSUME NEW i \in 1..Len(line), NEW j \in 1..Len(line), i < j, OnForward(marked, line[i])
               PROVE  OnForward(marked, line[j])
    BY DEF ForwardedOn
  <2>1. CASE line[i] # line[m]
    BY <1>a, <1>b, <2>1 DEF Orderly, ForwardedOn
  <2>2. CASE line[i] = line[m] /\ j > m
    BY <1>a, <2>2
  <2>3. CASE line[i] = line[m] /\ j <= m
    <3>1. j = m \/ (i < j /\ j < m)
      BY <1>0, <2>3
    <3> QED BY <2>3, <3>1 DEF Orderly, Nested
  <2> QED BY <1>0, <2>1, <2>2, <2>3
<1>2. InputsBelow(line, marked)
  BY <1>b DEF Orderly, InputsBelow
<1> QED BY <1>1, <1>2 DEF Orderly

\* A dictionary gets a stream of its own.
LEMMA OrderlyInputs ==
    ASSUME NEW line \in Seq(Environs), NEW dicts, NEW other, Orderly(line, dicts),
           \A i \in 1..Len(line) :
              /\ OnForward(other, line[i]) <=> OnForward(dicts, line[i])
              /\ other[line[i]].input \in {dicts[line[i]].input, line[i]}
    PROVE  Orderly(line, other)
<1>1. ForwardedOn(line, other)
  BY DEF Orderly, ForwardedOn
<1>2. InputsBelow(line, other)
  <2> SUFFICES ASSUME NEW i \in 1..Len(line), ~OnForward(other, line[i])
               PROVE  \E k \in 1..i : line[k] = other[line[i]].input
    BY DEF InputsBelow
  <2>1. PICK k \in 1..i : line[k] = dicts[line[i]].input
    BY DEF Orderly, InputsBelow
  <2>2. i \in 1..i
    OBVIOUS
  <2> QED BY <2>1, <2>2
<1> QED BY <1>1, <1>2 DEF Orderly

\* A stream that can be read from the start by what was not forwarded was made for an
\* environ that was not forwarded.
LEMMA NotForwardedBelow ==
    ASSUME NEW line \in Seq(Environs), NEW dicts, Orderly(line, dicts), NEW i \in 1..Len(line),
           NEW e, OnForward(dicts, e), dicts[line[i]].input = e
    PROVE  OnForward(dicts, line[i])
<1> SUFFICES ASSUME ~OnForward(dicts, line[i]) PROVE FALSE
  OBVIOUS
<1>1. PICK k \in 1..i : line[k] = e
  BY DEF Orderly, InputsBelow
<1>2. k = i \/ (k \in 1..Len(line) /\ k < i)
  OBVIOUS
<1> QED BY <1>1, <1>2 DEF Orderly, ForwardedOn

\* The environs that are free are not those of calls, nor made for them.
LEMMA FreshIsNew ==
    ASSUME Typed, NEW copy \in Fresh
    PROVE  /\ copy \in Environs
           /\ \A i \in 1..Len(frames) : frames[i].environ # copy
           /\ Carried(event) => event.environ # copy
<1>1. copy \in Unused
  BY DEF Fresh
<1>2. DOMAIN frames = 1..Len(frames)
  BY DEF Typed, Stacks
<1> QED BY <1>1, <1>2 DEF Unused, Carried

LEMMA BodyInit ==
    ASSUME Assumed, DispatchInit PROVE BodyInv
<1>1. 1 \in Nat \ {0} /\ 1 \in Environs
  BY DEF Assumed
<1>2. event \in Calls /\ event.do = "call" /\ event.environ = 1
  BY <1>1, Made DEF DispatchInit
<1>3. frames = <<>> /\ frames \in Stacks /\ hungry = FALSE
  BY DEF DispatchInit, Stacks
<1>4. Carried(event)
  BY <1>2, Kinds
<1>5. Len(Line(frames, event)) = 1 /\ Line(frames, event)[1] = 1
  <2>1. Len(frames) = 0
    BY <1>3
  <2>2. Len(Line(frames, event)) = Len(frames) + 1 /\ Line(frames, event)[Len(frames) + 1] = 1
    BY <1>2, <1>3, <1>4, LineIs
  <2> QED BY <2>1, <2>2
<1>6. environ[1].input = 1
  BY <1>1 DEF DispatchInit
<1>7. Orderly(Line(frames, event), environ)
  <2> DEFINE line == Line(frames, event)
  <2> HIDE DEF line
  <2>1. Len(line) = 1 /\ line[1] = 1
    BY <1>5 DEF line
  <2>2. Nested(line)
    BY <2>1 DEF Nested
  <2>3. ForwardedOn(line, environ)
    BY <2>1 DEF ForwardedOn
  <2>4. InputsBelow(line, environ)
    BY <1>6, <2>1 DEF InputsBelow
  <2> QED BY <2>2, <2>3, <2>4 DEF Orderly, line
<1>8. LeftFor(event, environ, stream) /\ LeftBelow(frames, environ, stream)
  <2>1. stream[1].full /\ ~stream[1].read
    BY <1>1 DEF DispatchInit
  <2>2. LeftFor(event, environ, stream)
    BY <1>2, <1>6, <2>1 DEF LeftFor
  <2> QED BY <1>3, <2>2 DEF LeftBelow
<1> QED BY <1>2, <1>3, <1>7, <1>8 DEF BodyInv

LEMMA BodyMade ==
    ASSUME Orderly(Line(frames', event'), environ'),
           event'.do = "raise" /\ Carried(event') => OnForward(environ', event'.environ),
           body' # "none" => LeftFor(event', environ', stream') /\ LeftBelow(frames', environ', stream'),
           hungry' = FALSE
    PROVE  BodyInv'
<1>1. Orderly(Line(frames, event), environ)'
  BY DEF Orderly, Nested, ForwardedOn, InputsBelow, OnForward, Line, Envs, Carried
<1>2. LeftFor(event, environ, stream)' <=> LeftFor(event', environ', stream')
  BY DEF LeftFor, OnForward
<1>3. LeftBelow(frames, environ, stream)' <=> LeftBelow(frames', environ', stream')
  BY DEF LeftBelow, OnForward
<1>4. (event.do = "raise" /\ Carried(event) => OnForward(environ, event.environ))'
  BY DEF Carried, OnForward
<1>5. (hungry = FALSE)' /\ (body # "none" => LeftFor(event, environ, stream) /\ LeftBelow(frames, environ, stream))'
  BY <1>2, <1>3
<1> QED BY <1>1, <1>4, <1>5 DEF BodyInv

\* A step that ends a call, with the environs and streams as they are.
LEMMA BodyEnds ==
    ASSUME Typed, Typed', BodyInv, UNCHANGED <<body, environ, stream, hungry>>,
           Len(frames') <= Len(frames), ~Carried(event'),
           \A i \in 1..Len(frames') : frames'[i].at = frames[i].at /\ frames'[i].environ = frames[i].environ
    PROVE  BodyInv'
<1>0. /\ event' \in Calls \cup Returns \cup Raises \cup Forwards \cup OwnForwarding
      /\ frames' \in Stacks /\ frames \in Stacks
      /\ event \in Calls \cup Returns \cup Raises \cup Forwards \cup OwnForwarding
  BY DEF Typed
<1> DEFINE line == Line(frames, event)
           short == Line(frames', event')
<1>1. /\ line \in Seq(Environs) /\ Len(frames) \in Nat /\ Len(line) >= Len(frames)
      /\ \A i \in 1..Len(frames) : line[i] = frames[i].environ
  BY <1>0, LineIs
<1>2. /\ short \in Seq(Environs) /\ Len(frames') \in Nat /\ Len(short) = Len(frames')
      /\ \A i \in 1..Len(frames') : short[i] = frames'[i].environ
  BY <1>0, LineIs
<1>3. Orderly(line, environ) /\ hungry = FALSE
  BY DEF BodyInv
<1> HIDE DEF line, short
<1>4. \A i \in 1..Len(short) : short[i] = line[i]
  BY <1>1, <1>2
<1>5. Orderly(short, environ')
  BY <1>1, <1>2, <1>3, <1>4, OrderlyFront
<1>6. event'.do # "call"
  <2>1. event' \notin Calls
    BY <1>0, Kinds
  <2> QED BY <1>0, <2>1, Kinds
<1>7. LeftFor(event', environ', stream')
  BY <1>6 DEF LeftFor
<1>8. body # "none" => LeftBelow(frames', environ', stream')
  <2>1. \A i \in 1..Len(frames') : i \in 1..Len(frames)
    BY <1>1, <1>2
  <2> QED BY <2>1 DEF BodyInv, LeftBelow
<1> QED BY <1>3, <1>5, <1>7, <1>8, BodyMade DEF short

\* A wrapper or a cascade calls the next layer: a cascade with a copy of its environ.
LEMMA BodyCalls ==
    ASSUME Typed, Typed', BodyInv, event \in Calls, NEW f, frames' = Append(frames, f),
           f \in Wrappers \cup Keepers, f.environ = event.environ, f.at # "cascade",
           event' \in Calls, event'.environ = event.environ, ~event.read,
           UNCHANGED <<body, environ, stream, hungry>>
    PROVE  BodyInv'
<1>0. frames \in Stacks /\ frames' \in Stacks /\ event.do = "call" /\ Carried(event) /\ Carried(event')
      /\ event'.do = "call"
  BY Kinds DEF Typed
<1> DEFINE line == Line(frames, event)
           long == Line(frames', event')
<1>1. /\ line \in Seq(Environs) /\ Len(frames) \in Nat /\ Len(line) = Len(frames) + 1
      /\ \A i \in 1..Len(frames) : line[i] = frames[i].environ
      /\ line[Len(frames) + 1] = event.environ
  BY <1>0, LineIs
<1>2. /\ Len(frames') = Len(frames) + 1 /\ frames'[Len(frames) + 1] = f
      /\ \A i \in 1..Len(frames) : frames'[i] = frames[i]
  BY <1>0, Pushed
<1>3. /\ long \in Seq(Environs) /\ Len(long) = Len(frames') + 1
      /\ \A i \in 1..Len(frames') : long[i] = frames'[i].environ
      /\ long[Len(frames') + 1] = event'.environ
  BY <1>0, LineIs
<1>4. Orderly(line, environ) /\ hungry = FALSE
  BY DEF BodyInv
<1> HIDE DEF line, long
<1>5. Len(line) > 0 /\ Len(long) = Len(line) + 1 /\ long[Len(long)] = line[Len(line)]
  BY <1>1, <1>2, <1>3
<1>6. ASSUME NEW i \in 1..Len(line) PROVE long[i] = line[i]
  <2>1. i \in 1..Len(frames') /\ (i = Len(frames) + 1 \/ i \in 1..Len(frames))
    BY <1>1, <1>2
  <2> QED BY <1>1, <1>2, <1>3, <2>1
<1>7. Orderly(long, environ')
  BY <1>1, <1>3, <1>4, <1>5, <1>6, OrderlyAgain
<1>8. body # "none" => LeftFor(event', environ', stream')
  BY <1>0 DEF BodyInv, LeftFor
<1>9. body # "none" => LeftBelow(frames', environ', stream')
  <2>1. \A i \in 1..Len(frames') : i = Len(frames) + 1 \/ i \in 1..Len(frames)
    BY <1>1, <1>2
  <2> QED BY <1>2, <2>1 DEF BodyInv, LeftBelow
<1> QED BY <1>0, <1>4, <1>7, <1>8, <1>9, BodyMade DEF long

LEMMA BodyCascade ==
    ASSUME Typed, Typed', BodyInv, CallCascade PROVE BodyInv'
<1> DEFINE e == event.environ
           left == stream[environ[e].input].full /\ ~stream[environ[e].input].read
           f == Frame("cascade")
<1>0. /\ Called("cascade") /\ UNCHANGED <<chain, body, hungry>> /\ frames \in Stacks /\ frames' \in Stacks
      /\ environ \in [Environs -> Dicts] /\ stream \in [Environs -> Streams]
      /\ event' \in Calls \cup Returns \cup Raises \cup Forwards \cup OwnForwarding
      /\ hungry = FALSE /\ Orderly(Line(frames, event), environ)
  BY DEF CallCascade, requestVars, Typed, BodyInv
<1>1. event \in Calls /\ event.do = "call" /\ e \in Environs /\ event.layer \in Nat \ {0} /\ Carried(event)
      /\ event.layer <= Len(chain)
  BY <1>0, Kinds DEF Called, Typed, Calls
<1>2. ~event.read
  BY <1>1 DEF Typed
<1>3. CASE event' = Raise("error") /\ UNCHANGED <<environ, stream, frames>>
  <2>1. ~Carried(event')
    BY <1>3 DEF Raise, Carried
  <2> QED BY <1>0, <1>3, <2>1, BodyEnds
<1>4. CASE \E copy \in Fresh :
             /\ environ' = IF body = "none" THEN [environ EXCEPT ![copy] = environ[e]]
                           ELSE [environ EXCEPT ![e].input = e,
                                                ![copy] = [environ[e] EXCEPT !.input = e]]
             /\ stream' = IF body = "none" THEN stream
                          ELSE [stream EXCEPT ![e] = [full |-> left, read |-> FALSE]]
             /\ frames' = Append(frames, f)
             /\ event' = Call(event.layer + 1, copy)
  <2>1. PICK copy \in Fresh :
             /\ environ' = IF body = "none" THEN [environ EXCEPT ![copy] = environ[e]]
                           ELSE [environ EXCEPT ![e].input = e,
                                                ![copy] = [environ[e] EXCEPT !.input = e]]
             /\ stream' = IF body = "none" THEN stream
                          ELSE [stream EXCEPT ![e] = [full |-> left, read |-> FALSE]]
             /\ frames' = Append(frames, f)
             /\ event' = Call(event.layer + 1, copy)
    BY <1>4
  <2>2. /\ copy \in Environs /\ copy # e
        /\ \A i \in 1..Len(frames) : frames[i].environ # copy
    BY <1>1, FreshIsNew
  <2>3. /\ event' \in Calls /\ event'.do = "call" /\ event'.environ = copy /\ ~event'.read
        /\ Carried(event')
    <3>1. event.layer + 1 \in Nat \ {0}
      BY <1>1
    <3>2. event' \in Calls /\ event'.do = "call" /\ event'.environ = copy /\ ~event'.read
      BY <2>1, <2>2, <3>1, Made
    <3> QED BY <3>2, Kinds
  <2>4. f \in Wrappers \cup Keepers /\ f.at = "cascade" /\ f.environ = e
    BY <1>1 DEF Frame, Wrappers, Layers
  \* The dictionaries.
  <2>5. \A d \in Dicts : /\ [d EXCEPT !.input = e].input = e
                         /\ [d EXCEPT !.input = e].list = d.list
                         /\ [d EXCEPT !.input = e].own = d.own
    BY DEF Dicts
  <2>6. /\ \A x \in Environs : x # e /\ x # copy => environ'[x] = environ[x]
        /\ environ'[e].input = IF body = "none" THEN environ[e].input ELSE e
        /\ OnForward(environ', e) <=> OnForward(environ, e)
        /\ environ'[copy].input = environ'[e].input
        /\ OnForward(environ', copy) <=> OnForward(environ, e)
    <3> HIDE DEF e
    <3>1. environ[e] \in Dicts
      BY <1>0, <1>1
    <3>2. CASE body = "none"
      BY <1>0, <1>1, <2>1, <2>2, <3>2 DEF OnForward
    <3>3. CASE body # "none"
      <4>1. environ' = [[environ EXCEPT ![e] = [environ[e] EXCEPT !.input = e]]
                           EXCEPT ![copy] = [environ[e] EXCEPT !.input = e]]
        BY <2>1, <3>3
      <4>2. /\ environ'[e] = [environ[e] EXCEPT !.input = e]
            /\ environ'[copy] = [environ[e] EXCEPT !.input = e]
            /\ \A x \in Environs : x # e /\ x # copy => environ'[x] = environ[x]
        BY <1>0, <1>1, <2>2, <4>1
      <4> QED BY <2>5, <3>1, <3>3, <4>2 DEF OnForward
    <3> QED BY <3>2, <3>3
  <2> DEFINE line == Line(frames, event)
             long == Line(frames', event')
  <2>7. /\ line \in Seq(Environs) /\ Len(frames) \in Nat /\ Len(line) = Len(frames) + 1
        /\ \A i \in 1..Len(frames) : line[i] = frames[i].environ
        /\ line[Len(frames) + 1] = e
    BY <1>0, <1>1, LineIs DEF Typed
  <2>8. /\ Len(frames') = Len(frames) + 1 /\ frames'[Len(frames) + 1] = f
        /\ \A i \in 1..Len(frames) : frames'[i] = frames[i]
    BY <1>0, <2>1, <2>4, Pushed
  <2>9. /\ long \in Seq(Environs) /\ Len(long) = Len(frames') + 1
        /\ \A i \in 1..Len(frames') : long[i] = frames'[i].environ
        /\ long[Len(frames') + 1] = copy
    BY <1>0, <2>3, LineIs
  <2>10. Orderly(line, environ)
    BY <1>0
  <2> HIDE DEF line, long, e, f, left
  <2>11. \A i \in 1..Len(line) : i = Len(frames) + 1 \/ i \in 1..Len(frames)
    BY <2>7
  <2>12. \A i \in 1..Len(line) : line[i] \in Environs /\ line[i] # copy
    BY <2>2, <2>7, <2>11
  <2>13. \A i \in 1..Len(line) :
            /\ OnForward(environ', line[i]) <=> OnForward(environ, line[i])
            /\ environ'[line[i]].input \in {environ[line[i]].input, line[i]}
    BY <2>6, <2>12 DEF OnForward
  <2>14. Orderly(line, environ')
    BY <2>7, <2>10, <2>13, OrderlyInputs
  <2>15. Len(long) = Len(line) + 1 /\ long[Len(long)] = copy
    BY <2>7, <2>8, <2>9
  <2>16. ASSUME NEW i \in 1..Len(line) PROVE long[i] = line[i]
    <3>1. i \in 1..Len(frames')
      BY <2>7, <2>8
    <3> QED BY <2>4, <2>7, <2>8, <2>9, <2>11, <3>1
  <2>17. \/ OnForward(environ', copy)
         \/ /\ \A i \in 1..Len(line) : ~OnForward(environ', line[i])
            /\ \E k \in 1..Len(long) : long[k] = environ'[copy].input
    <3> SUFFICES ASSUME ~OnForward(environ', copy)
                 PROVE  /\ \A i \in 1..Len(line) : ~OnForward(environ', line[i])
                        /\ \E k \in 1..Len(long) : long[k] = environ'[copy].input
      OBVIOUS
    <3>1. ~OnForward(environ', e)
      BY <2>6
    <3>2. Len(line) \in 1..Len(line) /\ line[Len(line)] = e
      BY <2>7
    <3>3. ASSUME NEW i \in 1..Len(line) PROVE ~OnForward(environ', line[i])
      <4>1. i = Len(line) \/ i < Len(line)
        BY <2>7
      <4> QED BY <2>14, <3>1, <3>2, <4>1 DEF Orderly, ForwardedOn
    <3>4. PICK k \in 1..Len(line) : line[k] = environ'[e].input
      BY <2>14, <3>1, <3>2 DEF Orderly, InputsBelow
    <3>5. k \in 1..Len(long) /\ long[k] = environ'[copy].input
      BY <2>6, <2>7, <2>15, <2>16, <3>4
    <3> QED BY <3>3, <3>5
  <2>18. Orderly(long, environ')
    BY <2>7, <2>9, <2>12, <2>14, <2>15, <2>16, <2>17, OrderlyNew
  \* The streams.
  <2>19. body # "none" /\ ~OnForward(environ, e) => left
    BY <1>1, <1>2 DEF BodyInv, LeftFor, left, e
  <2>20. body # "none" => stream'[e] = [full |-> left, read |-> FALSE]
                          /\ \A x \in Environs : x # e => stream'[x] = stream[x]
    BY <1>0, <1>1, <2>1
  <2>21. body # "none" => LeftFor(event', environ', stream')
    <3>1. body # "none" /\ left => stream'[e].full /\ ~stream'[e].read
      BY <2>20
    <3> QED BY <2>3, <2>6, <2>19, <3>1 DEF LeftFor
  <2>22. ASSUME body # "none" PROVE LeftBelow(frames', environ', stream')
    <3> SUFFICES ASSUME NEW i \in 1..Len(frames'), frames'[i].at = "cascade",
                        ~OnForward(environ', frames'[i].environ)
                 PROVE  stream'[environ'[frames'[i].environ].input].full
      BY DEF LeftBelow
    <3> DEFINE g == frames'[i].environ
    <3>1. g = line[i] /\ i \in 1..Len(line)
      BY <2>7, <2>8, <2>9, <2>16
    <3>2. ~OnForward(environ, g) /\ g # copy /\ g \in Environs
      BY <2>12, <2>13, <3>1
    <3>3. CASE environ'[g].input = e
      <4>1. ~OnForward(environ', e)
        BY <2>7, <2>14, <3>1, <3>3, NotForwardedBelow
      <4>2. left
        BY <2>6, <2>19, <2>22, <4>1
      <4> QED BY <2>20, <2>22, <3>3, <4>2
    <3>4. CASE environ'[g].input # e
      <4>1. g # e /\ environ'[g] = environ[g]
        BY <2>6, <2>22, <3>2, <3>4
      <4>2. i \in 1..Len(frames) /\ frames'[i] = frames[i]
        BY <2>4, <2>8, <2>11, <3>1, <4>1
      <4>3. stream[environ[g].input].full
        BY <2>22, <3>2, <4>2 DEF BodyInv, LeftBelow
      <4>4. environ[g].input \in Environs
        BY <1>0, <3>2, DictsChanged
      <4> QED BY <2>20, <2>22, <3>4, <4>1, <4>3, <4>4
    <3> QED BY <3>3, <3>4
  <2> QED BY <1>0, <2>3, <2>18, <2>21, <2>22, BodyMade DEF long
<1> QED BY <1>3, <1>4, <1>0, <1>1 DEF CallCascade, environVars

\* The forwarded call takes the place of the one that raised.
LEMMA BodyForwards ==
    ASSUME Assumed, Typed, Typed', BodyInv, ForwardRequest PROVE BodyInv'
<1> DEFINE e == Top.environ
           keeper == [at |-> "keeper", layer |-> Top.layer, environ |-> e, kept |-> None,
                      status |-> event.status]
           list == IF environ[e].list = None THEN e ELSE environ[e].list
           line == Line(frames, event)
           after == Line(frames', event')
           n == Len(frames)
<1>1. /\ frames # <<>> /\ event.do = "raise" /\ event.what = "forward"
      /\ UNCHANGED <<chain, body, stream, hungry>>
      /\ IF "environ" \in DOMAIN event
         THEN /\ event' = Call(Top.layer, event.environ) /\ frames' = Pop
              /\ environ' = [environ EXCEPT ![e].list = list]
         ELSE /\ event' = Call(Top.layer, e)
              /\ frames' = IF event.status = None THEN Pop ELSE Append(Pop, keeper)
              /\ environ' = [environ EXCEPT ![e].list = list, ![e].path = event.path]
  BY DEF ForwardRequest, Raised, requestVars
<1>2. /\ FramesTyped /\ frames \in Stacks /\ frames' \in Stacks
      /\ environ \in [Environs -> Dicts]
      /\ event \in Calls \cup Returns \cup Raises \cup Forwards \cup OwnForwarding
      /\ event' \in Calls \cup Returns \cup Raises \cup Forwards \cup OwnForwarding
      /\ hungry = FALSE /\ Orderly(line, environ)
  BY TypedParts DEF Typed, BodyInv
<1>3. /\ n \in Nat \ {0} /\ Top = frames[n] /\ e \in Environs /\ Top.layer \in Nat \ {0}
      /\ Pop \in Stacks /\ Len(Pop) = n - 1 /\ \A i \in 1..Len(Pop) : Pop[i] = frames[i]
  BY <1>1, <1>2, PopTyped
<1>4. /\ line \in Seq(Environs) /\ Len(line) = IF Carried(event) THEN n + 1 ELSE n
      /\ \A i \in 1..n : line[i] = frames[i].environ
      /\ Carried(event) => line[n + 1] = event.environ /\ event.environ \in Environs
  BY <1>2, LineIs
<1>5. /\ event' \in Calls /\ event'.do = "call" /\ Carried(event')
      /\ event'.environ = IF Carried(event) THEN event.environ ELSE e
  <2>1. event' = Call(Top.layer, IF Carried(event) THEN event.environ ELSE e)
    BY <1>1 DEF Carried
  <2>2. (IF Carried(event) THEN event.environ ELSE e) \in Environs
    BY <1>3, <1>4
  <2>3. event' \in Calls /\ event'.do = "call"
        /\ event'.environ = IF Carried(event) THEN event.environ ELSE e
    BY <1>3, <2>1, <2>2, Made
  <2> QED BY <2>3, Kinds
<1>6. /\ after \in Seq(Environs) /\ Len(after) = Len(frames') + 1 /\ Len(frames') \in Nat
      /\ \A i \in 1..Len(frames') : after[i] = frames'[i].environ
      /\ after[Len(frames') + 1] = event'.environ
  BY <1>2, <1>5, LineIs
\* Top's environ is marked as forwarded.
<1>7. /\ \A x \in Environs : x # e => environ'[x] = environ[x]
      /\ OnForward(environ', e) /\ environ'[e].input = environ[e].input
  <2> HIDE DEF e
  <2>1. environ[e] \in Dicts
    BY <1>2, <1>3
  <2>2. list \in Environs /\ list # None
    BY <1>3, <2>1, DictsChanged DEF Assumed
  <2> HIDE DEF list
  <2>3. \A d \in Dicts : /\ [d EXCEPT !.list = list].list = list
                         /\ [d EXCEPT !.list = list].input = d.input
                         /\ \A p : /\ [d EXCEPT !.list = list, !.path = p].list = list
                                   /\ [d EXCEPT !.list = list, !.path = p].input = d.input
    BY DEF Dicts
  <2>4. \/ environ' = [environ EXCEPT ![e] = [environ[e] EXCEPT !.list = list]]
        \/ environ' = [environ EXCEPT ![e] = [environ[e] EXCEPT !.list = list, !.path = event.path]]
    BY <1>1
  <2>5. CASE environ' = [environ EXCEPT ![e] = [environ[e] EXCEPT !.list = list]]
    <3>1. environ'[e] = [environ[e] EXCEPT !.list = list]
          /\ \A x \in Environs : x # e => environ'[x] = environ[x]
      BY <1>2, <1>3, <2>5
    <3> QED BY <2>1, <2>2, <2>3, <3>1 DEF OnForward
  <2>6. CASE environ' = [environ EXCEPT ![e] = [environ[e] EXCEPT !.list = list, !.path = event.path]]
    <3>1. environ'[e] = [environ[e] EXCEPT !.list = list, !.path = event.path]
          /\ \A x \in Environs : x # e => environ'[x] = environ[x]
      BY <1>2, <1>3, <2>6
    <3> QED BY <2>1, <2>2, <2>3, <3>1 DEF OnForward
  <2> QED BY <2>4, <2>5, <2>6
<1>8. Carried(event) => OnForward(environ, event.environ)
  BY <1>1 DEF BodyInv
<1> HIDE DEF line, after, e, list, n
<1>9. Orderly(line, environ')
  <2>1. n \in 1..Len(line) /\ line[n] = e
    BY <1>3, <1>4 DEF e
  <2>2. ASSUME NEW j \in 1..Len(line), j > n PROVE OnForward(environ, line[j])
    <3>1. Carried(event) /\ j = n + 1
      BY <1>3, <1>4, <2>2
    <3> QED BY <1>4, <1>8, <3>1
  <2>3. \A i \in 1..Len(line) : line[i] \in Environs
    BY <1>4
  <2> QED BY <1>2, <1>4, <1>7, <2>1, <2>2, <2>3, OrderlyMarked
<1>10. OnForward(environ', event'.environ)
  BY <1>4, <1>5, <1>7, <1>8 DEF OnForward
<1>11. \A i \in 1..Len(Pop) : Pop[i].environ = line[i] /\ i \in 1..n
  BY <1>3, <1>4
<1>12. Orderly(after, environ')
  <2>1. CASE Carried(event)
    <3>1. Len(frames') = n - 1 /\ \A i \in 1..Len(frames') : frames'[i] = Pop[i]
      BY <1>1, <1>3, <2>1 DEF Carried
    <3>2. Len(after) = n /\ Len(line) = n + 1 /\ after[n] = line[n + 1]
      BY <1>3, <1>4, <1>5, <1>6, <2>1, <3>1
    <3>3. \A i \in 1..(Len(after) - 1) : after[i] = line[i]
      BY <1>3, <1>6, <1>11, <3>1, <3>2
    <3>4. OnForward(environ', after[n])
      BY <1>4, <1>5, <1>10, <2>1, <3>2
    <3> QED BY <1>3, <1>4, <1>6, <1>9, <3>2, <3>3, <3>4, OrderlySkip
  <2>2. CASE ~Carried(event) /\ frames' = Pop
    <3>1. Len(after) = n /\ after[n] = e
      BY <1>3, <1>5, <1>6, <2>2
    <3>2. ASSUME NEW i \in 1..Len(after) PROVE after[i] = line[i]
      <4>1. i = n \/ i \in 1..Len(Pop)
        BY <1>3, <3>1
      <4> QED BY <1>3, <1>4, <1>6, <1>11, <2>2, <3>1, <4>1 DEF e
    <3> QED BY <1>3, <1>4, <1>6, <1>9, <2>2, <3>1, <3>2, OrderlyFront
  <2>3. CASE ~Carried(event) /\ event.status # None /\ frames' = Append(Pop, keeper)
    <3>1. keeper \in Wrappers \cup Keepers /\ keeper.environ = e
      <4>1. event \in Forwards
        BY <1>1, <1>2, <2>3, Kinds
      <4>2. event.status \in Codes
        BY <2>3, <4>1 DEF Forwards
      <4> QED BY <1>3, <4>2 DEF Keepers, e
    <3> HIDE DEF keeper
    <3>2. /\ Len(frames') = n /\ frames'[n] = keeper
          /\ \A i \in 1..Len(Pop) : frames'[i] = Pop[i]
      BY <1>3, <2>3, <3>1, Pushed
    <3>3. Len(after) = n + 1 /\ after[n + 1] = e /\ after[n] = e
      BY <1>3, <1>5, <1>6, <2>3, <3>1, <3>2
    <3>4. ASSUME NEW i \in 1..Len(line) PROVE after[i] = line[i]
      <4>1. i = n \/ i \in 1..Len(Pop)
        BY <1>3, <1>4, <2>3
      <4> QED BY <1>3, <1>4, <1>6, <1>11, <2>3, <3>2, <3>3, <4>1 DEF e
    <3>5. Len(line) > 0 /\ Len(after) = Len(line) + 1 /\ after[Len(after)] = line[Len(line)]
      BY <1>3, <1>4, <2>3, <3>3 DEF e
    <3> QED BY <1>4, <1>6, <1>9, <3>4, <3>5, OrderlyAgain
  <2>4. \/ Carried(event) \/ frames' = Pop
        \/ (event.status # None /\ frames' = Append(Pop, keeper))
    BY <1>1 DEF Carried
  <2> QED BY <2>1, <2>2, <2>3, <2>4
<1>13. LeftFor(event', environ', stream')
  BY <1>10 DEF LeftFor
<1>14. ASSUME body # "none" PROVE LeftBelow(frames', environ', stream')
  <2> SUFFICES ASSUME NEW i \in 1..Len(frames'), frames'[i].at = "cascade",
                      ~OnForward(environ', frames'[i].environ)
               PROVE  stream'[environ'[frames'[i].environ].input].full
    BY DEF LeftBelow
  <2>1. i \in 1..n /\ frames'[i] = frames[i]
    <3>1. CASE frames' = Pop
      BY <1>3, <3>1
    <3>2. CASE frames' = Append(Pop, keeper)
      <4>1. keeper.at # "cascade"
        OBVIOUS
      <4> HIDE DEF keeper
      <4>2. /\ Len(frames') = Len(Pop) + 1 /\ frames'[Len(Pop) + 1] = keeper
            /\ \A j \in 1..Len(Pop) : frames'[j] = Pop[j]
        <5>1. Len(Pop) \in Nat
          BY <1>3
        <5> QED BY <1>3, <3>2, <5>1 DEF Stacks
      <4>3. i \in 1..Len(Pop)
        BY <1>3, <4>1, <4>2
      <4> QED BY <1>3, <4>2, <4>3
    <3> QED BY <1>1, <3>1, <3>2
  <2>2. frames[i].environ \in Environs /\ frames[i].environ # e
    BY <1>2, <1>7, <2>1, Frame0
  <2>3. environ'[frames[i].environ] = environ[frames[i].environ]
    BY <1>7, <2>2
  <2>4. stream[environ[frames[i].environ].input].full
    BY <1>14, <2>1, <2>3 DEF BodyInv, LeftBelow, OnForward, n
  <2> QED BY <1>1, <2>1, <2>3, <2>4
<1> QED BY <1>1, <1>2, <1>5, <1>12, <1>13, <1>14, BodyMade DEF after

\* An application forwards with a copy of its environ.
LEMMA BodyOwnForward ==
    ASSUME Typed, Typed', BodyInv, NEW p \in Path, AppForwardsEnviron(p) PROVE BodyInv'
<1> DEFINE e == event.environ
           line == Line(frames, event)
           after == Line(frames', event')
           n == Len(frames)
<1>1. /\ event.do = "call" /\ UNCHANGED <<chain, body, stream, frames, hungry>>
      /\ environ \in [Environs -> Dicts] /\ frames \in Stacks /\ frames' \in Stacks
      /\ event \in Calls \cup Returns \cup Raises \cup Forwards \cup OwnForwarding
      /\ event' \in Calls \cup Returns \cup Raises \cup Forwards \cup OwnForwarding
      /\ hungry = FALSE /\ Orderly(line, environ)
  BY DEF AppForwardsEnviron, InApp, requestVars, Typed, BodyInv
<1>2. PICK copy \in Fresh :
         /\ environ' = [environ EXCEPT ![copy] = [environ[e] EXCEPT !.path = p, !.own = TRUE]]
         /\ event' = [do |-> "raise", what |-> "forward", environ |-> copy]
  BY DEF AppForwardsEnviron
<1>3. copy \in Environs /\ \A i \in 1..n : frames[i].environ # copy
  BY FreshIsNew
<1>4. Carried(event') /\ event'.environ = copy /\ event'.do = "raise"
  BY <1>2 DEF Carried
<1>5. event \in Calls /\ Carried(event) /\ e \in Environs
  BY <1>1, Kinds
<1>6. /\ line \in Seq(Environs) /\ n \in Nat /\ Len(line) = n + 1
      /\ \A i \in 1..n : line[i] = frames[i].environ
  BY <1>1, <1>5, LineIs
<1>7. /\ after \in Seq(Environs) /\ Len(after) = n + 1 /\ after[n + 1] = copy
      /\ \A i \in 1..n : after[i] = frames[i].environ
  BY <1>1, <1>4, LineIs
<1>8. OnForward(environ', copy) /\ \A x \in Environs : x # copy => environ'[x] = environ[x]
  <2>1. environ[e] \in Dicts
    BY <1>1, <1>5
  <2>2. [environ[e] EXCEPT !.path = p, !.own = TRUE].own = TRUE
    BY <2>1 DEF Dicts
  <2> QED BY <1>1, <1>2, <1>3, <2>2 DEF OnForward
<1> DEFINE front == SubSeq(after, 1, n)
<1> HIDE DEF line, after, n, e
<1>9. front \in Seq(Environs) /\ Len(front) = n /\ \A i \in 1..n : front[i] = after[i]
  BY <1>6, <1>7
<1> HIDE DEF front
<1>10. Orderly(front, environ)
  BY <1>1, <1>6, <1>7, <1>9, OrderlyFront
<1>11. \A i \in 1..n : front[i] \in Environs /\ front[i] # copy
  BY <1>3, <1>7, <1>9 DEF n
<1>12. Orderly(front, environ')
  BY <1>8, <1>9, <1>10, <1>11, OrderlyInputs DEF OnForward
<1>13. Orderly(after, environ')
  BY <1>7, <1>8, <1>9, <1>11, <1>12, OrderlyNew
<1>14. LeftFor(event', environ', stream')
  BY <1>4 DEF LeftFor
<1>15. ASSUME body # "none" PROVE LeftBelow(frames', environ', stream')
  <2> SUFFICES ASSUME NEW i \in 1..n, frames[i].at = "cascade",
                      ~OnForward(environ', frames[i].environ)
               PROVE  stream[environ'[frames[i].environ].input].full
    BY <1>1 DEF LeftBelow, n
  <2>1. environ'[frames[i].environ] = environ[frames[i].environ]
    BY <1>7, <1>8, <1>9, <1>11
  <2> QED BY <1>15, <2>1 DEF BodyInv, LeftBelow, OnForward, n
<1> QED BY <1>1, <1>4, <1>8, <1>13, <1>14, <1>15, BodyMade DEF after

LEMMA BodyStep ==
    ASSUME Assumed, Typed, Typed', BodyInv, [DispatchNext]_dispatchVars PROVE BodyInv'
<1>0. /\ FramesTyped /\ frames \in Stacks /\ frames' \in Stacks /\ Len(frames) \in Nat
      /\ environ \in [Environs -> Dicts]
      /\ event \in Calls \cup Returns \cup Raises \cup Forwards \cup OwnForwarding
      /\ event' \in Calls \cup Returns \cup Raises \cup Forwards \cup OwnForwarding
      /\ hungry = FALSE /\ Orderly(Line(frames, event), environ)
  BY TypedParts DEF Typed, BodyInv, Stacks
<1>a. event.do = "call" => event \in Calls /\ event.environ \in Environs /\ event.layer \in Nat \ {0}
  BY <1>0, Kinds DEF Calls
<1>b. ~Carried(Return) /\ \A what : ~Carried(Raise(what))
  BY DEF Return, Raise, Carried
<1>c. \A p, s : ~Carried(Forward(p, s))
  BY DEF Forward, Carried
\* A step that takes the top frame away and ends its call.
<1>d. ASSUME frames # <<>>, frames' = Pop, UNCHANGED <<body, environ, stream, hungry>>, ~Carried(event')
      PROVE  BodyInv'
  <2>1. Len(frames') <= Len(frames) /\ \A i \in 1..Len(frames') : frames'[i] = frames[i]
    BY <1>0, <1>d, PopTyped
  <2> QED BY <1>d, <2>1, BodyEnds
\* A step that ends the call of an application.
<1>e. ASSUME UNCHANGED <<body, environ, stream, hungry, frames>>, ~Carried(event')
      PROVE  BodyInv'
  BY <1>0, <1>e, BodyEnds
\* A step that goes on with a call, with the frames where they are.
<1>f. ASSUME event.do = "call", event'.do = "call", event'.environ = event.environ,
             UNCHANGED <<body, environ, hungry>>, Len(frames') = Len(frames),
             \A i \in 1..Len(frames) :
                 frames'[i].at = frames[i].at /\ frames'[i].environ = frames[i].environ,
             body # "none" => LeftFor(event', environ, stream'),
             \A x \in Environs : stream'[x].full = stream[x].full
      PROVE  BodyInv'
  <2>1. Carried(event) /\ Carried(event')
    BY <1>0, <1>f, Kinds
  <2>2. Orderly(Line(frames', event'), environ)
    <3> DEFINE line == Line(frames, event)
               after == Line(frames', event')
    <3>1. /\ line \in Seq(Environs) /\ Len(line) = Len(frames) + 1
          /\ \A i \in 1..Len(frames) : line[i] = frames[i].environ
          /\ line[Len(frames) + 1] = event.environ
      BY <1>0, <2>1, LineIs
    <3>2. /\ after \in Seq(Environs) /\ Len(after) = Len(frames) + 1
          /\ \A i \in 1..Len(frames) : after[i] = frames'[i].environ
          /\ after[Len(frames) + 1] = event'.environ
      BY <1>0, <1>f, <2>1, LineIs
    <3>3. Orderly(line, environ)
      BY <1>0
    <3> HIDE DEF line, after
    <3>4. ASSUME NEW i \in 1..Len(after) PROVE after[i] = line[i]
      <4>1. i = Len(frames) + 1 \/ i \in 1..Len(frames)
        BY <1>0, <3>2
      <4> QED BY <1>f, <3>1, <3>2, <4>1
    <3>5. Len(after) <= Len(line)
      BY <1>0, <3>1, <3>2
    <3>6. Orderly(after, environ)
      BY <3>1, <3>2, <3>3, <3>4, <3>5, OrderlyFront
    <3> QED BY <3>6 DEF after
  <2>3. ASSUME body # "none" PROVE LeftBelow(frames', environ, stream')
    <3>1. \A i \in 1..Len(frames) : environ[frames[i].environ].input \in Environs
      <4>1. \A i \in 1..Len(frames) : environ[frames[i].environ] \in Dicts
        BY <1>0, Frame0
      <4> QED BY <4>1 DEF Dicts
    <3> QED BY <1>f, <2>3, <3>1 DEF BodyInv, LeftBelow
  <2> QED BY <1>0, <1>f, <2>2, <2>3, BodyMade
<1> HIDE DEF Calls, Returns, Raises, Forwards, OwnForwarding, Stacks, Dicts, Streams
<1>1. ASSUME NEW kind \in {"recursive", "forward"}, CallWrapper(kind) PROVE BodyInv'
  <2>1. /\ Called(kind) /\ frames' = Append(frames, Frame(kind))
        /\ event' = Call(event.layer + 1, event.environ)
        /\ UNCHANGED <<body, environ, stream, hungry>>
    BY <1>1 DEF CallWrapper, requestVars, environVars
  <2>2. event \in Calls /\ event.environ \in Environs /\ event.layer \in Nat \ {0}
        /\ event.layer + 1 \in Nat \ {0}
    BY <1>a, <2>1 DEF Called
  <2>3. event' \in Calls /\ event'.environ = event.environ
    BY <2>1, <2>2, Made
  <2>4. Frame(kind) \in Wrappers \cup Keepers /\ Frame(kind).environ = event.environ
        /\ Frame(kind).at # "cascade"
    BY <2>2 DEF Frame, Wrappers, Layers
  <2>5. ~event.read
    BY <2>1, <2>2 DEF Called, Typed
  <2> QED BY <2>1, <2>2, <2>3, <2>4, <2>5, BodyCalls
<1>2. CASE CallCascade
  BY <1>2, BodyCascade
<1>3. CASE ReadBody
  <2> DEFINE in == environ[event.environ].input
  <2>1. /\ event \in Calls /\ event.do = "call" /\ event.environ \in Environs /\ body # "none" /\ ~event.read
        /\ stream' = [stream EXCEPT ![in].read = TRUE] /\ event' = [event EXCEPT !.read = TRUE]
        /\ UNCHANGED <<body, environ, frames>>
        /\ hungry' = (hungry \/ (~Forwarded(event.environ) /\ (stream[in].read \/ ~stream[in].full)))
    BY <1>3, <1>a DEF ReadBody, InApp, requestVars
  <2>2. event'.do = "call" /\ event'.environ = event.environ /\ event'.read
    BY <2>1 DEF Calls
  <2>3. ~Forwarded(event.environ) => stream[in].full /\ ~stream[in].read
    BY <2>1 DEF BodyInv, LeftFor, Forwarded, OnForward
  <2>4. hungry' = hungry
    BY <1>0, <2>1, <2>3
  <2>5. \A x \in Environs : stream'[x].full = stream[x].full
    <3>1. stream \in [Environs -> Streams]
      BY DEF Typed
    <3>2. \A s \in Streams : [s EXCEPT !.read = TRUE].full = s.full
      BY DEF Streams
    <3> HIDE DEF in
    <3>3. stream' = [stream EXCEPT ![in] = [stream[in] EXCEPT !.read = TRUE]]
      BY <2>1
    <3>4. \A x \in Environs : x # in => stream'[x] = stream[x]
      BY <3>1, <3>3
    <3>5. in \in Environs => stream'[in] = [stream[in] EXCEPT !.read = TRUE] /\ stream[in] \in Streams
      BY <3>1, <3>3
    <3> QED BY <3>2, <3>4, <3>5
  <2>6. LeftFor(event', environ, stream')
    BY <2>2 DEF LeftFor
  <2> QED BY <1>f, <2>1, <2>2, <2>4, <2>5, <2>6
<1>4. ASSUME NEW s \in Status, StartResponse(s) PROVE BodyInv'
  <2>1. /\ event \in Calls /\ event.do = "call" /\ frames' = Noted(frames, s) /\ s \in Codes
        /\ UNCHANGED <<body, environ, stream, hungry>>
        /\ event' = Raise("error") \/ event' = [event EXCEPT !.started = TRUE]
    BY <1>4, <1>a DEF StartResponse, InApp, requestVars, environVars, Codes
  <2>2. /\ Len(frames') = Len(frames)
        /\ \A i \in 1..Len(frames) :
               frames'[i].at = frames[i].at /\ frames'[i].environ = frames[i].environ
    BY <1>0, <2>1, NotedFrames
  <2>3. CASE event' = Raise("error")
    <3>1. Len(frames') <= Len(frames) /\ ~Carried(event')
      BY <1>0, <1>b, <2>2, <2>3
    <3> QED BY <2>1, <2>2, <3>1, BodyEnds
  <2>4. CASE event' = [event EXCEPT !.started = TRUE]
    <3>1. event'.do = "call" /\ event'.environ = event.environ /\ event'.read = event.read
      BY <2>1, <2>4 DEF Calls
    <3>2. body # "none" => LeftFor(event', environ, stream')
      BY <2>1, <3>1 DEF BodyInv, LeftFor
    <3> QED BY <1>f, <2>1, <2>2, <3>1, <3>2
  <2> QED BY <2>1, <2>3, <2>4
<1>5. CASE AppReturns
  BY <1>5, <1>b, <1>e DEF AppReturns, requestVars, environVars
<1>6. ASSUME NEW s \in Status, AppReturnsLazily(s) PROVE BodyInv'
  <2>1. UNCHANGED <<body, environ, stream, hungry, frames>>
        /\ event' = [Return EXCEPT !.late = s, !.to = frames]
    BY <1>6 DEF AppReturnsLazily, requestVars, environVars
  <2>2. ~Carried(event')
    BY <2>1 DEF Return, Carried
  <2> QED BY <1>e, <2>1, <2>2
<1>7. ASSUME NEW what \in {"http", "error"}, AppRaises(what) PROVE BodyInv'
  BY <1>7, <1>b, <1>e DEF AppRaises, requestVars, environVars
<1>8. ASSUME NEW p \in Path, AppForwards(p) PROVE BodyInv'
  BY <1>8, <1>c, <1>e DEF AppForwards, requestVars, environVars
<1>9. ASSUME NEW p \in Path, AppForwardsEnviron(p) PROVE BodyInv'
  BY <1>9, BodyOwnForward
<1>10. CASE Pass
  <2>1. frames # <<>> /\ frames' = Pop /\ UNCHANGED <<body, event, environ, stream, hungry>>
        /\ event.do # "call"
    BY <1>10 DEF Pass, Returned, Raised, requestVars, environVars
  <2>2. CASE ~Carried(event)
    BY <1>d, <2>1, <2>2
  <2>3. CASE Carried(event)
    <3> DEFINE line == Line(frames, event)
               after == Line(Pop, event)
               n == Len(frames)
    <3>1. /\ n \in Nat \ {0} /\ Pop \in Stacks /\ Len(Pop) = n - 1
          /\ \A i \in 1..Len(Pop) : Pop[i] = frames[i]
      BY <1>0, <2>1, PopTyped
    <3>2. /\ line \in Seq(Environs) /\ Len(line) = n + 1 /\ line[n + 1] = event.environ
          /\ \A i \in 1..n : line[i] = frames[i].environ
      BY <1>0, <2>3, LineIs
    <3>3. /\ after \in Seq(Environs) /\ Len(after) = Len(Pop) + 1 /\ after[Len(Pop) + 1] = event.environ
          /\ \A i \in 1..Len(Pop) : after[i] = Pop[i].environ
      BY <1>0, <2>3, <3>1, LineIs
    <3>4. Orderly(line, environ)
      BY <1>0
    <3> HIDE DEF line, after, n
    <3>5. Len(after) = n /\ after[n] = line[n + 1]
      BY <3>1, <3>2, <3>3
    <3>6. \A i \in 1..(n - 1) : after[i] = line[i]
      BY <3>1, <3>2, <3>3
    <3>7. event.do = "raise" /\ OnForward(environ, event.environ)
      <4>1. event.do = "raise"
        BY <1>0, <2>1, <2>3, Kinds
      <4> QED BY <2>3, <4>1 DEF BodyInv
    <3>8. OnForward(environ, after[n])
      BY <3>2, <3>5, <3>7
    <3>9. Orderly(after, environ)
      BY <3>1, <3>2, <3>3, <3>4, <3>5, <3>6, <3>8, OrderlySkip
    <3>10. LeftFor(event, environ, stream)
      BY <2>1 DEF LeftFor
    <3>11. ASSUME body # "none" PROVE LeftBelow(Pop, environ, stream)
      <4>1. \A i \in 1..Len(Pop) : i \in 1..Len(frames)
        BY <3>1 DEF n
      <4> QED BY <3>1, <3>11, <4>1 DEF BodyInv, LeftBelow
    <3> QED BY <1>0, <2>1, <3>7, <3>9, <3>10, <3>11, BodyMade DEF after
  <2> QED BY <2>2, <2>3
<1>11. CASE RaiseForward
  BY <1>11, <1>c, <1>d DEF RaiseForward, Returned, requestVars, environVars
<1>12. CASE ForwardRequest
  BY <1>12, BodyForwards
<1>13. CASE ForwardingLoop
  BY <1>13, <1>b, <1>d DEF ForwardingLoop, Raised, requestVars, environVars
<1>14. CASE ErrorPageNotFetched
  <2> DEFINE n == Noted(frames, 500)
  <2>1. /\ frames # <<>> /\ UNCHANGED <<body, environ, stream, hungry>>
        /\ event' = Return /\ frames' = SubSeq(n, 1, Len(frames) - 1)
    BY <1>14 DEF ErrorPageNotFetched, Raised, requestVars, environVars
  <2>2. 500 \in Codes
    BY DEF Codes
  <2>3. /\ n \in Stacks /\ Len(n) = Len(frames)
        /\ \A i \in 1..Len(frames) : n[i].at = frames[i].at /\ n[i].environ = frames[i].environ
    BY <1>0, <2>2, NotedFrames
  <2>4. Len(frames) \in Nat \ {0}
    BY <1>0, <2>1, PopTyped
  <2> HIDE DEF n
  <2>5. n # <<>>
    BY <2>3, <2>4
  <2>6. Len(frames') = Len(frames) - 1 /\ \A i \in 1..Len(frames') : frames'[i] = n[i]
    BY <2>1, <2>3, <2>5, Popped
  <2>7. /\ Len(frames') <= Len(frames)
        /\ \A i \in 1..Len(frames') :
               frames'[i].at = frames[i].at /\ frames'[i].environ = frames[i].environ
    <3>1. \A i \in 1..Len(frames') : i \in 1..Len(frames)
      BY <2>4, <2>6
    <3> QED BY <2>3, <2>4, <2>6, <3>1
  <2> QED BY <1>b, <2>1, <2>7, BodyEnds
<1>15. CASE NextApplication
  <2> DEFINE e == Top.environ
             in == environ[e].input
             n == Len(frames)
             line == Line(frames, event)
             after == Line(Pop, event')
  <2>1. /\ frames # <<>> /\ frames' = Pop /\ UNCHANGED <<body, environ, hungry>> /\ Top.at = "cascade"
        /\ event' = Call(Len(chain) + 1, e)
        /\ stream' = IF body = "none" THEN stream ELSE [stream EXCEPT ![in].read = FALSE]
    BY <1>15 DEF NextApplication, LastApplication, Returned, Raised, requestVars
  <2>2. /\ n \in Nat \ {0} /\ Top = frames[n] /\ e \in Environs /\ Pop \in Stacks /\ Len(Pop) = n - 1
        /\ \A i \in 1..Len(Pop) : Pop[i] = frames[i]
    BY <1>0, <2>1, PopTyped
  <2>3. event' \in Calls /\ event'.do = "call" /\ event'.environ = e /\ Carried(event')
    <3>1. Len(chain) + 1 \in Nat \ {0}
      BY TypedParts
    <3>2. event' \in Calls /\ event'.do = "call" /\ event'.environ = e
      BY <2>1, <2>2, <3>1, Made
    <3> QED BY <3>2, Kinds
  <2>4. /\ line \in Seq(Environs) /\ Len(line) >= n /\ \A i \in 1..n : line[i] = frames[i].environ
    BY <1>0, <2>2, LineIs
  <2>5. /\ after \in Seq(Environs) /\ Len(after) = Len(Pop) + 1 /\ after[Len(Pop) + 1] = e
        /\ \A i \in 1..Len(Pop) : after[i] = Pop[i].environ
    BY <1>0, <2>2, <2>3, LineIs
  <2>6. Orderly(line, environ)
    BY <1>0
  <2>7. environ[e] \in Dicts /\ in \in Environs
    BY <1>0, <2>2 DEF Dicts
  <2> HIDE DEF line, after
  <2>8. Orderly(after, environ)
    <3>1. ASSUME NEW i \in 1..Len(after) PROVE after[i] = line[i]
      <4>1. i = n \/ i \in 1..Len(Pop)
        BY <2>2, <2>5
      <4>2. after[n] = e /\ line[n] = e
        BY <2>2, <2>4, <2>5
      <4> QED BY <2>2, <2>4, <2>5, <4>1, <4>2
    <3>2. Len(after) <= Len(line)
      BY <2>2, <2>4, <2>5
    <3> QED BY <2>4, <2>5, <2>6, <3>1, <3>2, OrderlyFront
  <2> HIDE DEF in, e
  <2>9. body # "none" => stream'[in].read = FALSE /\ \A x \in Environs : stream'[x].full = stream[x].full
    <3>1. stream \in [Environs -> Streams]
      BY DEF Typed
    <3>2. \A s \in Streams : [s EXCEPT !.read = FALSE].full = s.full /\ [s EXCEPT !.read = FALSE].read = FALSE
      BY DEF Streams
    <3>3. body # "none" => stream' = [stream EXCEPT ![in] = [stream[in] EXCEPT !.read = FALSE]]
      BY <2>1
    <3>4. body # "none" => /\ \A x \in Environs : x # in => stream'[x] = stream[x]
                           /\ stream'[in] = [stream[in] EXCEPT !.read = FALSE]
      BY <2>7, <3>1, <3>3
    <3>5. stream[in] \in Streams
      BY <2>7, <3>1
    <3> QED BY <3>2, <3>4, <3>5
  <2>10. body # "none" => LeftFor(event', environ, stream')
    <3>1. body # "none" /\ ~OnForward(environ, e) => stream[in].full
      <4>1. n \in 1..Len(frames)
        BY <2>2
      <4> QED BY <2>1, <2>2, <4>1 DEF BodyInv, LeftBelow, in, e
    <3> QED BY <2>3, <2>7, <2>9, <3>1 DEF LeftFor, in
  <2>11. body # "none" => LeftBelow(Pop, environ, stream')
    <3>1. \A i \in 1..Len(Pop) : i \in 1..Len(frames) /\ environ[frames[i].environ] \in Dicts
      BY <1>0, <2>2, Frame0
    <3>2. \A i \in 1..Len(Pop) : environ[frames[i].environ].input \in Environs
      BY <3>1 DEF Dicts
    <3> QED BY <2>2, <2>9, <3>1, <3>2 DEF BodyInv, LeftBelow
  <2> QED BY <1>0, <2>1, <2>3, <2>8, <2>10, <2>11, BodyMade DEF after
<1>16. CASE ExhaustingFails
  BY <1>16, <1>b, <1>d DEF ExhaustingFails, Returned, requestVars, environVars
<1>17. CASE Served \/ Failed \/ UNCHANGED dispatchVars
  <2>1. UNCHANGED <<body, environ, stream, frames, event, hungry>>
    BY <1>17 DEF Served, Failed, dispatchVars, requestVars, environVars
  <2> QED BY <2>1, BodyMade DEF BodyInv
<1> QED
  BY <1>1, <1>2, <1>3, <1>4, <1>5, <1>6, <1>7, <1>8, <1>9, <1>10, <1>11, <1>12, <1>13,
     <1>14, <1>15, <1>16, <1>17 DEF DispatchNext, CallRecursive, CallForward

\* In whatever order the middlewares are, cascades in cascades among them, an application
\* that was not called for a forwarded request finds the body whole, however much of it
\* those tried before have read (cascade.py 86-121).
THEOREM WholeBodies ==
    ASSUME Assumed PROVE DispatchSpec => []BodyIsWhole
<1>1. DispatchInit => Typed /\ BodyInv
  BY InitTyped, BodyInit
<1>2. Typed /\ BodyInv /\ [DispatchNext]_dispatchVars => (Typed /\ BodyInv)'
  BY StepTyped, BodyStep
<1>3. BodyInv => BodyIsWhole
  BY DEF BodyInv, BodyIsWhole
<1> QED BY <1>1, <1>2, <1>3, PTL DEF DispatchSpec
=============================================================================
