----------------------------- MODULE RegistryProofs -----------------------------
(***************************************************************************)
(* Theorems about Registry, for any number of threads, requests, proxies   *)
(* and managers.                                                           *)
(***************************************************************************)
EXTENDS Registry, FiniteSetTheorems, SequenceTheorems, WellFoundedInduction, TLAPS

\* The numbers of a list go up, and are of dictionaries of the request.
Rising(list, n) == /\ \A i \in DOMAIN list : list[i] \in 1..n
                   /\ \A i, j \in DOMAIN list : i < j => list[i] < list[j]

ListsOK ==
    \A r \in Request : /\ Rising(live[r], Len(context[r]))
                       /\ Rising(saved[r], Len(context[r]))

Served(r) == \E t \in Thread : serving[t] = r

\* A request is served by one thread, then it is kept for debugging or forgotten.
ServingOK ==
    /\ \A t, u \in Thread : serving[t] = serving[u] /\ serving[t] # None => t = u
    /\ \A r \in debugInfos : ~Served(r)
    /\ restored \subseteq debugInfos
    /\ \A r \in restored : saved[r] # <<>>
    /\ \A r \in Request \ debugInfos :
          ~Served(r) => /\ live[r] = <<>> /\ context[r] = <<>> /\ saved[r] = <<>>
                        /\ atRaise[r] = Nothing /\ r \notin caught

\* A manager that is to clean up has its context, unless what passes by it is
\* not an Exception.
FrameOK(t) ==
    /\ pending[t] => mode[t] = "return"
    /\ raised[t] # "none" <=> mode[t] = "raise"
    /\ serving[t] = None => frames[t] = <<>>
    /\ serving[t] # None =>
          LET n == Len(live[serving[t]])
          IN  IF raised[t] = "base" THEN n >= Len(frames[t])
              ELSE n = Len(frames[t]) + IF pending[t] THEN 1 ELSE 0

FramesOK == \A t \in Thread : FrameOK(t)

\* The methods are swapped before the manager that saved the registry goes on.
SavingOK ==
    \A t \in Thread :
        Saving(t) => /\ mode[t] = "raise" /\ frames[t] # <<>>
                     /\ saved[serving[t]] # <<>>

\* The last of the saved contexts with the proxy holds what it stood for.
Kept(r, p) ==
    \E i \in Holding(r, p) : /\ \A j \in Holding(r, p) : j <= i
                             /\ context[r][saved[r][i]][p] = atRaise[r][p]

RaisedOK ==
    \A t \in Thread : serving[t] # None =>
        LET r == serving[t] IN
        /\ mode[t] # "raise" => /\ atRaise[r] = Nothing
                                /\ saved[r] # <<>> => r \in caught
        /\ saved[r] = <<>> /\ atRaise[r] # Nothing => t \notin leaky
        /\ raised[t] = "unexpected" /\ debugging =>
              \A p \in Proxy : atRaise[r][p] # None =>
                  IF saved[r] = <<>> THEN Top(stack[t][p]) = atRaise[r][p]
                  ELSE Kept(r, p) /\ p \in swapped \cup todo[t] \cup {checked[t]}

DebugOK ==
    \A r \in debugInfos, p \in Proxy :
        saved[r] # <<>> /\ atRaise[r][p] # None => Kept(r, p) /\ p \in swapped

RegistryInv ==
    /\ TypeOK /\ ListsOK /\ ServingOK /\ FramesOK /\ SavingOK
    /\ StacksMirrorRegistry /\ RaisedOK /\ DebugOK

-----------------------------------------------------------------------------
(* Objects that are held and the stack they are on.                        *)

Above(objects, i) == {j \in Held(objects) : i <= j}

\* What a context holds, or None.
Slot == Obj \cup {None}

LEMMA HeldFinite ==
  ASSUME NEW n \in Nat, NEW v \in [1..n -> Slot]
  PROVE  /\ Held(v) \subseteq 1..n
         /\ IsFiniteSet(Held(v)) /\ Cardinality(Held(v)) \in Nat
         /\ \A i \in 1..n : IsFiniteSet(Above(v, i)) /\ Cardinality(Above(v, i)) \in Nat
<1>1. Held(v) \subseteq 1..n
  BY DEF Held
<1>2. IsFiniteSet(1..n)
  BY FS_Interval
<1>3. IsFiniteSet(Held(v))
  BY <1>1, <1>2, FS_Subset
<1>4. \A i \in 1..n : Above(v, i) \subseteq Held(v)
  BY DEF Above
<1>5. \A i \in 1..n : IsFiniteSet(Above(v, i))
  BY <1>3, <1>4, FS_Subset
<1>6. QED
  BY <1>1, <1>3, <1>5, FS_CardinalityType

\* OnTop with the depth named.
LEMMA OnTopIs ==
  ASSUME NEW n \in Nat, NEW v \in [1..n -> Slot], NEW s
  PROVE  OnTop(v, s) <=> \A i \in Held(v) :
            /\ Cardinality(Above(v, i)) <= Len(s)
            /\ s[Len(s) + 1 - Cardinality(Above(v, i))] = v[i]
BY DEF OnTop, Above

\* Two registries that hold the same are on top of the same stacks.
LEMMA SameHeld ==
  ASSUME NEW n \in Nat, NEW v \in [1..n -> Slot],
         NEW m \in Nat, NEW w \in [1..m -> Slot], NEW s,
         Held(w) = Held(v), \A i \in Held(v) : w[i] = v[i],
         OnTop(v, s)
  PROVE  OnTop(w, s)
BY DEF OnTop

LEMMA FrontOf ==
  ASSUME NEW S, NEW s \in Seq(S), s # <<>>
  PROVE  /\ Front(s) \in Seq(S) /\ Len(Front(s)) = Len(s) - 1
         /\ \A k \in 1..(Len(s) - 1) : Front(s)[k] = s[k]
<1>1. Len(s) \in Nat \ {0} /\ \A i \in 1..Len(s) : s[i] \in S
  OBVIOUS
<1> DEFINE m == Len(s) - 1
<1>2. m \in Nat /\ \A i \in 1..m : s[i] \in S
  BY <1>1
<1>3. /\ SubSeq(s, 1, m) \in Seq(S)
      /\ Len(SubSeq(s, 1, m)) = IF 1 <= m THEN m - 1 + 1 ELSE 0
      /\ \A i \in 1..(m - 1 + 1) : SubSeq(s, 1, m)[i] = s[1 + i - 1]
  BY <1>2, SubSeqProperties
<1>4. Front(s) = SubSeq(s, 1, m)
  BY DEF Front
<1> HIDE DEF m
<1>5. Len(Front(s)) = m /\ \A k \in 1..m : Front(s)[k] = s[k]
  BY <1>2, <1>3, <1>4
<1>6. QED
  BY <1>3, <1>4, <1>5 DEF m

\* An object is pushed for the last context, which held none.
LEMMA HeldPushed ==
  ASSUME NEW n \in Nat \ {0}, NEW v \in [1..n -> Slot], v[n] = None,
         NEW o \in Obj, NEW w, w = [v EXCEPT ![n] = o],
         NEW s \in Seq(Obj), OnTop(v, s)
  PROVE  /\ OnTop(w, Append(s, o))
         /\ Cardinality(Held(w)) = Cardinality(Held(v)) + 1
<1>1. w \in [1..n -> Slot] /\ o # None
  BY RegistryAssumption DEF Slot
<1>2. Held(w) = Held(v) \cup {n} /\ n \notin Held(v) /\ Held(v) \subseteq 1..n
  BY <1>1 DEF Held
<1>3. Cardinality(Held(w)) = Cardinality(Held(v)) + 1
  BY <1>2, HeldFinite, FS_AddElement
<1>4. \A i \in Held(v) : Above(w, i) = Above(v, i) \cup {n} /\ n \notin Above(v, i)
  <2>1. \A i \in Held(v) : i \in Int /\ i <= n /\ i # n
    BY <1>2
  <2>2. QED
    BY <1>2, <2>1 DEF Above
<1>5. ASSUME NEW i \in Held(v)
      PROVE  Cardinality(Above(w, i)) = Cardinality(Above(v, i)) + 1
  <2>1. IsFiniteSet(Above(v, i))
    BY <1>2, HeldFinite
  <2>2. QED
    BY <1>4, <2>1, FS_AddElement
<1>6. Above(w, n) = {n}
  <2>1. n <= n /\ \A i \in Held(v) : ~ (n <= i)
    BY <1>2
  <2>2. QED
    BY <1>2, <2>1 DEF Above
<1>7. Cardinality(Above(w, n)) = 1
  BY <1>6, FS_Singleton
<1>8. ASSUME NEW i \in Held(v)
      PROVE  /\ Cardinality(Above(w, i)) <= Len(Append(s, o))
             /\ Append(s, o)[Len(Append(s, o)) + 1 - Cardinality(Above(w, i))] = w[i]
  <2>1. PICK c \in Nat : c = Cardinality(Above(v, i))
    BY HeldFinite
  <2>2. c <= Len(s) /\ s[Len(s) + 1 - c] = v[i]
    BY <2>1, OnTopIs
  <2>3. c # 0
    <3>1. i \in Above(v, i) /\ i \in 1..n
      BY HeldFinite DEF Above
    <3>2. QED
      BY <2>1, <3>1, HeldFinite, FS_EmptySet
  <2>4. w[i] = v[i]
    BY <1>2, HeldFinite
  <2>5. Cardinality(Above(w, i)) = c + 1
    BY <1>5, <2>1
  <2>6. Append(s, o)[Len(s) + 1 - c] = s[Len(s) + 1 - c]
    BY <2>2, <2>3
  <2>7. QED
    BY <2>2, <2>4, <2>5, <2>6
<1>9. /\ Cardinality(Above(w, n)) <= Len(Append(s, o))
      /\ Append(s, o)[Len(Append(s, o)) + 1 - Cardinality(Above(w, n))] = w[n]
  BY <1>1, <1>7
<1>10. OnTop(w, Append(s, o))
  BY <1>1, <1>2, <1>8, <1>9, OnTopIs
<1>11. QED
  BY <1>3, <1>10

\* The last context holds the last of the stack.
LEMMA LastHeld ==
  ASSUME NEW n \in Nat \ {0}, NEW v \in [1..n -> Slot], v[n] # None,
         NEW s \in Seq(Obj), OnTop(v, s)
  PROVE  /\ s # <<>> /\ Last(s) = v[n]
         /\ Cardinality(Above(v, n)) = 1
         /\ \A i \in Held(v) : i # n => Cardinality(Above(v, i)) \in Nat
                                        /\ Cardinality(Above(v, i)) > 1
<1>1. n \in Held(v) /\ Held(v) \subseteq 1..n
  BY HeldFinite DEF Held
<1>2. Above(v, n) = {n}
  BY <1>1 DEF Above
<1>3. Cardinality(Above(v, n)) = 1
  BY <1>2, FS_Singleton
<1>4. 1 <= Len(s) /\ s[Len(s) + 1 - 1] = v[n]
  BY <1>1, <1>3, OnTopIs
<1>5. ASSUME NEW i \in Held(v), i # n
      PROVE  Cardinality(Above(v, i)) \in Nat /\ Cardinality(Above(v, i)) > 1
  <2>1. i \in Above(v, i) /\ n \in Above(v, i) /\ i \in 1..n
    BY <1>1 DEF Above
  <2>2. IsFiniteSet(Above(v, i)) /\ Cardinality(Above(v, i)) \in Nat
    BY <2>1, HeldFinite
  <2>3. Cardinality(Above(v, i)) # 0
    BY <2>1, <2>2, FS_EmptySet
  <2>4. Cardinality(Above(v, i)) # 1
    BY <1>5, <2>1, <2>2, FS_Singleton
  <2>5. QED
    BY <2>2, <2>3, <2>4
<1>6. QED
  BY <1>3, <1>4, <1>5 DEF Last

\* An object takes the place of the one of the last context.
LEMMA HeldReplaced ==
  ASSUME NEW n \in Nat \ {0}, NEW v \in [1..n -> Slot], v[n] # None,
         NEW o \in Obj, NEW w, w = [v EXCEPT ![n] = o],
         NEW s \in Seq(Obj), OnTop(v, s)
  PROVE  /\ OnTop(w, Append(Front(s), o))
         /\ Held(w) = Held(v)
         /\ Len(Append(Front(s), o)) = Len(s)
<1>1. w \in [1..n -> Slot] /\ o # None
  BY RegistryAssumption DEF Slot
<1>2. Held(w) = Held(v)
  BY <1>1 DEF Held
<1> DEFINE z == Append(Front(s), o)
<1>3. s # <<>>
  BY LastHeld
<1>4. /\ Len(z) = Len(s) /\ z[Len(s)] = o
      /\ \A k \in 1..(Len(s) - 1) : z[k] = s[k]
  BY <1>3, FrontOf
<1>5. ASSUME NEW i \in Held(w)
      PROVE  /\ Cardinality(Above(w, i)) <= Len(z)
             /\ z[Len(z) + 1 - Cardinality(Above(w, i))] = w[i]
  <2>1. Above(w, i) = Above(v, i) /\ i \in Held(v) /\ i \in 1..n
    BY <1>2, HeldFinite DEF Above
  <2>2. PICK c \in Nat : c = Cardinality(Above(v, i))
    BY <2>1, HeldFinite
  <2>3. c <= Len(s) /\ s[Len(s) + 1 - c] = v[i]
    BY <2>1, <2>2, OnTopIs
  <2>4. CASE i = n
    <3>1. c = 1
      BY <2>2, <2>4, LastHeld
    <3>2. Len(z) + 1 - 1 = Len(s) /\ w[i] = o
      BY <1>4, <2>1, <2>4
    <3>3. QED
      BY <1>4, <2>1, <2>2, <2>3, <3>1, <3>2
  <2>5. CASE i # n
    <3>1. c > 1
      BY <2>1, <2>2, <2>5, LastHeld
    <3>2. Len(s) + 1 - c \in 1..(Len(s) - 1)
      BY <2>3, <3>1
    <3>3. w[i] = v[i]
      BY <2>1, <2>5
    <3>4. QED
      BY <1>4, <2>1, <2>2, <2>3, <3>2, <3>3
  <2>6. QED
    BY <2>4, <2>5
<1>6. OnTop(w, z)
  BY <1>1, <1>5, OnTopIs
<1>7. QED
  BY <1>2, <1>4, <1>6

\* The last context goes, and what it holds.
LEMMA HeldPopped ==
  ASSUME NEW n \in Nat \ {0}, NEW v \in [1..n -> Slot],
         NEW w \in [1..(n - 1) -> Slot], \A i \in 1..(n - 1) : w[i] = v[i],
         NEW s \in Seq(Obj), OnTop(v, s),
         NEW z, v[n] = None => z = s, v[n] # None => z = Front(s)
  PROVE  /\ OnTop(w, z) /\ z \in Seq(Obj)
         /\ Len(s) = Cardinality(Held(v)) => Len(z) = Cardinality(Held(w))
<1>1. n - 1 \in Nat /\ 1..(n - 1) \subseteq 1..n /\ n \notin 1..(n - 1)
      /\ \A i \in 1..n : i # n => i \in 1..(n - 1)
  OBVIOUS
<1>2. CASE v[n] = None
  <2>1. Held(w) = Held(v)
    BY <1>1, <1>2 DEF Held
  <2>2. \A i \in Held(v) : w[i] = v[i]
    BY <2>1 DEF Held
  <2>3. QED
    BY <1>1, <1>2, <2>1, <2>2, SameHeld
<1>3. CASE v[n] # None
  <2>1. Held(w) = Held(v) \ {n} /\ n \in Held(v)
    BY <1>1, <1>3 DEF Held
  <2>a. IsFiniteSet(Held(v)) /\ Cardinality(Held(v)) \in Nat
    BY HeldFinite
  <2>2. Cardinality(Held(w)) = Cardinality(Held(v)) - 1
    BY <2>1, <2>a, FS_RemoveElement
  <2>3. s # <<>> /\ z = Front(s)
    BY <1>3, LastHeld
  <2>4. /\ Len(z) = Len(s) - 1 /\ z \in Seq(Obj)
        /\ \A k \in 1..(Len(s) - 1) : z[k] = s[k]
    BY <2>3, FrontOf
  <2>5. ASSUME NEW i \in Held(w)
        PROVE  /\ Cardinality(Above(w, i)) <= Len(z)
               /\ z[Len(z) + 1 - Cardinality(Above(w, i))] = w[i]
    <3>1. i \in Held(v) /\ i \in 1..(n - 1) /\ i # n
      BY <1>1, <2>1, HeldFinite
    <3>2. Above(w, i) = Above(v, i) \ {n} /\ n \in Above(v, i)
      BY <1>1, <2>1, <3>1 DEF Above
    <3>a. IsFiniteSet(Above(v, i)) /\ Cardinality(Above(v, i)) \in Nat
      BY <1>1, <3>1, HeldFinite
    <3>c. Cardinality(Above(v, i) \ {n}) = Cardinality(Above(v, i)) - 1
      BY <3>2, <3>a, FS_RemoveElement
    <3>3. Cardinality(Above(w, i)) = Cardinality(Above(v, i)) - 1
      BY <3>2, <3>c
    <3>4. PICK c \in Nat : c = Cardinality(Above(v, i))
      BY <1>1, <3>1, HeldFinite
    <3>5. c <= Len(s) /\ s[Len(s) + 1 - c] = v[i] /\ c > 1
      BY <1>3, <3>1, <3>4, OnTopIs, LastHeld
    <3>6. Len(s) + 1 - c \in 1..(Len(s) - 1)
      BY <3>5
    <3>b. Len(s) \in Nat /\ Len(z) = Len(s) - 1
      BY <2>4
    <3>7. Len(z) + 1 - (c - 1) = Len(s) + 1 - c /\ c - 1 <= Len(z)
      BY <3>5, <3>b
    <3>8. w[i] = v[i] /\ Cardinality(Above(w, i)) = c - 1
      BY <3>1, <3>3, <3>4
    <3>9. QED
      BY <2>4, <3>5, <3>6, <3>7, <3>8
  <2>6. OnTop(w, z)
    BY <1>1, <2>5, OnTopIs
  <2>7. Cardinality(Held(v)) \in Nat
    BY HeldFinite
  <2>8. QED
    BY <2>2, <2>4, <2>6, <2>7
<1>4. QED
  BY <1>2, <1>3

-----------------------------------------------------------------------------
(* Types.                                                                  *)

\* What the code of a thread does in one step.
Acts(t) ==
    \/ ManagerStep(t)
    \/ \E r \in Request : Start(t, r) \/ DebugBegin(t, r)
    \/ \E p \in Proxy : EnableCheck(t, p)
    \/ \E p \in Proxy, o \in Obj : Register(t, p, o) \/ DebugRegister(t, p, o)
    \/ \E kind \in {"expected", "unexpected", "base"} : Raise(t, kind)

LEMMA FrontStays ==
  ASSUME NEW S, NEW s \in Seq(S)
  PROVE  Front(s) \in Seq(S)
<1>1. CASE s = <<>>
  <2>1. \A i \in 1..(0 - 1) : s[i] \in S
    OBVIOUS
  <2>2. Len(s) = 0 /\ SubSeq(s, 1, 0 - 1) \in Seq(S)
    BY <1>1, <2>1, SubSeqProperties
  <2>3. QED
    BY <2>2 DEF Front
<1>2. CASE s # <<>>
  <2>1. Len(s) - 1 \in Int /\ \A i \in 1..(Len(s) - 1) : s[i] \in S
    BY <1>2
  <2>2. QED
    BY <2>1, SubSeqProperties DEF Front
<1>3. QED
  BY <1>1, <1>2

\* The types of what a thread does.
Labels ==
    /\ debugging \in BOOLEAN
    /\ mode \in [Thread -> {"idle", "app", "return", "raise", "debug"}]
    /\ serving \in [Thread -> Request \cup {None}]
    /\ pending \in [Thread -> BOOLEAN]
    /\ raised \in [Thread -> {"none", "expected", "unexpected", "base"}]
    /\ restored \in SUBSET Request
    /\ restoring \in [Thread -> Request \cup {None}]
    /\ swapped \in SUBSET Proxy /\ selfCalling \in SUBSET Proxy
    /\ todo \in [Thread -> SUBSET Proxy]
    /\ checked \in [Thread -> Proxy \cup {None}]
    /\ debugInfos \in SUBSET Request /\ caught \in SUBSET Request
    /\ leaky \in SUBSET Thread
    /\ \A t \in Thread : /\ restoring[t] # None <=> mode[t] = "debug"
                         /\ serving[t] = None <=> mode[t] \in {"idle", "debug"}

\* The types of its registry and its stacks.
Dictionary == [Proxy -> Slot]

Lists ==
    /\ frames \in [Thread -> Seq({"plain", "stream"})]
    /\ context \in [Request -> Seq(Dictionary)]
    /\ live \in [Request -> Seq(Nat)] /\ saved \in [Request -> Seq(Nat)]
    /\ stack \in [Thread -> [Proxy -> Seq(Obj)]]
    /\ atRaise \in [Request -> Dictionary]

LEMMA TwoTypes == TypeOK <=> Labels /\ Lists
<1>1. TypeOK => Labels
  BY Zenon DEF TypeOK, Labels
<1>2. TypeOK => Lists
  BY Zenon DEF TypeOK, Lists, Dictionary, Slot
<1>3. Labels /\ Lists => TypeOK
  BY Zenon DEF TypeOK, Labels, Lists, Dictionary, Slot
<1>4. QED
  BY <1>1, <1>2, <1>3

\* The request of a thread that serves one.
LEMMA ServesOne ==
  ASSUME Labels, NEW t \in Thread, mode[t] \in {"app", "return", "raise"}
  PROVE  serving[t] \in Request
BY DEF Labels

LEMMA LabelsKept ==
  ASSUME Labels, ServingOK, NEW t \in Thread, Acts(t)
  PROVE  Labels'
<1> USE DEF Labels
<1>1. CASE Enter(t)
  BY <1>1 DEF Enter, saveVars, debugVars
<1>2. CASE EnterStreaming(t)
  BY <1>2 DEF EnterStreaming, saveVars, debugVars
<1>3. CASE Return(t)
  BY <1>3 DEF Return, requestVars, saveVars, debugVars
<1>4. CASE Leave(t)
  BY <1>4 DEF Leave, saveVars, debugVars
<1>5. CASE Iterate(t)
  BY <1>5 DEF Iterate, saveVars, debugVars
<1>6. CASE Yield(t)
  BY <1>6 DEF Yield, requestVars, saveVars, debugVars
<1>7. CASE Abandon(t)
  BY <1>7 DEF Abandon, Rest, Forget, LeavesBehind, saveVars, debugVars
<1>8. CASE Finish(t)
  BY <1>8 DEF Finish, Rest, Forget, saveVars, debugVars
<1>9. CASE Save(t)
  BY <1>9 DEF Save, requestVars, debugVars
<1>10. CASE EnableSwap(t)
  BY <1>10 DEF EnableSwap, requestVars, debugVars
<1>11. CASE Unwind(t)
  BY <1>11 DEF Unwind, saveVars, debugVars
<1>12. CASE Catch(t)
  BY <1>12, ServesOne DEF Catch, saveVars, debugVars
<1>13. CASE Fail(t)
  BY <1>13, ServesOne DEF Fail, Rest, Forget, LeavesBehind, saveVars
<1>14. CASE DebugEnd(t)
  BY <1>14 DEF DebugEnd, requestVars, saveVars
<1>15. ASSUME NEW r \in Request, Start(t, r)
       PROVE  Labels'
  BY <1>15 DEF Start, saveVars, debugVars
<1>16. ASSUME NEW r \in Request, DebugBegin(t, r)
       PROVE  Labels'
  BY <1>16, RegistryAssumption DEF DebugBegin, requestVars, saveVars
<1>17. ASSUME NEW p \in Proxy, EnableCheck(t, p)
       PROVE  Labels'
  BY <1>17 DEF EnableCheck, requestVars, debugVars
<1>18. ASSUME NEW p \in Proxy, NEW o \in Obj, Register(t, p, o)
       PROVE  Labels'
  BY <1>18 DEF Register, requestVars, saveVars, debugVars
<1>19. ASSUME NEW p \in Proxy, NEW o \in Obj, DebugRegister(t, p, o)
       PROVE  Labels'
  BY <1>19 DEF DebugRegister, requestVars, saveVars, debugVars
<1>20. ASSUME NEW kind \in {"expected", "unexpected", "base"}, Raise(t, kind)
       PROVE  Labels'
  BY <1>20 DEF Raise, saveVars, debugVars
<1>21. QED
  BY <1>1, <1>2, <1>3, <1>4, <1>5, <1>6, <1>7, <1>8, <1>9, <1>10, <1>11, <1>12,
     <1>13, <1>14, <1>15, <1>16, <1>17, <1>18, <1>19, <1>20 DEF Acts, ManagerStep

LEMMA NothingIs ==
  /\ Nothing \in Dictionary /\ \A p \in Proxy : Nothing[p] = None
BY DEF Nothing, Dictionary, Slot

\* The dictionary a thread registers with and cleans up.
LEMMA CurrentIs ==
  ASSUME Lists, ListsOK, NEW r \in Request, live[r] # <<>>
  PROVE  /\ Len(live[r]) \in Nat \ {0} /\ Len(live[r]) \in DOMAIN live[r]
         /\ Last(live[r]) = live[r][Len(live[r])]
         /\ Last(live[r]) \in 1..Len(context[r])
         /\ context[r][Last(live[r])] \in Dictionary
<1>1. live[r] \in Seq(Nat) /\ context[r] \in Seq(Dictionary)
  BY DEF Lists
<1>2. Len(live[r]) \in Nat \ {0} /\ Len(live[r]) \in DOMAIN live[r]
  BY <1>1
<1>3. Last(live[r]) = live[r][Len(live[r])]
  BY DEF Last
<1>4. Last(live[r]) \in 1..Len(context[r])
  BY <1>2, <1>3 DEF ListsOK, Rising
<1>5. QED
  BY <1>1, <1>2, <1>3, <1>4

LEMMA SavedIs ==
  ASSUME Lists, ListsOK, NEW r \in Request, saved[r] # <<>>
  PROVE  /\ Len(saved[r]) \in Nat \ {0} /\ Len(saved[r]) \in DOMAIN saved[r]
         /\ Last(saved[r]) = saved[r][Len(saved[r])]
         /\ Last(saved[r]) \in 1..Len(context[r])
         /\ context[r][Last(saved[r])] \in Dictionary
<1>1. saved[r] \in Seq(Nat) /\ context[r] \in Seq(Dictionary)
  BY DEF Lists
<1>2. Len(saved[r]) \in Nat \ {0} /\ Len(saved[r]) \in DOMAIN saved[r]
  BY <1>1
<1>3. Last(saved[r]) = saved[r][Len(saved[r])]
  BY DEF Last
<1>4. Last(saved[r]) \in 1..Len(context[r])
  BY <1>2, <1>3 DEF ListsOK, Rising
<1>5. QED
  BY <1>1, <1>2, <1>3, <1>4

\* One entry of one dictionary of a request is set.
EntryIs(r, c, p, o) ==
    /\ context' \in [Request -> Seq(Dictionary)]
    /\ \A q \in Request : Len(context'[q]) = Len(context[q])
    /\ \A q \in Request \ {r} : context'[q] = context[q]
    /\ \A d \in 1..Len(context[r]) : d # c => context'[r][d] = context[r][d]
    /\ context'[r][c][p] = o
    /\ \A q \in Proxy : q # p => context'[r][c][q] = context[r][c][q]

LEMMA EntrySet ==
  ASSUME Lists, NEW r \in Request, NEW c \in 1..Len(context[r]), NEW p \in Proxy,
         NEW o \in Obj, context' = [context EXCEPT ![r][c][p] = o]
  PROVE  EntryIs(r, c, p, o)
<1>1. PICK n \in Nat : n = Len(context[r])
  BY DEF Lists
<1> DEFINE f == context[r]
           g == [f EXCEPT ![c][p] = o]
<1>2. f \in [1..n -> Dictionary] /\ f \in Seq(Dictionary)
  BY <1>1 DEF Lists
<1>3. f[c] \in Dictionary /\ [f[c] EXCEPT ![p] = o] \in Dictionary
  BY <1>1, <1>2 DEF Dictionary, Slot
<1>4. g \in [1..n -> Dictionary]
  BY <1>2, <1>3
<1> HIDE DEF g
<1>5. g \in Seq(Dictionary) /\ Len(g) = n
  BY <1>4
<1>6. context' = [context EXCEPT ![r] = g]
  BY DEF Lists, g
<1>7. context'[r] = g /\ \A q \in Request \ {r} : context'[q] = context[q]
  BY <1>6 DEF Lists
<1>8. \A d \in 1..n : d # c => g[d] = f[d]
  BY <1>2 DEF g
<1>9. g[c][p] = o /\ \A q \in Proxy : q # p => g[c][q] = f[c][q]
  BY <1>1, <1>2, <1>3 DEF Dictionary, g
<1>10. context' \in [Request -> Seq(Dictionary)]
  BY <1>5, <1>6 DEF Lists
<1> HIDE DEF f
<1>11. \A q \in Request : Len(context'[q]) = Len(context[q])
  BY <1>1, <1>5, <1>7
<1>12. QED
  BY <1>1, <1>7, <1>8, <1>9, <1>10, <1>11 DEF f, EntryIs

LEMMA CleanupTyped ==
  ASSUME Lists, NEW t \in Thread, serving[t] \in Request, Cleanup(t)
  PROVE  /\ stack' \in [Thread -> [Proxy -> Seq(Obj)]]
         /\ live' \in [Request -> Seq(Nat)]
<1>1. \A p \in Proxy : stack[t][p] \in Seq(Obj)
  BY DEF Lists
<1>2. \A p \in Proxy : Front(stack[t][p]) \in Seq(Obj)
  BY <1>1, FrontStays
<1>3. stack[t] \in [Proxy -> Seq(Obj)]
  BY DEF Lists
<1>4. PICK f \in [Proxy -> Seq(Obj)] : stack' = [stack EXCEPT ![t] = f]
  <2> DEFINE f == [p \in Proxy |-> IF Current(t)[p] = None
                                   THEN stack[t][p] ELSE Front(stack[t][p])]
  <2>1. f \in [Proxy -> Seq(Obj)]
    BY <1>1, <1>2
  <2>2. stack' = [stack EXCEPT ![t] = f]
    BY DEF Cleanup
  <2>3. QED
    BY <2>1, <2>2
<1>5. stack' \in [Thread -> [Proxy -> Seq(Obj)]]
  BY <1>4 DEF Lists
<1>6. Front(live[serving[t]]) \in Seq(Nat)
  BY FrontStays DEF Lists
<1>7. live' = [live EXCEPT ![serving[t]] = Front(live[serving[t]])]
  BY DEF Cleanup
<1>8. QED
  BY <1>5, <1>6, <1>7 DEF Lists

LEMMA ForgetTyped ==
  ASSUME Lists, NEW r \in Request, Forget(r)
  PROVE  /\ context' \in [Request -> Seq(Dictionary)]
         /\ live' \in [Request -> Seq(Nat)] /\ saved' \in [Request -> Seq(Nat)]
         /\ atRaise' \in [Request -> Dictionary]
BY NothingIs DEF Forget, Lists

LEMMA PrepareTyped ==
  ASSUME Lists, NEW r \in Request, Prepare(r)
  PROVE  /\ context' \in [Request -> Seq(Dictionary)]
         /\ live' \in [Request -> Seq(Nat)]
<1>1. Append(context[r], Nothing) \in Seq(Dictionary)
  BY NothingIs DEF Lists
<1>2. Append(live[r], Len(context[r]) + 1) \in Seq(Nat)
  BY DEF Lists
<1>3. QED
  BY <1>1, <1>2 DEF Lists, Prepare

LEMMA PushedTyped ==
  ASSUME NEW s \in Seq(Obj), NEW old, NEW o \in Obj
  PROVE  Pushed(s, old, o) \in Seq(Obj)
BY FrontStays DEF Pushed

LEMMA ListsTyped ==
  ASSUME Labels, Lists, ListsOK, ServingOK, NEW t \in Thread, Acts(t)
  PROVE  Lists'
<1> USE DEF Lists
<1>0. mode[t] \in {"app", "return", "raise"} => serving[t] \in Request
  BY ServesOne
<1>1. CASE Enter(t)
  BY <1>0, <1>1, PrepareTyped DEF Enter
<1>2. CASE EnterStreaming(t)
  BY <1>0, <1>2, PrepareTyped DEF EnterStreaming
<1>3. CASE Return(t)
  BY <1>3 DEF Return, requestVars
<1>4. CASE Leave(t)
  BY <1>0, <1>4, CleanupTyped, FrontStays DEF Leave
<1>5. CASE Iterate(t)
  BY <1>5 DEF Iterate
<1>6. CASE Yield(t)
  BY <1>6 DEF Yield, requestVars
<1>7. CASE Abandon(t)
  BY <1>0, <1>7, ForgetTyped DEF Abandon, Rest
<1>8. CASE Finish(t)
  BY <1>0, <1>8, ForgetTyped DEF Finish, Rest
<1>9. CASE Save(t)
  BY <1>0, <1>9 DEF Save, requestVars
<1>10. CASE EnableSwap(t)
  BY <1>10 DEF EnableSwap, requestVars
<1>11. CASE Unwind(t)
  BY <1>0, <1>11, CleanupTyped, FrontStays DEF Unwind
<1>12. CASE Catch(t)
  BY <1>0, <1>12, NothingIs DEF Catch
<1>13. CASE Fail(t)
  BY <1>0, <1>13, ForgetTyped DEF Fail, Rest
<1>14. CASE DebugEnd(t)
  BY <1>14 DEF DebugEnd, requestVars
<1>15. ASSUME NEW r \in Request, Start(t, r)
       PROVE  Lists'
  BY <1>15 DEF Start
<1>16. ASSUME NEW r \in Request, DebugBegin(t, r)
       PROVE  Lists'
  BY <1>16 DEF DebugBegin, requestVars
<1>17. ASSUME NEW p \in Proxy, EnableCheck(t, p)
       PROVE  Lists'
  BY <1>17 DEF EnableCheck, requestVars
<1>18. ASSUME NEW p \in Proxy, NEW o \in Obj, Register(t, p, o)
       PROVE  Lists'
  <2> DEFINE r == serving[t]
  <2>1. r \in Request /\ live[r] # <<>>
    BY <1>0, <1>18 DEF Register
  <2>2. context' = [context EXCEPT ![r][Last(live[r])][p] = o]
    BY <1>18 DEF Register
  <2>3. context' \in [Request -> Seq(Dictionary)]
    BY <2>1, <2>2, CurrentIs, EntrySet DEF EntryIs
  <2>4. PICK old : stack' = [stack EXCEPT ![t][p] = Pushed(stack[t][p], old, o)]
    BY <1>18 DEF Register
  <2>5. Pushed(stack[t][p], old, o) \in Seq(Obj)
    BY PushedTyped
  <2>6. stack' \in [Thread -> [Proxy -> Seq(Obj)]]
    BY <2>4, <2>5
  <2>7. QED
    BY <1>18, <2>3, <2>6 DEF Register, requestVars
<1>19. ASSUME NEW p \in Proxy, NEW o \in Obj, DebugRegister(t, p, o)
       PROVE  Lists'
  <2> DEFINE r == restoring[t]
             c == Last(saved[r])
             old == context[r][c][p]
  <2>1. r \in Request /\ saved[r] # <<>>
    BY <1>19 DEF DebugRegister, ServingOK, Labels
  <2>2. \/ context' = [context EXCEPT ![r][c][p] = o]
        \/ context' = context
    BY <1>19 DEF DebugRegister
  <2>3. context' \in [Request -> Seq(Dictionary)]
    BY <2>1, <2>2, SavedIs, EntrySet DEF EntryIs
  <2>4. /\ stack[t][p] \in Seq(Obj) /\ Front(stack[t][p]) \in Seq(Obj)
        /\ Pushed(stack[t][p], old, o) \in Seq(Obj)
    BY PushedTyped, FrontStays
  <2>5. \/ stack' = stack
        \/ \E s \in Seq(Obj) : stack' = [stack EXCEPT ![t][p] = s]
    BY <1>19, <2>4 DEF DebugRegister
  <2>6. stack' \in [Thread -> [Proxy -> Seq(Obj)]]
    <3>1. ASSUME NEW s \in Seq(Obj), stack' = [stack EXCEPT ![t][p] = s]
          PROVE  stack' \in [Thread -> [Proxy -> Seq(Obj)]]
      BY <3>1
    <3>2. QED
      BY <2>5, <3>1
  <2>7. atRaise' = atRaise \/ atRaise' = [atRaise EXCEPT ![r][p] = o]
    BY <1>19 DEF DebugRegister
  <2>8. atRaise' \in [Request -> Dictionary]
    <3>1. o \in Slot
      BY DEF Slot
    <3>2. [atRaise[r] EXCEPT ![p] = o] \in Dictionary
      BY <2>1, <3>1 DEF Dictionary
    <3>3. atRaise' = [atRaise EXCEPT ![r][p] = o] =>
             atRaise' = [atRaise EXCEPT ![r] = [atRaise[r] EXCEPT ![p] = o]]
      BY <2>1
    <3>4. QED
      BY <2>1, <2>7, <3>2, <3>3
  <2>9. QED
    BY <1>19, <2>3, <2>6, <2>8 DEF DebugRegister, requestVars
<1>20. ASSUME NEW kind \in {"expected", "unexpected", "base"}, Raise(t, kind)
       PROVE  Lists'
  <2>1. \A p \in Proxy : Top(stack[t][p]) \in Slot
    BY DEF Top, Last, Slot
  <2>2. [p \in Proxy |-> Top(stack[t][p])] \in Dictionary
    BY <2>1 DEF Dictionary
  <2>3. atRaise' \in [Request -> Dictionary]
    BY <1>20, <2>2 DEF Raise
  <2>4. QED
    BY <1>20, <2>3 DEF Raise
<1>21. QED
  BY <1>1, <1>2, <1>3, <1>4, <1>5, <1>6, <1>7, <1>8, <1>9, <1>10, <1>11, <1>12,
     <1>13, <1>14, <1>15, <1>16, <1>17, <1>18, <1>19, <1>20 DEF Acts, ManagerStep

-----------------------------------------------------------------------------
(* The lists of contexts, and the requests that are served.                *)

LEMMA RisingAdded ==
  ASSUME NEW list \in Seq(Nat), NEW n \in Nat, Rising(list, n)
  PROVE  Rising(list, n + 1) /\ Rising(Append(list, n + 1), n + 1)
BY DEF Rising

LEMMA RisingLess ==
  ASSUME NEW list \in Seq(Nat), NEW n \in Nat, Rising(list, n), list # <<>>
  PROVE  Rising(Front(list), n)
<1>1. /\ Front(list) \in Seq(Nat) /\ Len(Front(list)) = Len(list) - 1
      /\ \A k \in 1..(Len(list) - 1) : Front(list)[k] = list[k]
  <2>1. list \in Seq(Nat) /\ list # <<>>
    OBVIOUS
  <2>2. QED
    BY <2>1, FrontOf
<1>2. DOMAIN Front(list) = 1..(Len(list) - 1) /\ DOMAIN list = 1..Len(list)
  BY <1>1
<1>3. \A i \in DOMAIN Front(list) : i \in DOMAIN list /\ Front(list)[i] = list[i]
  BY <1>1, <1>2
<1>4. QED
  BY <1>3 DEF Rising

LEMMA RisingEmpty ==
  \A n \in Nat : Rising(<<>>, n)
BY DEF Rising

LEMMA ListsPrepared ==
  ASSUME Lists, ListsOK, NEW r \in Request, Prepare(r), UNCHANGED saved
  PROVE  ListsOK'
<1>1. PICK n \in Nat : n = Len(context[r])
  BY DEF Lists
<1>2. context' = [context EXCEPT ![r] = Append(context[r], Nothing)]
      /\ live' = [live EXCEPT ![r] = Append(live[r], n + 1)]
  BY <1>1 DEF Prepare
<1>3. Len(context'[r]) = n + 1 /\ live'[r] = Append(live[r], n + 1)
  BY <1>1, <1>2, NothingIs DEF Lists
<1>4. \A q \in Request \ {r} : context'[q] = context[q] /\ live'[q] = live[q]
  BY <1>2 DEF Lists
<1>5. Rising(live[r], n) /\ Rising(saved[r], n) /\ live[r] \in Seq(Nat)
      /\ saved[r] \in Seq(Nat)
  BY <1>1 DEF ListsOK, Lists
<1>6. Rising(live'[r], n + 1) /\ Rising(saved[r], n + 1)
  BY <1>3, <1>5, RisingAdded
<1>7. ASSUME NEW q \in Request
      PROVE  Rising(live'[q], Len(context'[q])) /\ Rising(saved[q], Len(context'[q]))
  <2>1. CASE q = r
    BY <1>3, <1>6, <2>1
  <2>2. CASE q # r
    BY <1>4, <2>2 DEF ListsOK
  <2>3. QED
    BY <2>1, <2>2
<1>8. QED
  BY <1>7 DEF ListsOK

LEMMA ListsCleaned ==
  ASSUME Lists, ListsOK, NEW t \in Thread, serving[t] \in Request,
         live[serving[t]] # <<>>, Cleanup(t), UNCHANGED <<context, saved>>
  PROVE  ListsOK'
<1> DEFINE r == serving[t]
<1>1. live' = [live EXCEPT ![r] = Front(live[r])]
  BY DEF Cleanup
<1>2. Len(context[r]) \in Nat /\ live[r] \in Seq(Nat)
  BY DEF Lists
<1>3. Rising(Front(live[r]), Len(context[r]))
  BY <1>2, RisingLess DEF ListsOK
<1>4. \A q \in Request : live'[q] = IF q = r THEN Front(live[r]) ELSE live[q]
  BY <1>1 DEF Lists
<1>5. QED
  BY <1>3, <1>4 DEF ListsOK

LEMMA ListsForgotten ==
  ASSUME Lists, ListsOK, NEW r \in Request, Forget(r)
  PROVE  ListsOK'
<1>1. \A q \in Request :
         IF q = r THEN context'[q] = <<>> /\ live'[q] = <<>> /\ saved'[q] = <<>>
         ELSE context'[q] = context[q] /\ live'[q] = live[q] /\ saved'[q] = saved[q]
  BY DEF Forget, Lists
<1>2. ASSUME NEW q \in Request
      PROVE  Rising(live'[q], Len(context'[q])) /\ Rising(saved'[q], Len(context'[q]))
  <2>1. CASE q = r
    BY <1>1, <2>1, RisingEmpty
  <2>2. CASE q # r
    BY <1>1, <2>2 DEF ListsOK
  <2>3. QED
    BY <2>1, <2>2
<1>3. QED
  BY <1>2 DEF ListsOK

\* A manager that cleans up has a context left.
LEMMA ContextLeft ==
  ASSUME Labels, Lists, FramesOK, NEW t \in Thread, serving[t] \in Request,
         frames[t] # <<>>
  PROVE  live[serving[t]] # <<>>
<1>1. PICK n \in Nat : n = Len(live[serving[t]])
  BY DEF Lists
<1>2. PICK m \in Nat : m = Len(frames[t]) /\ m # 0
  BY DEF Lists
<1>a. serving[t] # None
  BY RegistryAssumption
<1>3. n >= m \/ n = m + 1 \/ n = m + 0
  BY <1>1, <1>2, <1>a DEF FramesOK, FrameOK
<1>4. n # 0
  BY <1>2, <1>3
<1>5. QED
  BY <1>1, <1>4

LEMMA ListsStay ==
  ASSUME Labels, Lists, ListsOK, ServingOK, FramesOK, NEW t \in Thread, Acts(t)
  PROVE  ListsOK'
<1>0. mode[t] \in {"app", "return", "raise"} => serving[t] \in Request
  BY ServesOne
<1>1. CASE Enter(t)
  BY <1>0, <1>1, ListsPrepared DEF Enter
<1>2. CASE EnterStreaming(t)
  BY <1>0, <1>2, ListsPrepared DEF EnterStreaming
<1>3. CASE Return(t)
  BY <1>3 DEF Return, ListsOK
<1>4. CASE Leave(t)
  <2>1. frames[t] # <<>>
    BY <1>4 DEF Leave, AtFrame
  <2>2. QED
    BY <1>0, <1>4, <2>1, ContextLeft, ListsCleaned DEF Leave
<1>5. CASE Iterate(t)
  BY <1>5 DEF Iterate, ListsOK
<1>6. CASE Yield(t)
  BY <1>6 DEF Yield, ListsOK
<1>7. CASE Abandon(t)
  BY <1>0, <1>7, ListsForgotten DEF Abandon
<1>8. CASE Finish(t)
  BY <1>0, <1>8, ListsForgotten DEF Finish
<1>9. CASE Save(t)
  <2> DEFINE r == serving[t]
  <2>1. \A q \in Request : saved'[q] = IF q = r THEN live[r] ELSE saved[q]
    BY <1>9 DEF Save, Lists
  <2>2. UNCHANGED <<context, live>>
    BY <1>9 DEF Save
  <2>3. QED
    BY <2>1, <2>2 DEF ListsOK
<1>10. CASE EnableSwap(t)
  BY <1>10 DEF EnableSwap, ListsOK
<1>11. CASE Unwind(t)
  <2>1. CASE Cleanup(t)
    BY <1>0, <1>11, <2>1, ContextLeft, ListsCleaned DEF Unwind
  <2>2. CASE UNCHANGED <<stack, live>>
    BY <1>11, <2>2 DEF Unwind, ListsOK
  <2>3. QED
    BY <1>11, <2>1, <2>2 DEF Unwind
<1>12. CASE Catch(t)
  BY <1>12 DEF Catch, ListsOK
<1>13. CASE Fail(t)
  <2>1. CASE Forget(serving[t])
    BY <1>0, <1>13, <2>1, ListsForgotten DEF Fail
  <2>2. CASE UNCHANGED <<context, live, saved, atRaise, caught>>
    BY <2>2 DEF ListsOK
  <2>3. QED
    BY <1>13, <2>1, <2>2 DEF Fail
<1>14. CASE DebugEnd(t)
  BY <1>14 DEF DebugEnd, ListsOK
<1>15. ASSUME NEW r \in Request, Start(t, r)
       PROVE  ListsOK'
  BY <1>15 DEF Start, ListsOK
<1>16. ASSUME NEW r \in Request, DebugBegin(t, r)
       PROVE  ListsOK'
  BY <1>16 DEF DebugBegin, ListsOK
<1>17. ASSUME NEW p \in Proxy, EnableCheck(t, p)
       PROVE  ListsOK'
  BY <1>17 DEF EnableCheck, ListsOK
<1>18. ASSUME NEW p \in Proxy, NEW o \in Obj, Register(t, p, o)
       PROVE  ListsOK'
  <2> DEFINE r == serving[t]
  <2>1. r \in Request /\ live[r] # <<>>
    BY <1>0, <1>18 DEF Register
  <2>2. context' = [context EXCEPT ![r][Last(live[r])][p] = o]
        /\ UNCHANGED <<live, saved>>
    BY <1>18 DEF Register
  <2>3. \A q \in Request : Len(context'[q]) = Len(context[q])
    BY <2>1, <2>2, CurrentIs, EntrySet DEF EntryIs
  <2>4. QED
    BY <2>2, <2>3 DEF ListsOK
<1>19. ASSUME NEW p \in Proxy, NEW o \in Obj, DebugRegister(t, p, o)
       PROVE  ListsOK'
  <2> DEFINE r == restoring[t]
             c == Last(saved[r])
  <2>1. r \in Request /\ saved[r] # <<>>
    BY <1>19 DEF DebugRegister, ServingOK, Labels
  <2>2. \/ context' = [context EXCEPT ![r][c][p] = o]
        \/ context' = context
    BY <1>19 DEF DebugRegister
  <2>3. \A q \in Request : Len(context'[q]) = Len(context[q])
    <3>1. CASE context' = [context EXCEPT ![r][c][p] = o]
      <4>1. EntryIs(r, c, p, o)
        BY <2>1, <3>1, SavedIs, EntrySet
      <4>2. QED
        BY <4>1 DEF EntryIs
    <3>2. CASE context' = context
      BY <3>2
    <3>3. QED
      BY <2>2, <3>1, <3>2
  <2>4. UNCHANGED <<live, saved>>
    BY <1>19 DEF DebugRegister
  <2>5. QED
    BY <2>3, <2>4 DEF ListsOK
<1>20. ASSUME NEW kind \in {"expected", "unexpected", "base"}, Raise(t, kind)
       PROVE  ListsOK'
  BY <1>20 DEF Raise, ListsOK
<1>21. QED
  BY <1>1, <1>2, <1>3, <1>4, <1>5, <1>6, <1>7, <1>8, <1>9, <1>10, <1>11, <1>12,
     <1>13, <1>14, <1>15, <1>16, <1>17, <1>18, <1>19, <1>20 DEF Acts, ManagerStep

LEMMA ServingStays ==
  ASSUME Labels, Lists, ListsOK, ServingOK, FramesOK, NEW t \in Thread, Acts(t)
  PROVE  ServingOK'
<1>0. mode[t] \in {"app", "return", "raise"} => serving[t] \in Request
  BY ServesOne
<1> USE DEF ServingOK, Served
<1>1. CASE Enter(t)
  BY <1>0, <1>1 DEF Enter, Prepare, saveVars, debugVars, Labels, Lists
<1>2. CASE EnterStreaming(t)
  BY <1>0, <1>2 DEF EnterStreaming, Prepare, saveVars, debugVars, Labels, Lists
<1>3. CASE Return(t)
  BY <1>3 DEF Return, requestVars, saveVars, debugVars
<1>4. CASE Leave(t)
  BY <1>0, <1>4 DEF Leave, Cleanup, saveVars, debugVars, Labels, Lists
<1>5. CASE Iterate(t)
  BY <1>5 DEF Iterate, saveVars, debugVars
<1>6. CASE Yield(t)
  BY <1>6 DEF Yield, requestVars, saveVars, debugVars
<1>7. CASE Abandon(t)
  BY <1>0, <1>7, RegistryAssumption
     DEF Abandon, Rest, Forget, saveVars, debugVars, Labels, Lists
<1>8. CASE Finish(t)
  BY <1>0, <1>8, RegistryAssumption
     DEF Finish, Rest, Forget, saveVars, debugVars, Labels, Lists
<1>9. CASE Save(t)
  BY <1>0, <1>9 DEF Save, requestVars, debugVars, Labels, Lists
<1>10. CASE EnableSwap(t)
  BY <1>10 DEF EnableSwap, requestVars, debugVars
<1>11. CASE Unwind(t)
  BY <1>0, <1>11 DEF Unwind, Cleanup, saveVars, debugVars, Labels, Lists
<1>12. CASE Catch(t)
  BY <1>0, <1>12 DEF Catch, saveVars, debugVars, Labels, Lists
<1>13. CASE Fail(t)
  <2>1. /\ serving' = [serving EXCEPT ![t] = None] /\ serving[t] \in Request
        /\ UNCHANGED restored
    BY <1>0, <1>13 DEF Fail, Rest
  <2>2. \A r \in Request : Served(r)' => Served(r) /\ r # serving[t]
    BY <2>1, RegistryAssumption DEF Labels
  <2>3. \A r \in Request : r # serving[t] => (Served(r) <=> Served(r)')
    BY <2>1, RegistryAssumption DEF Labels
  <2>4. CASE /\ debugInfos' = debugInfos \cup {serving[t]}
             /\ UNCHANGED <<context, live, saved, atRaise, caught>>
    BY <2>1, <2>2, <2>3, <2>4, RegistryAssumption DEF Labels
  <2>5. CASE Forget(serving[t]) /\ UNCHANGED debugInfos
    BY <2>1, <2>2, <2>3, <2>5, RegistryAssumption DEF Forget, Labels, Lists
  <2>6. QED
    BY <1>13, <2>4, <2>5 DEF Fail
<1>14. CASE DebugEnd(t)
  BY <1>14 DEF DebugEnd, requestVars, saveVars
<1>15. ASSUME NEW r \in Request, Start(t, r)
       PROVE  ServingOK'
  BY <1>15, RegistryAssumption DEF Start, saveVars, debugVars, Labels, Lists
<1>16. ASSUME NEW r \in Request, DebugBegin(t, r)
       PROVE  ServingOK'
  BY <1>16 DEF DebugBegin, requestVars, saveVars
<1>17. ASSUME NEW p \in Proxy, EnableCheck(t, p)
       PROVE  ServingOK'
  BY <1>17 DEF EnableCheck, requestVars, debugVars
<1>18. ASSUME NEW p \in Proxy, NEW o \in Obj, Register(t, p, o)
       PROVE  ServingOK'
  BY <1>0, <1>18 DEF Register, requestVars, saveVars, debugVars, Labels, Lists
<1>19. ASSUME NEW p \in Proxy, NEW o \in Obj, DebugRegister(t, p, o)
       PROVE  ServingOK'
  <2> DEFINE r == restoring[t]
  <2>1. r \in debugInfos
    BY <1>19 DEF DebugRegister
  <2>2. UNCHANGED <<serving, live, saved, restored, debugInfos, caught>>
    BY <1>19 DEF DebugRegister, requestVars, debugVars
  <2>3. \A q \in Request \ {r} : context'[q] = context[q] /\ atRaise'[q] = atRaise[q]
    BY <1>19 DEF DebugRegister, Lists
  <2>4. QED
    BY <2>1, <2>2, <2>3
<1>20. ASSUME NEW kind \in {"expected", "unexpected", "base"}, Raise(t, kind)
       PROVE  ServingOK'
  BY <1>0, <1>20 DEF Raise, saveVars, debugVars, Labels, Lists
<1>21. QED
  BY <1>1, <1>2, <1>3, <1>4, <1>5, <1>6, <1>7, <1>8, <1>9, <1>10, <1>11, <1>12,
     <1>13, <1>14, <1>15, <1>16, <1>17, <1>18, <1>19, <1>20 DEF Acts, ManagerStep

-----------------------------------------------------------------------------
(* A step of a thread leaves the others alone.                             *)

DebuggerRegisters(t) == \E p \in Proxy, o \in Obj : DebugRegister(t, p, o)

\* What a step of a thread leaves alone.
OthersSame(t) ==
    /\ \A u \in Thread \ {t} :
          /\ mode'[u] = mode[u] /\ serving'[u] = serving[u]
          /\ frames'[u] = frames[u] /\ pending'[u] = pending[u]
          /\ raised'[u] = raised[u] /\ todo'[u] = todo[u]
          /\ checked'[u] = checked[u] /\ stack'[u] = stack[u]
          /\ restoring'[u] = restoring[u]
          /\ u \in leaky' <=> u \in leaky
    /\ \A q \in Request \ {serving[t]} :
          /\ live'[q] = live[q] /\ saved'[q] = saved[q]
          /\ q \in caught' <=> q \in caught
          /\ q \notin restored \/ ~DebuggerRegisters(t) =>
                context'[q] = context[q] /\ atRaise'[q] = atRaise[q]
    /\ swapped \subseteq swapped' /\ debugging' = debugging
    /\ Fail(t) \/ debugInfos' = debugInfos

LEMMA OthersStay ==
  ASSUME Labels, Lists, NEW t \in Thread, Acts(t)
  PROVE  OthersSame(t)
<1> USE DEF OthersSame, Labels, Lists, requestVars, saveVars, debugVars
<1>0. mode[t] \in {"app", "return", "raise"} => serving[t] \in Request
  BY ServesOne
<1>1. CASE Enter(t)
  BY <1>0, <1>1 DEF Enter, Prepare
<1>2. CASE EnterStreaming(t)
  BY <1>0, <1>2 DEF EnterStreaming, Prepare
<1>3. CASE Return(t)
  BY <1>3 DEF Return
<1>4. CASE Leave(t)
  BY <1>0, <1>4 DEF Leave, Cleanup
<1>5. CASE Iterate(t)
  BY <1>5 DEF Iterate
<1>6. CASE Yield(t)
  BY <1>6 DEF Yield
<1>7. CASE Abandon(t)
  BY <1>0, <1>7 DEF Abandon, Rest, Forget, LeavesBehind
<1>8. CASE Finish(t)
  BY <1>0, <1>8 DEF Finish, Rest, Forget
<1>9. CASE Save(t)
  BY <1>0, <1>9 DEF Save
<1>10. CASE EnableSwap(t)
  BY <1>10 DEF EnableSwap
<1>11. CASE Unwind(t)
  BY <1>0, <1>11 DEF Unwind, Cleanup
<1>12. CASE Catch(t)
  BY <1>0, <1>12 DEF Catch
<1>13. CASE Fail(t)
  BY <1>0, <1>13 DEF Fail, Rest, Forget, LeavesBehind
<1>14. CASE DebugEnd(t)
  BY <1>14 DEF DebugEnd
<1>15. ASSUME NEW r \in Request, Start(t, r)
       PROVE  OthersSame(t)
  BY <1>15 DEF Start
<1>16. ASSUME NEW r \in Request, DebugBegin(t, r)
       PROVE  OthersSame(t)
  BY <1>16 DEF DebugBegin
<1>17. ASSUME NEW p \in Proxy, EnableCheck(t, p)
       PROVE  OthersSame(t)
  BY <1>17 DEF EnableCheck
<1>18. ASSUME NEW p \in Proxy, NEW o \in Obj, Register(t, p, o)
       PROVE  OthersSame(t)
  BY <1>0, <1>18 DEF Register
<1>19. ASSUME NEW p \in Proxy, NEW o \in Obj, DebugRegister(t, p, o)
       PROVE  OthersSame(t)
  <2>1. DebuggerRegisters(t)
    BY <1>19 DEF DebuggerRegisters
  <2>2. QED
    BY <1>19, <2>1 DEF DebugRegister
<1>20. ASSUME NEW kind \in {"expected", "unexpected", "base"}, Raise(t, kind)
       PROVE  OthersSame(t)
  BY <1>0, <1>20 DEF Raise
<1>21. QED
  BY <1>1, <1>2, <1>3, <1>4, <1>5, <1>6, <1>7, <1>8, <1>9, <1>10, <1>11, <1>12,
     <1>13, <1>14, <1>15, <1>16, <1>17, <1>18, <1>19, <1>20 DEF Acts, ManagerStep

\* The others serve other requests.
LEMMA OthersServe ==
  ASSUME Labels, ServingOK, NEW t \in Thread, NEW u \in Thread \ {t},
         serving[u] # None
  PROVE  serving[u] \in Request \ {serving[t]}
BY DEF ServingOK, Labels

LEMMA FramesOfOthers ==
  ASSUME Labels, ServingOK, FramesOK, NEW t \in Thread, OthersSame(t), FrameOK(t)'
  PROVE  FramesOK'
<1>1. ASSUME NEW u \in Thread \ {t}
      PROVE  FrameOK(u)'
  <2>1. FrameOK(u)
    BY DEF FramesOK
  <2>2. serving[u] # None => live'[serving[u]] = live[serving[u]]
    BY OthersServe DEF OthersSame
  <2>3. /\ mode'[u] = mode[u] /\ serving'[u] = serving[u]
        /\ frames'[u] = frames[u] /\ pending'[u] = pending[u]
        /\ raised'[u] = raised[u]
    BY DEF OthersSame
  <2>4. QED
    BY <2>1, <2>2, <2>3 DEF FrameOK
<1>2. QED
  BY <1>1 DEF FramesOK

LEMMA FrontLess ==
  ASSUME NEW S, NEW s \in Seq(S), s # <<>>
  PROVE  Len(Front(s)) = Len(s) - 1
BY FrontOf

\* The lengths after a cleanup.
LEMMA CleanupLess ==
  ASSUME Labels, Lists, NEW t \in Thread, serving[t] \in Request,
         live[serving[t]] # <<>>, Cleanup(t)
  PROVE  Len(live'[serving[t]]) = Len(live[serving[t]]) - 1
<1>1. live'[serving[t]] = Front(live[serving[t]])
  BY DEF Cleanup, Lists
<1>2. live[serving[t]] \in Seq(Nat) /\ live[serving[t]] # <<>>
  BY DEF Lists
<1>3. QED
  BY <1>1, <1>2, FrontLess

LEMMA FramesLess ==
  ASSUME Lists, NEW t \in Thread, frames[t] # <<>>,
         frames' = [frames EXCEPT ![t] = Front(frames[t])]
  PROVE  Len(frames'[t]) = Len(frames[t]) - 1
<1>1. frames'[t] = Front(frames[t])
  BY DEF Lists
<1>2. frames[t] \in Seq({"plain", "stream"}) /\ frames[t] # <<>>
  BY DEF Lists
<1>3. QED
  BY <1>1, <1>2, FrontLess

LEMMA PrepareMore ==
  ASSUME Lists, NEW r \in Request, Prepare(r)
  PROVE  Len(live'[r]) = Len(live[r]) + 1
BY DEF Lists, Prepare

LEMMA FramesStay ==
  ASSUME Labels, Lists, ServingOK, FramesOK, NEW t \in Thread, Acts(t)
  PROVE  FramesOK'
<1>a. OthersSame(t)
  BY OthersStay
<1>b. SUFFICES FrameOK(t)'
  BY <1>a, FramesOfOthers
<1>c. FrameOK(t)
  BY DEF FramesOK
<1>d. mode[t] \in {"app", "return", "raise"} =>
         serving[t] \in Request /\ serving[t] # None
  BY ServesOne, RegistryAssumption
<1>e. /\ mode[t] \in {"idle", "app", "return", "raise", "debug"}
      /\ serving[t] # None => serving[t] \in Request
      /\ pending[t] \in BOOLEAN
      /\ Len(frames[t]) \in Nat
      /\ serving[t] \in Request => Len(live[serving[t]]) \in Nat
  BY DEF Labels, Lists
<1>f. DOMAIN mode = Thread /\ DOMAIN serving = Thread /\ DOMAIN frames = Thread
      /\ DOMAIN pending = Thread /\ DOMAIN raised = Thread
  BY DEF Labels, Lists
<1> USE <1>c, <1>d, <1>e, <1>f DEF FrameOK
<1>1. CASE Enter(t)
  <2>1. Len(live'[serving[t]]) = Len(live[serving[t]]) + 1
    BY <1>1, PrepareMore DEF Enter
  <2>2. Len(frames'[t]) = Len(frames[t]) + 1
    BY <1>1 DEF Enter, Lists
  <2>3. QED
    BY <1>1, <2>1, <2>2 DEF Enter
<1>2. CASE EnterStreaming(t)
  <2>1. Len(live'[serving[t]]) = Len(live[serving[t]]) + 1
    BY <1>2, PrepareMore DEF EnterStreaming
  <2>2. QED
    BY <1>2, <2>1 DEF EnterStreaming
<1>3. CASE Return(t)
  BY <1>3 DEF Return, requestVars
<1>4. CASE Leave(t)
  <2>1. frames[t] # <<>>
    BY <1>4 DEF Leave, AtFrame
  <2>2. live[serving[t]] # <<>>
    BY <1>4, <2>1, ContextLeft DEF Leave
  <2>3. Len(live'[serving[t]]) = Len(live[serving[t]]) - 1
    BY <1>4, <2>2, CleanupLess DEF Leave
  <2>4. Len(frames'[t]) = Len(frames[t]) - 1
    BY <1>4, <2>1, FramesLess DEF Leave
  <2>5. UNCHANGED <<mode, serving, pending, raised>> /\ mode[t] = "return"
    BY <1>4 DEF Leave
  <2>6. QED
    BY <2>3, <2>4, <2>5
<1>5. CASE Iterate(t)
  <2>1. Len(frames'[t]) = Len(frames[t]) + 1
    BY <1>5 DEF Iterate, Lists
  <2>2. QED
    BY <1>5, <2>1 DEF Iterate
<1>6. CASE Yield(t)
  BY <1>6 DEF Yield, requestVars
<1>7. CASE Abandon(t)
  BY <1>7 DEF Abandon, Rest
<1>8. CASE Finish(t)
  BY <1>8 DEF Finish, Rest
<1>9. CASE Save(t)
  BY <1>9 DEF Save, requestVars
<1>10. CASE EnableSwap(t)
  BY <1>10 DEF EnableSwap, requestVars
<1>11. CASE Unwind(t)
  <2>2. live[serving[t]] # <<>> /\ frames[t] # <<>> /\ mode[t] = "raise"
    BY <1>11, ContextLeft DEF Unwind
  <2>3. Len(frames'[t]) = Len(frames[t]) - 1
    BY <1>11, <2>2, FramesLess DEF Unwind
  <2>4. UNCHANGED <<mode, serving, pending, raised>>
    BY <1>11 DEF Unwind
  <2>5. CASE raised[t] = "base"
    <3>1. UNCHANGED live
      BY <1>11, <2>5 DEF Unwind
    <3>2. QED
      BY <2>3, <2>4, <2>5, <3>1
  <2>6. CASE raised[t] # "base"
    <3>1. Len(live'[serving[t]]) = Len(live[serving[t]]) - 1
      BY <1>11, <2>2, <2>6, CleanupLess DEF Unwind
    <3>2. QED
      BY <2>2, <2>3, <2>4, <2>6, <3>1
  <2>7. QED
    BY <2>5, <2>6
<1>12. CASE Catch(t)
  BY <1>12 DEF Catch
<1>13. CASE Fail(t)
  BY <1>13 DEF Fail, Rest
<1>14. CASE DebugEnd(t)
  BY <1>14 DEF DebugEnd, requestVars
<1>15. ASSUME NEW r \in Request, Start(t, r)
       PROVE  FrameOK(t)'
  <2>1. serving[t] = None /\ mode[t] = "idle" /\ ~Served(r) /\ r \notin debugInfos
    BY <1>15 DEF Start, Labels, Served
  <2>2. Len(live[r]) = 0 /\ Len(frames[t]) = 0
    BY <2>1 DEF ServingOK
  <2>3. UNCHANGED <<live, frames, pending, raised>> /\ serving'[t] = r
        /\ mode'[t] = "app"
    BY <1>15 DEF Start
  <2>4. QED
    BY <2>1, <2>2, <2>3
<1>16. ASSUME NEW r \in Request, DebugBegin(t, r)
       PROVE  FrameOK(t)'
  BY <1>16 DEF DebugBegin, requestVars
<1>17. ASSUME NEW p \in Proxy, EnableCheck(t, p)
       PROVE  FrameOK(t)'
  BY <1>17 DEF EnableCheck, requestVars
<1>18. ASSUME NEW p \in Proxy, NEW o \in Obj, Register(t, p, o)
       PROVE  FrameOK(t)'
  BY <1>18 DEF Register, requestVars
<1>19. ASSUME NEW p \in Proxy, NEW o \in Obj, DebugRegister(t, p, o)
       PROVE  FrameOK(t)'
  BY <1>19 DEF DebugRegister, requestVars
<1>20. ASSUME NEW kind \in {"expected", "unexpected", "base"}, Raise(t, kind)
       PROVE  FrameOK(t)'
  BY <1>20 DEF Raise
<1>21. QED
  BY <1>1, <1>2, <1>3, <1>4, <1>5, <1>6, <1>7, <1>8, <1>9, <1>10, <1>11, <1>12,
     <1>13, <1>14, <1>15, <1>16, <1>17, <1>18, <1>19, <1>20 DEF Acts, ManagerStep

\* SavingOK of one thread.
SaveOK(t) ==
    Saving(t) => /\ mode[t] = "raise" /\ frames[t] # <<>>
                 /\ saved[serving[t]] # <<>>

LEMMA SavingStays ==
  ASSUME Labels, Lists, ServingOK, FramesOK, SavingOK, NEW t \in Thread, Acts(t)
  PROVE  SavingOK'
<1>a. OthersSame(t)
  BY OthersStay
<1>b. ASSUME NEW u \in Thread \ {t}
      PROVE  SaveOK(u)'
  <2>1. SaveOK(u)
    BY DEF SavingOK, SaveOK
  <2>2. serving[u] # None => saved'[serving[u]] = saved[serving[u]]
    BY <1>a, OthersServe DEF OthersSame
  <2>3. mode[u] = "raise" => serving[u] # None
    BY DEF Labels
  <2>4. /\ mode'[u] = mode[u] /\ serving'[u] = serving[u]
        /\ frames'[u] = frames[u] /\ todo'[u] = todo[u] /\ checked'[u] = checked[u]
    BY <1>a DEF OthersSame
  <2>5. QED
    BY <2>1, <2>2, <2>3, <2>4 DEF SaveOK, Saving
<1>c. SUFFICES SaveOK(t)'
  BY <1>b DEF SavingOK, SaveOK
<1>d. SaveOK(t)
  BY DEF SavingOK, SaveOK
<1>e. mode[t] \in {"app", "return", "raise"} => serving[t] \in Request
  BY ServesOne
<1>f. DOMAIN mode = Thread /\ DOMAIN serving = Thread /\ DOMAIN frames = Thread
      /\ DOMAIN todo = Thread /\ DOMAIN checked = Thread /\ DOMAIN saved = Request
  BY DEF Labels, Lists
<1> USE <1>d, <1>e, <1>f DEF SaveOK, Saving
<1>1. CASE Enter(t)
  BY <1>1 DEF Enter, saveVars
<1>2. CASE EnterStreaming(t)
  BY <1>2 DEF EnterStreaming, saveVars
<1>3. CASE Return(t)
  BY <1>3 DEF Return, saveVars
<1>4. CASE Leave(t)
  BY <1>4 DEF Leave, saveVars
<1>5. CASE Iterate(t)
  BY <1>5 DEF Iterate, saveVars
<1>6. CASE Yield(t)
  BY <1>6 DEF Yield, saveVars
<1>7. CASE Abandon(t)
  BY <1>7 DEF Abandon, saveVars
<1>8. CASE Finish(t)
  BY <1>8 DEF Finish, saveVars
<1>9. CASE Save(t)
  <2>1. live[serving[t]] # <<>>
    BY <1>9, ContextLeft DEF Save
  <2>2. QED
    BY <1>9, <2>1 DEF Save, requestVars
<1>10. CASE EnableSwap(t)
  BY <1>10 DEF EnableSwap, requestVars
<1>11. CASE Unwind(t)
  BY <1>11 DEF Unwind, saveVars
<1>12. CASE Catch(t)
  BY <1>12 DEF Catch, saveVars
<1>13. CASE Fail(t)
  BY <1>13 DEF Fail, saveVars
<1>14. CASE DebugEnd(t)
  BY <1>14 DEF DebugEnd, saveVars
<1>15. ASSUME NEW r \in Request, Start(t, r)
       PROVE  SaveOK(t)'
  BY <1>15 DEF Start, saveVars
<1>16. ASSUME NEW r \in Request, DebugBegin(t, r)
       PROVE  SaveOK(t)'
  BY <1>16 DEF DebugBegin, saveVars
<1>17. ASSUME NEW p \in Proxy, EnableCheck(t, p)
       PROVE  SaveOK(t)'
  BY <1>17 DEF EnableCheck, requestVars
<1>18. ASSUME NEW p \in Proxy, NEW o \in Obj, Register(t, p, o)
       PROVE  SaveOK(t)'
  BY <1>18 DEF Register, requestVars, saveVars
<1>19. ASSUME NEW p \in Proxy, NEW o \in Obj, DebugRegister(t, p, o)
       PROVE  SaveOK(t)'
  BY <1>19 DEF DebugRegister, requestVars, saveVars
<1>20. ASSUME NEW kind \in {"expected", "unexpected", "base"}, Raise(t, kind)
       PROVE  SaveOK(t)'
  BY <1>20 DEF Raise, saveVars
<1>21. QED
  BY <1>1, <1>2, <1>3, <1>4, <1>5, <1>6, <1>7, <1>8, <1>9, <1>10, <1>11, <1>12,
     <1>13, <1>14, <1>15, <1>16, <1>17, <1>18, <1>19, <1>20 DEF Acts, ManagerStep

-----------------------------------------------------------------------------
(* The stacks mirror the registry.                                         *)

\* What a thread has registered for a proxy.
Mine(t, p) == IF serving[t] = None THEN <<>> ELSE Registered(serving[t], p)

\* StacksMirrorRegistry of one stack.
MirrorOK(t, p) ==
    /\ OnTop(Mine(t, p), stack[t][p])
    /\ t \notin leaky => Len(stack[t][p]) = Cardinality(Held(Mine(t, p)))

LEMMA MirrorIs ==
  StacksMirrorRegistry <=> \A t \in Thread, p \in Proxy : MirrorOK(t, p)
BY DEF StacksMirrorRegistry, MirrorOK, Mine

LEMMA RegisteredIs ==
  ASSUME Lists, ListsOK, NEW r \in Request, NEW p \in Proxy
  PROVE  /\ Len(live[r]) \in Nat
         /\ Registered(r, p) \in [1..Len(live[r]) -> Slot]
         /\ \A i \in 1..Len(live[r]) : /\ live[r][i] \in 1..Len(context[r])
                                       /\ context[r][live[r][i]] \in Dictionary
                                       /\ Registered(r, p)[i] = context[r][live[r][i]][p]
<1>1. live[r] \in Seq(Nat) /\ context[r] \in Seq(Dictionary)
  BY DEF Lists
<1>2. \A i \in 1..Len(live[r]) : live[r][i] \in 1..Len(context[r])
  BY <1>1 DEF ListsOK, Rising
<1>3. \A i \in 1..Len(live[r]) : context[r][live[r][i]] \in Dictionary
  BY <1>1, <1>2
<1>4. \A i \in 1..Len(live[r]) : context[r][live[r][i]][p] \in Slot
  BY <1>3 DEF Dictionary
<1>5. DOMAIN live[r] = 1..Len(live[r])
  BY <1>1
<1>6. QED
  BY <1>1, <1>2, <1>3, <1>4, <1>5 DEF Registered

LEMMA NothingHeld ==
  ASSUME NEW v, DOMAIN v = {}, NEW s
  PROVE  OnTop(v, s) /\ Cardinality(Held(v)) = 0
<1>1. Held(v) = {}
  BY DEF Held
<1>2. QED
  BY <1>1, FS_EmptySet DEF OnTop

LEMMA EmptyHeld ==
  ASSUME NEW s
  PROVE  OnTop(<<>>, s) /\ Cardinality(Held(<<>>)) = 0
<1>1. DOMAIN <<>> = {}
  OBVIOUS
<1>2. QED
  BY <1>1, NothingHeld

\* Requests the step does not touch hold what they held.
LEMMA MirrorOfOthers ==
  ASSUME Labels, ServingOK, StacksMirrorRegistry, NEW t \in Thread, OthersSame(t),
         \A p \in Proxy : MirrorOK(t, p)'
  PROVE  StacksMirrorRegistry'
<1>1. ASSUME NEW u \in Thread \ {t}, NEW p \in Proxy
      PROVE  MirrorOK(u, p)'
  <2>1. MirrorOK(u, p)
    BY MirrorIs
  <2>2. serving'[u] = serving[u] /\ stack'[u] = stack[u]
        /\ (u \in leaky' <=> u \in leaky)
    BY DEF OthersSame
  <2>3. ASSUME serving[u] # None
        PROVE  /\ live'[serving[u]] = live[serving[u]]
               /\ context'[serving[u]] = context[serving[u]]
    <3>1. serving[u] \in Request \ {serving[t]}
      BY <2>3, OthersServe
    <3>2. serving[u] \notin restored
      BY DEF ServingOK, Served
    <3>3. QED
      BY <3>1, <3>2 DEF OthersSame
  <2>4. serving[u] # None => Registered(serving[u], p)' = Registered(serving[u], p)
    BY <2>2, <2>3 DEF Registered
  <2>5. Mine(u, p)' = Mine(u, p)
    BY <2>2, <2>4 DEF Mine
  <2>6. QED
    BY <2>1, <2>2, <2>5 DEF MirrorOK
<1>2. \A u \in Thread, p \in Proxy : MirrorOK(u, p)'
  BY <1>1
<1>3. QED
  BY <1>2 DEF StacksMirrorRegistry, MirrorOK, Mine

LEMMA MirrorSame ==
  ASSUME NEW t \in Thread, NEW p \in Proxy, MirrorOK(t, p),
         UNCHANGED <<serving, live, context, stack, leaky>>
  PROVE  MirrorOK(t, p)'
BY DEF MirrorOK, Mine, Registered

LEMMA MirrorPrepared ==
  ASSUME Lists, ListsOK, NEW t \in Thread, NEW p \in Proxy, MirrorOK(t, p),
         serving[t] \in Request, Prepare(serving[t]), Lists', ListsOK',
         UNCHANGED <<serving, stack, leaky>>
  PROVE  MirrorOK(t, p)'
<1> DEFINE r == serving[t]
           v == Registered(r, p)
           w == Registered(r, p)'
<1>0. r # None /\ r \in Request
  BY RegistryAssumption
<1>1. PICK n \in Nat : n = Len(live[r])
  BY DEF Lists
<1>2. v \in [1..n -> Slot]
  BY <1>0, <1>1, RegisteredIs
<1>3. /\ live'[r] = Append(live[r], Len(context[r]) + 1)
      /\ context'[r] = Append(context[r], Nothing)
  BY <1>0 DEF Prepare, Lists
<1>4. Len(live'[r]) = n + 1 /\ DOMAIN live'[r] = 1..(n + 1)
  BY <1>1, <1>3 DEF Lists
<1>5. live[r] \in Seq(Nat) /\ context[r] \in Seq(Dictionary)
  BY <1>0 DEF Lists
<1>6. \A i \in 1..n : live[r][i] \in 1..Len(context[r])
  BY <1>0, <1>1, RegisteredIs
<1>7. \A i \in 1..n : live'[r][i] = live[r][i]
  BY <1>1, <1>3, <1>5
<1>8. \A c \in 1..Len(context[r]) : context'[r][c] = context[r][c]
  BY <1>3, <1>5
<1>9. live'[r][n + 1] = Len(context[r]) + 1
      /\ context'[r][Len(context[r]) + 1] = Nothing
  BY <1>1, <1>3, <1>5
<1>10. w = [i \in 1..(n + 1) |-> context'[r][live'[r][i]][p]]
  BY <1>4 DEF Registered
<1>11. w[n + 1] = None /\ \A i \in 1..n : w[i] = v[i]
  <2>1. w[n + 1] = None
    BY <1>9, <1>10, NothingIs
  <2>2. ASSUME NEW i \in 1..n
        PROVE  w[i] = v[i]
    <3>1. w[i] = context'[r][live'[r][i]][p]
      BY <1>10
    <3>2. v[i] = context[r][live[r][i]][p]
      BY <1>0, <1>1, RegisteredIs
    <3>3. QED
      BY <1>6, <1>7, <1>8, <3>1, <3>2
  <2>3. QED
    BY <2>1, <2>2
<1>12. w \in [1..(n + 1) -> Slot]
  <2>1. \A i \in 1..(n + 1) : w[i] \in Slot
    BY <1>2, <1>11 DEF Slot
  <2>2. QED
    BY <1>10, <2>1
<1> HIDE DEF v, w
<1>13. Held(w) = Held(v) /\ \A i \in Held(v) : w[i] = v[i]
  BY <1>2, <1>11, <1>12 DEF Held
<1>14. Mine(t, p) = v /\ Mine(t, p)' = w
  BY <1>0 DEF Mine, v, w
<1>15. OnTop(v, stack[t][p])
  BY <1>14 DEF MirrorOK
<1>16. OnTop(w, stack[t][p])
  <2>1. n + 1 \in Nat
    OBVIOUS
  <2>2. QED
    BY <1>2, <1>12, <1>13, <1>15, <2>1, SameHeld
<1>17. QED
  BY <1>13, <1>14, <1>16 DEF MirrorOK

LEMMA MirrorCleaned ==
  ASSUME Lists, ListsOK, NEW t \in Thread, NEW p \in Proxy, MirrorOK(t, p),
         serving[t] \in Request, live[serving[t]] # <<>>, Cleanup(t),
         UNCHANGED <<serving, context, leaky>>
  PROVE  MirrorOK(t, p)'
<1> DEFINE r == serving[t]
           v == Registered(r, p)
           w == Registered(r, p)'
           s == stack[t][p]
<1>0. r # None /\ r \in Request /\ live[r] # <<>>
  BY RegistryAssumption
<1>1. PICK n \in Nat \ {0} : n = Len(live[r])
  BY <1>0, CurrentIs
<1>2. v \in [1..n -> Slot] /\ \A i \in 1..n : v[i] = context[r][live[r][i]][p]
  BY <1>0, <1>1, RegisteredIs
<1>3. live'[r] = Front(live[r]) /\ live[r] \in Seq(Nat)
  BY <1>0 DEF Cleanup, Lists
<1>4. /\ live'[r] \in Seq(Nat) /\ Len(live'[r]) = n - 1
      /\ \A i \in 1..(n - 1) : live'[r][i] = live[r][i]
  BY <1>0, <1>1, <1>3, FrontOf
<1>5. DOMAIN live'[r] = 1..(n - 1)
  BY <1>4
<1>6. w = [i \in 1..(n - 1) |-> context[r][live'[r][i]][p]]
  BY <1>5 DEF Registered
<1>7. \A i \in 1..(n - 1) : w[i] = v[i]
  <2>1. ASSUME NEW i \in 1..(n - 1)
        PROVE  w[i] = v[i]
    <3>1. w[i] = context[r][live'[r][i]][p]
      BY <1>6
    <3>2. i \in 1..n
      OBVIOUS
    <3>3. v[i] = context[r][live[r][i]][p]
      BY <1>2, <3>2
    <3>4. QED
      BY <1>4, <3>1, <3>3
  <2>2. QED
    BY <2>1
<1>8. w \in [1..(n - 1) -> Slot]
  <2>1. \A i \in 1..(n - 1) : w[i] \in Slot
    BY <1>2, <1>7
  <2>2. QED
    BY <1>6, <2>1
<1>9. Current(t)[p] = v[n]
  BY <1>0, <1>1, <1>2, CurrentIs DEF Current
<1>10. stack'[t][p] = IF v[n] = None THEN s ELSE Front(s)
  BY <1>9 DEF Cleanup, Lists
<1>11. Mine(t, p) = v /\ Mine(t, p)' = w
  BY <1>0 DEF Mine
<1> HIDE DEF v, w
<1>12. OnTop(v, s) /\ s \in Seq(Obj)
  BY <1>11 DEF MirrorOK, Lists
<1> DEFINE z == stack'[t][p]
<1>a. (v[n] = None => z = s) /\ (v[n] # None => z = Front(s))
  BY <1>10
<1> HIDE DEF s, z
<1>13. /\ OnTop(w, z)
       /\ Len(s) = Cardinality(Held(v)) => Len(z) = Cardinality(Held(w))
  BY <1>2, <1>7, <1>8, <1>a, <1>12, HeldPopped
<1>14. QED
  BY <1>11, <1>13 DEF MirrorOK, s, z

LEMMA MirrorRegistered ==
  ASSUME Lists, ListsOK, NEW t \in Thread, NEW p \in Proxy, NEW o \in Obj,
         Register(t, p, o), serving[t] \in Request,
         NEW q \in Proxy, MirrorOK(t, q)
  PROVE  MirrorOK(t, q)'
<1> DEFINE r == serving[t]
           v == Registered(r, q)
           w == Registered(r, q)'
           s == stack[t][q]
           c == Last(live[r])
<1>0. r # None /\ r \in Request /\ live[r] # <<>>
  BY RegistryAssumption DEF Register
<1>1. PICK n \in Nat \ {0} : n = Len(live[r])
  BY <1>0, CurrentIs
<1>2. v \in [1..n -> Slot] /\ \A i \in 1..n : v[i] = context[r][live[r][i]][q]
  BY <1>0, <1>1, RegisteredIs
<1>3. UNCHANGED <<serving, live, leaky>>
  BY DEF Register, requestVars
<1>4. c \in 1..Len(context[r]) /\ context' = [context EXCEPT ![r][c][p] = o]
  BY <1>0, CurrentIs DEF Register
<1>a. EntryIs(r, c, p, o)
  BY <1>0, <1>4, EntrySet
<1>5. /\ \A d \in 1..Len(context[r]) : d # c => context'[r][d] = context[r][d]
      /\ context'[r][c][p] = o
      /\ \A x \in Proxy : x # p => context'[r][c][x] = context[r][c][x]
  BY <1>a DEF EntryIs
<1>6. c = live[r][n] /\ \A i \in 1..n : i # n => live[r][i] # c
  <2>1. c = live[r][n] /\ DOMAIN live[r] = 1..n /\ live[r] \in Seq(Nat)
    BY <1>0, <1>1, CurrentIs DEF Lists
  <2>2. \A i \in 1..n : i # n => live[r][i] < live[r][n]
    BY <1>0, <2>1 DEF ListsOK, Rising
  <2>3. QED
    BY <2>1, <2>2
<1>7. \A i \in 1..n : live[r][i] \in 1..Len(context[r])
  BY <1>0, <1>1, RegisteredIs
<1>8. w = [i \in 1..n |-> context'[r][live[r][i]][q]]
  <2>1. DOMAIN live[r] = 1..n
    BY <1>1 DEF Lists
  <2>2. QED
    BY <1>3, <2>1 DEF Registered
<1>9. \A i \in 1..n : w[i] = IF i = n /\ q = p THEN o ELSE v[i]
  <2>1. ASSUME NEW i \in 1..n
        PROVE  w[i] = IF i = n /\ q = p THEN o ELSE v[i]
    <3>1. w[i] = context'[r][live[r][i]][q] /\ v[i] = context[r][live[r][i]][q]
      BY <1>2, <1>8
    <3>2. CASE i = n
      BY <1>5, <1>6, <3>1, <3>2
    <3>3. CASE i # n
      BY <1>5, <1>6, <1>7, <3>1, <3>3
    <3>4. QED
      BY <3>2, <3>3
  <2>2. QED
    BY <2>1
<1>10. Mine(t, q) = v /\ Mine(t, q)' = w
  BY <1>0, <1>3 DEF Mine
<1>11. Current(t)[p] = context[r][c][p]
  BY DEF Current
<1>12. v[n] = context[r][c][q]
  BY <1>2, <1>6
<1>13. s \in Seq(Obj) /\ OnTop(v, s)
  BY <1>10 DEF Lists, MirrorOK
<1>14. t \notin leaky => Len(s) = Cardinality(Held(v))
  BY <1>10 DEF MirrorOK
<1>15. CASE q # p
  <2>1. w = v
    BY <1>2, <1>8, <1>9, <1>15
  <2>2. stack'[t][q] = s
    BY <1>15 DEF Register, Lists
  <2>3. QED
    BY <1>3, <1>10, <1>13, <1>14, <2>1, <2>2 DEF MirrorOK
<1>16. CASE q = p
  <2>1. w = [v EXCEPT ![n] = o]
    BY <1>2, <1>8, <1>9, <1>16
  <2>2. stack'[t][q] = Pushed(s, v[n], o)
    BY <1>11, <1>12, <1>16 DEF Register, Lists
  <2> HIDE DEF v, w, s
  <2>3. CASE v[n] = None
    <3>1. stack'[t][q] = Append(s, o)
      BY <2>2, <2>3 DEF Pushed
    <3>2. /\ OnTop(w, Append(s, o))
          /\ Cardinality(Held(w)) = Cardinality(Held(v)) + 1
      BY <1>2, <1>13, <2>1, <2>3, HeldPushed
    <3>3. Len(Append(s, o)) = Len(s) + 1
      BY <1>13
    <3>4. QED
      BY <1>3, <1>10, <1>14, <3>1, <3>2, <3>3 DEF MirrorOK
  <2>4. CASE v[n] # None
    <3>1. stack'[t][q] = Append(Front(s), o)
      BY <2>2, <2>4 DEF Pushed
    <3>2. /\ OnTop(w, Append(Front(s), o)) /\ Held(w) = Held(v)
          /\ Len(Append(Front(s), o)) = Len(s)
      BY <1>2, <1>13, <2>1, <2>4, HeldReplaced
    <3>3. QED
      BY <1>3, <1>10, <1>14, <3>1, <3>2 DEF MirrorOK
  <2>5. QED
    BY <2>3, <2>4
<1>17. QED
  BY <1>15, <1>16

\* The request is over.
LEMMA MirrorOver ==
  ASSUME Labels, Lists, ListsOK, NEW t \in Thread, NEW p \in Proxy, MirrorOK(t, p),
         serving[t] \in Request, Rest(t), UNCHANGED stack,
         t \notin leaky' => t \notin leaky
                            /\ \A i \in DOMAIN live[serving[t]] :
                                  context[serving[t]][live[serving[t]][i]] = Nothing
  PROVE  MirrorOK(t, p)'
<1> DEFINE r == serving[t]
           v == Registered(r, p)
<1>1. serving'[t] = None
  BY DEF Rest, Labels
<1>2. Mine(t, p)' = <<>>
  BY <1>1 DEF Mine
<1>3. OnTop(<<>>, stack[t][p]) /\ Cardinality(Held(<<>>)) = 0
  BY EmptyHeld
<1>4. ASSUME t \notin leaky'
      PROVE  Len(stack[t][p]) = 0
  <2>1. t \notin leaky /\ \A i \in DOMAIN live[r] : context[r][live[r][i]] = Nothing
    BY <1>4
  <2>2. Held(v) = {}
    BY <2>1, NothingIs DEF Held, Registered
  <2>3. Cardinality(Held(v)) = 0
    BY <2>2, FS_EmptySet
  <2>4. Mine(t, p) = v
    BY RegistryAssumption DEF Mine
  <2>5. QED
    BY <2>1, <2>3, <2>4 DEF MirrorOK
<1>5. QED
  BY <1>2, <1>3, <1>4 DEF MirrorOK

LEMMA MirrorStays ==
  ASSUME Labels, Lists, ListsOK, ServingOK, FramesOK, StacksMirrorRegistry,
         Lists', ListsOK', NEW t \in Thread, Acts(t)
  PROVE  StacksMirrorRegistry'
<1>a. OthersSame(t)
  BY OthersStay
<1>b. SUFFICES ASSUME NEW x \in Proxy
               PROVE  MirrorOK(t, x)'
  BY <1>a, MirrorOfOthers
<1>c. MirrorOK(t, x)
  BY MirrorIs
<1>d. mode[t] \in {"app", "return", "raise"} => serving[t] \in Request
  BY ServesOne
<1> USE <1>c, <1>d
<1>1. CASE Enter(t)
  BY <1>1, MirrorPrepared DEF Enter
<1>2. CASE EnterStreaming(t)
  BY <1>2, MirrorPrepared DEF EnterStreaming
<1>3. CASE Return(t)
  BY <1>3, MirrorSame DEF Return, requestVars
<1>4. CASE Leave(t)
  <2>1. frames[t] # <<>>
    BY <1>4 DEF Leave, AtFrame
  <2>2. live[serving[t]] # <<>>
    BY <1>4, <2>1, ContextLeft DEF Leave
  <2>3. QED
    BY <1>4, <2>2, MirrorCleaned DEF Leave
<1>5. CASE Iterate(t)
  BY <1>5, MirrorSame DEF Iterate
<1>6. CASE Yield(t)
  BY <1>6, MirrorSame DEF Yield, requestVars
<1>7. CASE Abandon(t)
  <2>1. serving[t] \in Request /\ Rest(t) /\ UNCHANGED stack
        /\ leaky' = LeavesBehind(t)
    BY <1>7 DEF Abandon
  <2>2. t \notin leaky' => t \notin leaky
                           /\ \A i \in DOMAIN live[serving[t]] :
                                 context[serving[t]][live[serving[t]][i]] = Nothing
    BY <2>1 DEF LeavesBehind
  <2>3. QED
    BY <2>1, <2>2, MirrorOver
<1>8. CASE Finish(t)
  <2>1. serving[t] \in Request /\ Rest(t) /\ UNCHANGED <<stack, leaky>>
        /\ frames[t] = <<>> /\ ~pending[t] /\ mode[t] = "return"
    BY <1>8 DEF Finish
  <2>2. Len(live[serving[t]]) = 0
    <3>1. FrameOK(t) /\ serving[t] # None
      BY <2>1, RegistryAssumption DEF FramesOK
    <3>2. raised[t] = "none" /\ Len(frames[t]) = 0
      BY <2>1, <3>1 DEF FrameOK
    <3>3. QED
      BY <2>1, <3>1, <3>2 DEF FrameOK
  <2>3. DOMAIN live[serving[t]] = {}
    BY <2>1, <2>2 DEF Lists
  <2>4. QED
    BY <2>1, <2>3, MirrorOver
<1>9. CASE Save(t)
  BY <1>9, MirrorSame DEF Save, requestVars
<1>10. CASE EnableSwap(t)
  BY <1>10, MirrorSame DEF EnableSwap, requestVars
<1>11. CASE Unwind(t)
  <2>1. live[serving[t]] # <<>> /\ serving[t] \in Request
    BY <1>11, ContextLeft DEF Unwind
  <2>2. UNCHANGED <<serving, context, leaky>>
    BY <1>11 DEF Unwind
  <2>3. CASE Cleanup(t)
    BY <2>1, <2>2, <2>3, MirrorCleaned
  <2>4. CASE UNCHANGED <<stack, live>>
    BY <2>2, <2>4, MirrorSame
  <2>5. QED
    BY <1>11, <2>3, <2>4 DEF Unwind
<1>12. CASE Catch(t)
  BY <1>12, MirrorSame DEF Catch
<1>13. CASE Fail(t)
  <2>1. serving[t] \in Request /\ Rest(t) /\ UNCHANGED stack
        /\ leaky' = LeavesBehind(t)
    BY <1>13 DEF Fail
  <2>2. t \notin leaky' => t \notin leaky
                           /\ \A i \in DOMAIN live[serving[t]] :
                                 context[serving[t]][live[serving[t]][i]] = Nothing
    BY <2>1 DEF LeavesBehind
  <2>3. QED
    BY <2>1, <2>2, MirrorOver
<1>14. CASE DebugEnd(t)
  BY <1>14, MirrorSame DEF DebugEnd, requestVars
<1>15. ASSUME NEW r \in Request, Start(t, r)
       PROVE  MirrorOK(t, x)'
  <2>1. serving[t] = None /\ ~Served(r) /\ r \notin debugInfos
    BY <1>15 DEF Start, Labels, Served
  <2>2. live[r] = <<>>
    BY <2>1 DEF ServingOK
  <2>3. serving'[t] = r /\ r # None /\ UNCHANGED <<live, context, stack, leaky>>
    BY <1>15, RegistryAssumption DEF Start, Labels
  <2>4. DOMAIN Mine(t, x)' = {}
    BY <2>2, <2>3 DEF Mine, Registered
  <2>5. Mine(t, x) = <<>>
    BY <2>1 DEF Mine
  <2>6. t \notin leaky => Len(stack[t][x]) = 0
    BY <2>5, EmptyHeld DEF MirrorOK
  <2>7. OnTop(Mine(t, x)', stack[t][x]) /\ Cardinality(Held(Mine(t, x)')) = 0
    BY <2>4, NothingHeld
  <2>8. QED
    BY <2>3, <2>6, <2>7 DEF MirrorOK
<1>16. ASSUME NEW r \in Request, DebugBegin(t, r)
       PROVE  MirrorOK(t, x)'
  BY <1>16, MirrorSame DEF DebugBegin, requestVars
<1>17. ASSUME NEW p \in Proxy, EnableCheck(t, p)
       PROVE  MirrorOK(t, x)'
  BY <1>17, MirrorSame DEF EnableCheck, requestVars
<1>18. ASSUME NEW p \in Proxy, NEW o \in Obj, Register(t, p, o)
       PROVE  MirrorOK(t, x)'
  <2>1. serving[t] \in Request
    BY <1>18 DEF Register
  <2>2. QED
    BY <1>18, <2>1, MirrorRegistered
<1>19. ASSUME NEW p \in Proxy, NEW o \in Obj, DebugRegister(t, p, o)
       PROVE  MirrorOK(t, x)'
  <2>1. serving[t] = None /\ serving' = serving
    BY <1>19 DEF DebugRegister, Labels, requestVars
  <2>2. Mine(t, x) = <<>> /\ Mine(t, x)' = <<>>
    BY <2>1 DEF Mine
  <2>3. t \notin leaky' => t \notin leaky /\ stack' = stack
    BY <1>19 DEF DebugRegister
  <2>4. QED
    BY <2>2, <2>3, EmptyHeld DEF MirrorOK
<1>20. ASSUME NEW kind \in {"expected", "unexpected", "base"}, Raise(t, kind)
       PROVE  MirrorOK(t, x)'
  BY <1>20, MirrorSame DEF Raise
<1>21. QED
  BY <1>1, <1>2, <1>3, <1>4, <1>5, <1>6, <1>7, <1>8, <1>9, <1>10, <1>11, <1>12,
     <1>13, <1>14, <1>15, <1>16, <1>17, <1>18, <1>19, <1>20 DEF Acts, ManagerStep

-----------------------------------------------------------------------------
(* What the debugger sees.                                                 *)

LEMMA Least ==
  ASSUME NEW T, T \subseteq Nat, T # {}
  PROVE  \E x \in T : \A y \in T : x <= y
<1>1. PICK x \in T : \A y \in T : ~ (<<y, x>> \in OpToRel(<, Nat))
  BY NatLessThanWellFounded, WFMin
<1>2. ASSUME NEW y \in T
      PROVE  x <= y
  <2>1. x \in Nat /\ y \in Nat
    OBVIOUS
  <2>2. ~ (y < x)
    BY <1>1, <2>1 DEF OpToRel
  <2>3. QED
    BY <2>1, <2>2
<1>3. QED
  BY <1>2

LEMMA Greatest ==
  ASSUME NEW n \in Nat, NEW T, T \subseteq 1..n, T # {}
  PROVE  \E i \in T : \A j \in T : j <= i
<1> DEFINE U == {d \in 0..n : n - d \in T}
<1>1. PICK i \in T : TRUE
  OBVIOUS
<1>2. i \in 1..n /\ n - i \in 0..n /\ n - (n - i) = i
  BY <1>1
<1>a. n - i \in U
  BY <1>1, <1>2
<1>3. U \subseteq Nat
  OBVIOUS
<1> HIDE DEF U
<1>b. U # {}
  BY <1>a
<1>4. PICK x \in U : \A y \in U : x <= y
  BY <1>3, <1>b, Least
<1>5. x \in 0..n /\ n - x \in T
  BY <1>4 DEF U
<1>6. ASSUME NEW j \in T
      PROVE  j <= n - x
  <2>1. j \in 1..n /\ n - j \in 0..n /\ n - (n - j) = j
    OBVIOUS
  <2>2. n - j \in U
    BY <2>1 DEF U
  <2>3. x <= n - j
    BY <1>4, <2>2
  <2>4. QED
    BY <1>5, <2>1, <2>3
<1>7. QED
  BY <1>5, <1>6

\* RaisedOK of one thread.
RaiseOK(t) ==
    serving[t] # None =>
        LET r == serving[t] IN
        /\ mode[t] # "raise" => /\ atRaise[r] = Nothing
                                /\ saved[r] # <<>> => r \in caught
        /\ saved[r] = <<>> /\ atRaise[r] # Nothing => t \notin leaky
        /\ raised[t] = "unexpected" /\ debugging =>
              \A p \in Proxy : atRaise[r][p] # None =>
                  IF saved[r] = <<>> THEN Top(stack[t][p]) = atRaise[r][p]
                  ELSE Kept(r, p) /\ p \in swapped \cup todo[t] \cup {checked[t]}

LEMMA RaiseIs == RaisedOK <=> \A t \in Thread : RaiseOK(t)
BY DEF RaisedOK, RaiseOK

LEMMA KeptSame ==
  ASSUME NEW r, NEW p, Kept(r, p), context'[r] = context[r], saved'[r] = saved[r],
         atRaise'[r] = atRaise[r]
  PROVE  Kept(r, p)'
BY DEF Kept, Holding

LEMMA RaisedOfOthers ==
  ASSUME Labels, ServingOK, RaisedOK, NEW t \in Thread, OthersSame(t), RaiseOK(t)'
  PROVE  RaisedOK'
<1>1. ASSUME NEW u \in Thread \ {t}
      PROVE  RaiseOK(u)'
  <2>1. RaiseOK(u)
    BY RaiseIs
  <2>2. serving'[u] = serving[u] /\ mode'[u] = mode[u] /\ raised'[u] = raised[u]
        /\ stack'[u] = stack[u] /\ todo'[u] = todo[u] /\ checked'[u] = checked[u]
        /\ (u \in leaky' <=> u \in leaky)
    BY DEF OthersSame
  <2>3. debugging' = debugging /\ swapped \subseteq swapped'
    BY DEF OthersSame
  <2>4. CASE serving[u] = None
    BY <2>2, <2>4 DEF RaiseOK
  <2>5. CASE serving[u] # None
    <3>0. PICK q \in Request : q = serving[u]
      BY <2>5 DEF Labels
    <3>1. q \in Request \ {serving[t]}
      BY <2>5, <3>0, OthersServe
    <3>2. q \notin restored
      BY <3>0 DEF ServingOK, Served
    <3>3. /\ context'[q] = context[q] /\ saved'[q] = saved[q]
          /\ atRaise'[q] = atRaise[q] /\ (q \in caught' <=> q \in caught)
      BY <3>1, <3>2 DEF OthersSame
    <3>4. \A p \in Proxy : Kept(q, p) => Kept(q, p)'
      BY <3>3, KeptSame
    <3>5. /\ mode[u] # "raise" => /\ atRaise[q] = Nothing
                                  /\ saved[q] # <<>> => q \in caught
          /\ saved[q] = <<>> /\ atRaise[q] # Nothing => u \notin leaky
          /\ raised[u] = "unexpected" /\ debugging =>
                \A p \in Proxy : atRaise[q][p] # None =>
                    IF saved[q] = <<>> THEN Top(stack[u][p]) = atRaise[q][p]
                    ELSE Kept(q, p) /\ p \in swapped \cup todo[u] \cup {checked[u]}
      BY <2>1, <2>5, <3>0 DEF RaiseOK
    <3>6. /\ mode'[u] # "raise" => /\ atRaise'[q] = Nothing
                                   /\ saved'[q] # <<>> => q \in caught'
          /\ saved'[q] = <<>> /\ atRaise'[q] # Nothing => u \notin leaky'
      BY <2>2, <3>3, <3>5
    <3>7. ASSUME raised'[u] = "unexpected", debugging', NEW p \in Proxy,
                 atRaise'[q][p] # None
          PROVE  IF saved'[q] = <<>> THEN Top(stack'[u][p]) = atRaise'[q][p]
                 ELSE Kept(q, p)' /\ p \in swapped' \cup todo'[u] \cup {checked'[u]}
      <4>1. IF saved[q] = <<>> THEN Top(stack[u][p]) = atRaise[q][p]
            ELSE Kept(q, p) /\ p \in swapped \cup todo[u] \cup {checked[u]}
        BY <2>2, <2>3, <3>3, <3>5, <3>7
      <4>2. CASE saved[q] = <<>>
        BY <2>2, <3>3, <4>1, <4>2
      <4>3. CASE saved[q] # <<>>
        BY <2>2, <2>3, <3>3, <3>4, <4>1, <4>3
      <4>4. QED
        BY <4>2, <4>3
    <3>8. serving'[u] = q
      BY <2>2, <3>0
    <3>9. QED
      BY <3>6, <3>7, <3>8 DEF RaiseOK
  <2>6. QED
    BY <2>4, <2>5
<1>2. \A u \in Thread : RaiseOK(u)'
  BY <1>1
<1>3. QED
  BY <1>2 DEF RaisedOK, RaiseOK

LEMMA NotServing ==
  ASSUME NEW t, serving'[t] = None
  PROVE  RaiseOK(t)'
BY DEF RaiseOK

\* No exception is on its way.
LEMMA NoneRaised ==
  ASSUME NEW t, NEW r, serving'[t] = r,
         atRaise'[r] = Nothing, saved'[r] # <<>> => r \in caught'
  PROVE  RaiseOK(t)'
BY NothingIs DEF RaiseOK, Nothing

LEMMA StillNoneRaised ==
  ASSUME NEW t \in Thread, RaiseOK(t), serving[t] # None, mode[t] # "raise",
         UNCHANGED <<serving, atRaise, saved, caught>>
  PROVE  RaiseOK(t)'
<1>1. atRaise[serving[t]] = Nothing
      /\ (saved[serving[t]] # <<>> => serving[t] \in caught)
  BY DEF RaiseOK
<1>2. QED
  BY <1>1, NoneRaised

\* When the registry is saved, the last context with a proxy holds the last of
\* the stack.
LEMMA SavedAsRaised ==
  ASSUME Labels, Lists, ListsOK, NEW t \in Thread, serving[t] \in Request, Save(t),
         NEW p \in Proxy, MirrorOK(t, p), t \notin leaky,
         atRaise[serving[t]][p] # None,
         Top(stack[t][p]) = atRaise[serving[t]][p]
  PROVE  Kept(serving[t], p)' /\ p \in todo'[t]
<1>r. PICK r \in Request : r = serving[t]
  OBVIOUS
<1> DEFINE v == Registered(r, p)
           s == stack[t][p]
<1>0. r \in Request /\ r # None /\ serving'[t] = r
  BY <1>r, RegistryAssumption DEF Save, requestVars
<1>1. PICK n \in Nat : n = Len(live[r])
  BY <1>0 DEF Lists
<1>2. v \in [1..n -> Slot] /\ \A i \in 1..n : v[i] = context[r][live[r][i]][p]
  BY <1>0, <1>1, RegisteredIs
<1>3. OnTop(v, s) /\ Len(s) = Cardinality(Held(v)) /\ s \in Seq(Obj)
  BY <1>r, <1>0 DEF MirrorOK, Mine, Lists
<1>4. s # <<>> /\ s[Len(s)] = atRaise[r][p]
  BY <1>r DEF Top, Last
<1>5. saved'[r] = live[r] /\ todo'[t] = {x \in Proxy : \E i \in DOMAIN live[r] :
                                            context[r][live[r][i]][x] # None}
  <2>1. saved'[r] = live[r]
    BY <1>r DEF Save, Lists
  <2>2. todo' = [todo EXCEPT ![t] = {x \in Proxy : \E i \in DOMAIN live[r] :
                                         context[r][live[r][i]][x] # None}]
    BY <1>r DEF Save
  <2>3. QED
    BY <2>1, <2>2 DEF Labels
<1>6. context' = context /\ atRaise' = atRaise
  BY DEF Save
<1>7. DOMAIN live[r] = 1..n
  BY <1>0, <1>1 DEF Lists
<1> HIDE DEF v, s
<1>8. Held(v) # {} /\ Held(v) \subseteq 1..n
  <2>1. Held(v) \subseteq 1..n
    BY <1>2, HeldFinite
  <2>2. Len(s) # 0
    BY <1>3, <1>4
  <2>3. QED
    BY <1>3, <2>1, <2>2, FS_EmptySet
<1>9. PICK i \in Held(v) : \A j \in Held(v) : j <= i
  BY <1>8, Greatest
<1>10. Above(v, i) = {i}
  <2>1. \A j \in Held(v) : i <= j => j = i
    BY <1>8, <1>9
  <2>2. i <= i
    BY <1>8
  <2>3. QED
    BY <1>9, <2>1, <2>2 DEF Above
<1>11. Cardinality(Above(v, i)) = 1
  BY <1>10, FS_Singleton
<1>12. s[Len(s) + 1 - 1] = v[i]
  BY <1>2, <1>3, <1>9, <1>11, OnTopIs
<1>13. v[i] = atRaise[r][p]
  <2>1. Len(s) + 1 - 1 = Len(s)
    BY <1>3
  <2>2. QED
    BY <1>4, <1>12, <2>1
<1>14. \A j \in 1..n : j \in Held(v) <=> context[r][live[r][j]][p] # None
  BY <1>2 DEF Held
<1>15. Holding(r, p)' = Held(v)
  BY <1>5, <1>6, <1>7, <1>8, <1>14 DEF Holding
<1>16. Kept(r, p)'
  BY <1>2, <1>5, <1>6, <1>8, <1>9, <1>13, <1>15 DEF Kept
<1>17. p \in todo'[t]
  BY <1>5, <1>7, <1>8, <1>9, <1>14
<1>18. QED
  BY <1>0, <1>16, <1>17

LEMMA RaisedStays ==
  ASSUME Labels, Lists, ListsOK, ServingOK, FramesOK, SavingOK,
         StacksMirrorRegistry, RaisedOK, NEW t \in Thread, Acts(t)
  PROVE  RaisedOK'
<1>a. OthersSame(t)
  BY OthersStay
<1>b. SUFFICES RaiseOK(t)'
  BY <1>a, RaisedOfOthers
<1>c. RaiseOK(t) /\ FrameOK(t)
  BY RaiseIs DEF FramesOK
<1>d. mode[t] \in {"app", "return", "raise"} =>
         serving[t] \in Request /\ serving[t] # None
  BY ServesOne, RegistryAssumption
<1> USE <1>c, <1>d
<1>1. CASE Enter(t)
  BY <1>1, StillNoneRaised DEF Enter
<1>2. CASE EnterStreaming(t)
  BY <1>2, StillNoneRaised DEF EnterStreaming
<1>3. CASE Return(t)
  BY <1>3, StillNoneRaised DEF Return, requestVars
<1>4. CASE Leave(t)
  BY <1>4, StillNoneRaised DEF Leave
<1>5. CASE Iterate(t)
  BY <1>5, StillNoneRaised DEF Iterate
<1>6. CASE Yield(t)
  BY <1>6, StillNoneRaised DEF Yield, requestVars
<1>7. CASE Abandon(t)
  BY <1>7, NotServing DEF Abandon, Rest, Labels
<1>8. CASE Finish(t)
  BY <1>8, NotServing DEF Finish, Rest, Labels
<1>9. CASE Save(t)
  <2>r. PICK r \in Request : r = serving[t]
    BY <1>9 DEF Save
  <2>1. /\ mode[t] = "raise" /\ raised[t] = "unexpected" /\ debugging
        /\ saved[r] = <<>> /\ r # None
    BY <1>9, <2>r DEF Save
  <2>2. UNCHANGED <<debugging, mode, serving, raised, atRaise, caught>>
    BY <1>9 DEF Save, requestVars
  <2>3. saved'[r] = live[r] /\ live[r] # <<>>
    BY <1>9, <2>r, ContextLeft DEF Save, Lists
  <2>4. ASSUME NEW p \in Proxy, atRaise[r][p] # None
        PROVE  Kept(r, p)' /\ p \in todo'[t]
    <3>1. Top(stack[t][p]) = atRaise[r][p]
      BY <2>r, <2>1, <2>4 DEF RaiseOK
    <3>2. t \notin leaky
      BY <2>r, <2>1, <2>4, NothingIs DEF RaiseOK
    <3>3. MirrorOK(t, p)
      BY MirrorIs
    <3>4. QED
      BY <1>9, <2>r, <2>2, <2>4, <3>1, <3>2, <3>3, SavedAsRaised
  <2>5. QED
    BY <2>r, <2>1, <2>2, <2>3, <2>4 DEF RaiseOK
<1>10. CASE EnableSwap(t)
  <2>1. /\ UNCHANGED <<debugging, mode, serving, raised, saved, context, stack,
                       atRaise, caught, leaky, todo>>
        /\ swapped' = swapped \cup {checked[t]}
    BY <1>10 DEF EnableSwap, requestVars
  <2>2. \A p \in Proxy : Kept(serving[t], p)' <=> Kept(serving[t], p)
    BY <2>1 DEF Kept, Holding
  <2>3. QED
    BY <2>1, <2>2 DEF RaiseOK
<1>11. CASE Unwind(t)
  <2>1. UNCHANGED <<debugging, mode, serving, raised, saved, context, atRaise, caught,
                    leaky, todo, checked, swapped>>
    BY <1>11 DEF Unwind, saveVars
  <2>2. /\ mode[t] = "raise"
        /\ raised[t] = "unexpected" /\ debugging => saved[serving[t]] # <<>>
    BY <1>11 DEF Unwind
  <2>3. \A p \in Proxy : Kept(serving[t], p)' <=> Kept(serving[t], p)
    BY <2>1 DEF Kept, Holding
  <2>4. QED
    BY <2>1, <2>2, <2>3 DEF RaiseOK
<1>12. CASE Catch(t)
  <2>1. serving[t] \in Request /\ serving'[t] = serving[t]
    BY <1>12 DEF Catch
  <2>2. atRaise'[serving[t]] = Nothing /\ serving[t] \in caught'
    BY <1>12, <2>1 DEF Catch, Lists
  <2>3. QED
    BY <2>1, <2>2, NoneRaised
<1>13. CASE Fail(t)
  BY <1>13, NotServing DEF Fail, Rest, Labels
<1>14. CASE DebugEnd(t)
  BY <1>14, NotServing DEF DebugEnd, requestVars, Labels
<1>15. ASSUME NEW r \in Request, Start(t, r)
       PROVE  RaiseOK(t)'
  <2>1. ~Served(r) /\ r \notin debugInfos
    BY <1>15 DEF Start, Served
  <2>2. atRaise[r] = Nothing /\ saved[r] = <<>>
    BY <2>1 DEF ServingOK
  <2>3. serving'[t] = r /\ UNCHANGED <<atRaise, saved>>
    BY <1>15 DEF Start, Labels
  <2>4. QED
    BY <2>2, <2>3, NoneRaised
<1>16. ASSUME NEW r \in Request, DebugBegin(t, r)
       PROVE  RaiseOK(t)'
  BY <1>16, NotServing DEF DebugBegin, requestVars, Labels
<1>17. ASSUME NEW p \in Proxy, EnableCheck(t, p)
       PROVE  RaiseOK(t)'
  <2>1. UNCHANGED <<debugging, mode, serving, raised, saved, context, stack, atRaise,
                    caught, leaky, swapped>>
    BY <1>17 DEF EnableCheck, requestVars
  <2>2. /\ todo'[t] = todo[t] \ {p} /\ checked[t] = None
        /\ checked'[t] = IF p \in swapped THEN None ELSE p
    BY <1>17 DEF EnableCheck, Labels
  <2>3. \A x \in Proxy : x \in swapped \cup todo[t] \cup {checked[t]} =>
                            x \in swapped \cup todo'[t] \cup {checked'[t]}
    BY <2>2, RegistryAssumption
  <2>4. \A x \in Proxy : Kept(serving[t], x)' <=> Kept(serving[t], x)
    BY <2>1 DEF Kept, Holding
  <2>5. QED
    BY <2>1, <2>3, <2>4 DEF RaiseOK
<1>18. ASSUME NEW p \in Proxy, NEW o \in Obj, Register(t, p, o)
       PROVE  RaiseOK(t)'
  BY <1>18, StillNoneRaised DEF Register, requestVars
<1>19. ASSUME NEW p \in Proxy, NEW o \in Obj, DebugRegister(t, p, o)
       PROVE  RaiseOK(t)'
  BY <1>19, NotServing DEF DebugRegister, requestVars, Labels
<1>20. ASSUME NEW kind \in {"expected", "unexpected", "base"}, Raise(t, kind)
       PROVE  RaiseOK(t)'
  <2>r. PICK r \in Request : r = serving[t] /\ r # None /\ serving'[t] = r
    BY <1>20 DEF Raise
  <2>1. atRaise[r] = Nothing /\ (saved[r] # <<>> => r \in caught)
    BY <1>20, <2>r DEF RaiseOK, Raise
  <2>2. UNCHANGED <<stack, saved, caught, leaky>>
    BY <1>20 DEF Raise
  <2>3. CASE r \in caught \/ t \in leaky
    <3>1. atRaise'[r] = Nothing
      BY <1>20, <2>r, <2>1, <2>3 DEF Raise, Lists
    <3>2. saved'[r] # <<>> => r \in caught'
      BY <2>1, <2>2
    <3>3. QED
      BY <2>r, <3>1, <3>2, NoneRaised
  <2>4. CASE ~ (r \in caught \/ t \in leaky)
    <3>1. atRaise'[r] = [p \in Proxy |-> Top(stack[t][p])]
      BY <1>20, <2>r, <2>4 DEF Raise, Lists
    <3>2. saved'[r] = <<>> /\ t \notin leaky' /\ mode'[t] = "raise"
      BY <1>20, <2>1, <2>2, <2>4 DEF Raise, Labels
    <3>3. \A p \in Proxy : Top(stack'[t][p]) = atRaise'[r][p]
      BY <2>2, <3>1
    <3>4. QED
      BY <2>r, <3>2, <3>3 DEF RaiseOK
  <2>5. QED
    BY <2>3, <2>4
<1>21. QED
  BY <1>1, <1>2, <1>3, <1>4, <1>5, <1>6, <1>7, <1>8, <1>9, <1>10, <1>11, <1>12,
     <1>13, <1>14, <1>15, <1>16, <1>17, <1>18, <1>19, <1>20 DEF Acts, ManagerStep

LEMMA DebugRegisterKeeps ==
  ASSUME Labels, Lists, ListsOK, ServingOK, DebugOK, NEW t \in Thread,
         NEW p \in Proxy, NEW o \in Obj, DebugRegister(t, p, o),
         NEW q \in debugInfos, NEW x \in Proxy, saved[q] # <<>>, atRaise'[q][x] # None
  PROVE  Kept(q, x)' /\ x \in swapped
<1>r. PICK r \in Request : r = restoring[t] /\ saved[r] # <<>> /\ q \in Request
  BY DEF DebugRegister, ServingOK, Labels
<1>c. PICK c : c = Last(saved[r])
  OBVIOUS
<1>1. saved' = saved /\ swapped' = swapped
  BY DEF DebugRegister, saveVars
<1>2. CASE UNCHANGED <<context, atRaise>>
  BY <1>1, <1>2, KeptSame DEF DebugOK
<1>3. CASE /\ context' = [context EXCEPT ![r][c][p] = o]
           /\ atRaise' = IF p \in swapped /\ atRaise[r][p] # None
                         THEN [atRaise EXCEPT ![r][p] = o] ELSE atRaise
  <2>1. EntryIs(r, c, p, o)
    BY <1>r, <1>c, <1>3, SavedIs, EntrySet
  <2>2. atRaise[q][x] # None
    BY <1>r, <1>3 DEF Lists, Dictionary
  <2>3. Kept(q, x) /\ x \in swapped
    BY <2>2 DEF DebugOK
  <2>4. CASE q # r
    <3>1. context'[q] = context[q] /\ atRaise'[q] = atRaise[q]
      BY <1>r, <1>3, <2>1, <2>4 DEF EntryIs, Lists
    <3>2. QED
      BY <1>1, <2>3, <3>1, KeptSame
  <2>5. CASE q = r /\ x # p
    <3>1. \A i \in DOMAIN saved[r] : saved[r][i] \in 1..Len(context[r])
      BY DEF ListsOK, Rising
    <3>2. \A i \in DOMAIN saved[r] :
             context'[r][saved[r][i]][x] = context[r][saved[r][i]][x]
      BY <2>1, <2>5, <3>1 DEF EntryIs
    <3>3. Holding(r, x)' = Holding(r, x)
      BY <1>1, <3>2 DEF Holding
    <3>4. atRaise'[r][x] = atRaise[r][x]
      BY <1>3, <2>5 DEF Lists, Dictionary
    <3>5. PICK i \in Holding(r, x) : /\ \A j \in Holding(r, x) : j <= i
                                     /\ context[r][saved[r][i]][x] = atRaise[r][x]
      BY <2>3, <2>5 DEF Kept
    <3>6. context'[r][saved'[r][i]][x] = atRaise'[r][x]
      BY <1>1, <3>2, <3>4, <3>5 DEF Holding
    <3>7. QED
      BY <2>3, <2>5, <3>3, <3>5, <3>6 DEF Kept
  <2>6. CASE q = r /\ x = p
    <3>1. PICK n \in Nat : n = Len(saved[r]) /\ n \in DOMAIN saved[r] /\ c = saved[r][n]
                           /\ DOMAIN saved[r] = 1..n
      BY <1>r, <1>c, SavedIs DEF Lists
    <3>2. context'[r][c][p] = o /\ o # None
      BY <2>1, RegistryAssumption DEF EntryIs
    <3>3. atRaise'[r][p] = o
      BY <1>3, <2>2, <2>3, <2>6 DEF Lists, Dictionary
    <3>4. n \in Holding(r, p)' /\ \A j \in Holding(r, p)' : j <= n
      BY <1>1, <3>1, <3>2 DEF Holding
    <3>5. context'[r][saved'[r][n]][p] = atRaise'[r][p]
      BY <1>1, <3>1, <3>2, <3>3
    <3>6. QED
      BY <2>3, <2>6, <3>4, <3>5 DEF Kept
  <2>7. QED
    BY <2>4, <2>5, <2>6
<1>4. QED
  BY <1>r, <1>c, <1>2, <1>3 DEF DebugRegister

LEMMA DebugStays ==
  ASSUME Labels, Lists, ListsOK, ServingOK, SavingOK, RaisedOK, DebugOK,
         NEW t \in Thread, Acts(t)
  PROVE  DebugOK'
<1>a. OthersSame(t)
  BY OthersStay
<1>1. ASSUME NEW q \in debugInfos, NEW x \in Proxy, saved'[q] # <<>>,
             atRaise'[q][x] # None
      PROVE  Kept(q, x)' /\ x \in swapped'
  <2>1. q \in Request \ {serving[t]} /\ saved'[q] = saved[q]
    BY <1>a DEF Labels, ServingOK, Served, OthersSame
  <2>2. CASE DebuggerRegisters(t)
    <3>1. PICK p \in Proxy, o \in Obj : DebugRegister(t, p, o)
      BY <2>2 DEF DebuggerRegisters
    <3>2. Kept(q, x)' /\ x \in swapped
      BY <1>1, <2>1, <3>1, DebugRegisterKeeps
    <3>3. QED
      BY <1>a, <3>2 DEF OthersSame
  <2>3. CASE ~DebuggerRegisters(t)
    <3>1. context'[q] = context[q] /\ atRaise'[q] = atRaise[q]
      BY <1>a, <2>1, <2>3 DEF OthersSame
    <3>2. Kept(q, x) /\ x \in swapped
      BY <1>1, <2>1, <3>1 DEF DebugOK
    <3>3. QED
      BY <1>a, <2>1, <3>1, <3>2, KeptSame DEF OthersSame
  <2>4. QED
    BY <2>2, <2>3
<1>2. CASE debugInfos' = debugInfos
  BY <1>1, <1>2 DEF DebugOK
<1>3. CASE Fail(t) /\ debugInfos' # debugInfos
  <2>r. PICK r \in Request : r = serving[t] /\ r # None
    BY <1>3, ServesOne, RegistryAssumption DEF Fail
  <2>1. /\ debugging /\ raised[t] = "unexpected" /\ mode[t] = "raise"
        /\ frames[t] = <<>> /\ debugInfos' = debugInfos \cup {r}
        /\ UNCHANGED <<context, saved, atRaise, swapped>>
    BY <1>3, <2>r DEF Fail, saveVars
  <2>2. todo[t] = {} /\ checked[t] = None
    BY <2>1 DEF SavingOK, Saving
  <2>3. ASSUME NEW x \in Proxy, saved[r] # <<>>, atRaise[r][x] # None
        PROVE  Kept(r, x)' /\ x \in swapped'
    <3>1. Kept(r, x) /\ x \in swapped \cup todo[t] \cup {checked[t]}
      BY <2>r, <2>1, <2>3, RaiseIs DEF RaiseOK
    <3>2. x # None
      BY RegistryAssumption
    <3>3. QED
      BY <2>1, <2>2, <3>1, <3>2, KeptSame
  <2>4. QED
    BY <1>1, <2>1, <2>3 DEF DebugOK
<1>4. QED
  BY <1>a, <1>2, <1>3 DEF OthersSame

\* What the saved contexts hold is what a proxy stands for in evaluated code.
LEMMA DebuggerSees ==
  ASSUME Labels, Lists, ServingOK, DebugOK
  PROVE  DebuggerSeesTheObjects
<1>1. ASSUME NEW t \in Thread, NEW p \in Proxy, restoring[t] \in restored,
             atRaise[restoring[t]][p] # None
      PROVE  Restored(t, p) = atRaise[restoring[t]][p]
  <2>r. PICK r \in Request : r = restoring[t]
    BY <1>1 DEF Labels
  <2>1. Kept(r, p) /\ p \in swapped
    BY <1>1, <2>r DEF ServingOK, DebugOK
  <2>2. PICK i \in Holding(r, p) : /\ \A j \in Holding(r, p) : j <= i
                                   /\ context[r][saved[r][i]][p] = atRaise[r][p]
    BY <2>1 DEF Kept
  <2> DEFINE k == CHOOSE m \in Holding(r, p) : \A j \in Holding(r, p) : j <= m
  <2>3. k \in Holding(r, p) /\ \A j \in Holding(r, p) : j <= k
    BY <2>2
  <2>a. DOMAIN saved[r] = 1..Len(saved[r])
    BY DEF Lists
  <2> HIDE DEF k
  <2>b. i \in 1..Len(saved[r]) /\ k \in 1..Len(saved[r])
    BY <2>2, <2>3, <2>a DEF Holding
  <2>4. k = i
    BY <2>2, <2>3, <2>b
  <2>5. Restored(t, p) = context[r][saved[r][k]][p]
    BY <2>r, <2>1, <2>2 DEF Restored, k
  <2>6. QED
    BY <2>r, <2>2, <2>4, <2>5
<1>2. QED
  BY <1>1 DEF DebuggerSeesTheObjects

-----------------------------------------------------------------------------

LEMMA RegistryInit ==
  Init => RegistryInv
<1> SUFFICES ASSUME Init
             PROVE  RegistryInv
  OBVIOUS
<1>1. Labels
  BY RegistryAssumption DEF Init, Labels
<1>2. Lists
  BY NothingIs DEF Init, Lists
<1>3. ListsOK
  <2>1. \A r \in Request : live[r] = <<>> /\ saved[r] = <<>> /\ Len(context[r]) \in Nat
    BY DEF Init
  <2>2. QED
    BY <2>1, RisingEmpty DEF ListsOK
<1>4. ServingOK
  BY DEF Init, ServingOK, Served
<1>5. FramesOK
  BY DEF Init, FramesOK, FrameOK
<1>6. SavingOK
  BY DEF Init, SavingOK, Saving
<1>7. StacksMirrorRegistry
  <2>1. ASSUME NEW t \in Thread, NEW p \in Proxy
        PROVE  MirrorOK(t, p)
    <3>1. Mine(t, p) = <<>> /\ Len(stack[t][p]) = 0
      BY DEF Init, Mine
    <3>2. QED
      BY <3>1, EmptyHeld DEF MirrorOK
  <2>2. QED
    BY <2>1, MirrorIs
<1>8. RaisedOK
  BY DEF Init, RaisedOK
<1>9. DebugOK
  BY DEF Init, DebugOK
<1>10. QED
  BY <1>1, <1>2, <1>3, <1>4, <1>5, <1>6, <1>7, <1>8, <1>9, TwoTypes DEF RegistryInv

LEMMA RegistryStep ==
  RegistryInv /\ [Next]_vars => RegistryInv'
<1> SUFFICES ASSUME RegistryInv, [Next]_vars
             PROVE  RegistryInv'
  OBVIOUS
<1>0. Labels /\ Lists
  BY TwoTypes DEF RegistryInv
<1>1. CASE Next
  <2>1. PICK t \in Thread : Acts(t)
    BY <1>1 DEF Next, Acts
  <2>2. Labels'
    BY <1>0, <2>1, LabelsKept DEF RegistryInv
  <2>3. Lists'
    BY <1>0, <2>1, ListsTyped DEF RegistryInv
  <2>4. ListsOK'
    BY <1>0, <2>1, ListsStay DEF RegistryInv
  <2>5. ServingOK'
    BY <1>0, <2>1, ServingStays DEF RegistryInv
  <2>6. FramesOK'
    BY <1>0, <2>1, FramesStay DEF RegistryInv
  <2>7. SavingOK'
    BY <1>0, <2>1, SavingStays DEF RegistryInv
  <2>8. StacksMirrorRegistry'
    BY <1>0, <2>1, <2>3, <2>4, MirrorStays DEF RegistryInv
  <2>9. RaisedOK'
    BY <1>0, <2>1, RaisedStays DEF RegistryInv
  <2>10. DebugOK'
    BY <1>0, <2>1, DebugStays DEF RegistryInv
  <2>11. TypeOK'
    BY <2>2, <2>3 DEF TypeOK, Labels, Lists, Dictionary, Slot
  <2>12. QED
    BY <2>4, <2>5, <2>6, <2>7, <2>8, <2>9, <2>10, <2>11 DEF RegistryInv
<1>2. CASE UNCHANGED vars
  <2> USE <1>2 DEF vars, requestVars, saveVars, debugVars
  <2>1. TypeOK'
    BY DEF RegistryInv, TypeOK
  <2>2. ListsOK' /\ ServingOK' /\ FramesOK' /\ SavingOK'
    BY DEF RegistryInv, ListsOK, ServingOK, Served, FramesOK, FrameOK, SavingOK, Saving
  <2>3. StacksMirrorRegistry'
    BY DEF RegistryInv, StacksMirrorRegistry, Registered
  <2>4. RaisedOK' /\ DebugOK'
    BY DEF RegistryInv, RaisedOK, DebugOK, Kept, Holding
  <2>5. QED
    BY <2>1, <2>2, <2>3, <2>4 DEF RegistryInv
<1>3. QED
  BY <1>1, <1>2

\* The inductive invariant, for any number of threads, requests and managers.
THEOREM RegistryStays == Spec => []RegistryInv
<1>1. QED
  BY RegistryInit, RegistryStep, PTL DEF Spec

\* Registries, stacks and saved contexts stay within their types.
THEOREM RegistryTypes == Spec => []TypeOK
<1>1. RegistryInv => TypeOK
  BY DEF RegistryInv
<1>2. QED
  BY <1>1, RegistryStays, PTL

\* The stacks of a thread hold what the contexts of its request hold, whatever
\* managers are nested, streaming or not, and however the request ends.
THEOREM RegistryMirrored == Spec => []StacksMirrorRegistry
<1>1. RegistryInv => StacksMirrorRegistry
  BY DEF RegistryInv
<1>2. QED
  BY <1>1, RegistryStays, PTL

\* A debugging request sees the objects of the moment of the exception.
THEOREM RegistryDebugged == Spec => []DebuggerSeesTheObjects
<1>1. RegistryInv => DebuggerSeesTheObjects
  BY TwoTypes, DebuggerSees DEF RegistryInv
<1>2. QED
  BY <1>1, RegistryStays, PTL
=================================================================================
