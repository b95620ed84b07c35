------------------------------ MODULE SessionProofs ------------------------------
(***************************************************************************)
(* Theorems about Session, for every number of requests that overlap, of   *)
(* sessions, of cleanup threads and of items.                              *)
(***************************************************************************)
EXTENDS Session, TLAPS

\* What a file or a dictionary can hold, and what a cleanup thread can be at.
Content == (SUBSET Item) \cup {None}
Walk == (SUBSET Sid) \cup {None}

LEMMA ContentFacts ==
    {} \in Content /\ None \in Content /\ \A S \in SUBSET Item : S \in Content
  BY DEF Content

LEMMA WalkFacts ==
    /\ None \in Walk
    /\ \A S : S \subseteq Sid => S \in Walk /\ S # None
    /\ \A W \in Walk : W # None => \A s : W \ {s} \in Walk /\ W \ {s} # None
<1>1. ASSUME NEW S, S \subseteq Sid
      PROVE  S \in Walk /\ S # None
  <2>1. S \in SUBSET Sid
    BY <1>1, Zenon
  <2>2. QED
    BY <2>1, SessionAssumption, Zenon DEF Walk
<1>2. ASSUME NEW W \in Walk, W # None, NEW s
      PROVE  W \ {s} \subseteq Sid
  BY <1>2, Zenon DEF Walk
<1>3. QED
  BY <1>1, <1>2, Zenon DEF Walk

\* What the requests share; CleanUpNotBlocked is part of it.
SharedOK ==
    /\ jar \in Sid \cup {None}
    /\ made \in SUBSET Sid /\ old \in SUBSET made
    /\ file \in [Sid -> Content]
    /\ \A s \in Sid : file[s] # None => s \in made
    /\ due \in BOOLEAN /\ cleaning_up \in BOOLEAN /\ lost \in BOOLEAN
    /\ walk \in [Cleaner -> Walk]
    /\ overlap \in BOOLEAN
    /\ left \in Content
    /\ CleanUpNotBlocked

\* What the requests keep for themselves.
RequestsTyped ==
    /\ stage \in [Request -> {"idle", "app", "body", "close", "write"}]
    /\ calling \in [Request -> {"no", "cleanup", "start", "marked", "load"}]
    /\ cookie \in [Request -> Sid \cup {None}] /\ sid \in [Request -> Sid \cup {None}]
    /\ created \in [Request -> BOOLEAN] /\ opened \in [Request -> BOOLEAN]
    /\ data \in [Request -> Content]
    /\ started \in [Request -> {"no", "plain", "cookie"}]
    /\ headersSent \in [Request -> BOOLEAN]
    /\ late \in [Request -> BOOLEAN]

\* How they fit together.  CookieInTime is not inductive, as it says nothing of
\* headers that are not sent yet; the last two conjuncts do: no headers are sent
\* before they are set, and when the call of the application is over, those of a
\* session it has created are not the ones of a start_response without its cookie.
Fits(r) ==
    /\ stage[r] = "write" => data[r] # None
    /\ data[r] # None => opened[r]
    /\ opened[r] \/ calling[r] # "no" => sid[r] # None
    /\ started[r] = "cookie" => created[r]
    /\ calling[r] # "no" => stage[r] \in {"app", "body"}
    /\ calling[r] = "load" => opened[r]
    /\ sid[r] # None => sid[r] \in made
    /\ headersSent[r] => started[r] # "no"
    /\ stage[r] = "body" /\ created[r] /\ ~late[r] => started[r] # "plain"

SessionInv == SharedOK /\ RequestsTyped /\ \A r \in Request : Fits(r)

LEMMA InitSession == Init => SessionInv
<1> SUFFICES ASSUME Init PROVE SessionInv
  OBVIOUS
<1>1. SharedOK
  BY ContentFacts, WalkFacts DEF Init, SharedOK, CleanUpNotBlocked
<1>2. RequestsTyped
  BY ContentFacts DEF Init, RequestsTyped
<1>3. \A r \in Request : Fits(r)
  BY DEF Init, Fits
<1>4. QED
  BY <1>1, <1>2, <1>3 DEF SessionInv

LEMMA InvGivesTypeOK == SessionInv => TypeOK
  BY DEF SessionInv, SharedOK, RequestsTyped, Fits, TypeOK, Content, Walk

LEMMA InvGivesCookieInTime == SessionInv => CookieInTime
<1> SUFFICES ASSUME SessionInv, NEW r \in Request,
                    stage[r] = "body", created[r], ~late[r], headersSent[r]
             PROVE  started[r] = "cookie"
  BY DEF CookieInTime
<1>1. started[r] \in {"no", "plain", "cookie"}
  BY DEF SessionInv, RequestsTyped
<1>2. QED
  BY <1>1 DEF SessionInv, Fits

\* A request whose own state stays as it is fits as before.
LEMMA OthersFit ==
    ASSUME NEW u, Fits(u),
           stage'[u] = stage[u], calling'[u] = calling[u], sid'[u] = sid[u],
           created'[u] = created[u], opened'[u] = opened[u], data'[u] = data[u],
           started'[u] = started[u], headersSent'[u] = headersSent[u],
           late'[u] = late[u], made \subseteq made'
    PROVE  Fits(u)'
  BY DEF Fits

LEMMA FactoryKeeps ==
    ASSUME SessionInv, NEW r \in Request, FactoryStep(r)
    PROVE  SessionInv'
<1> USE SessionAssumption DEF fileVars, cleanVars, factoryVars, headerVars, noteVars
<1>1. SharedOK /\ RequestsTyped /\ Fits(r) /\ \A u \in Request : Fits(u)
  BY DEF SessionInv
<1>2. CASE Open(r)
  <2>1. SharedOK'
    BY <1>1, ContentFacts, <1>2
    DEF Open, Running, SharedOK, CleanUpNotBlocked,
        RequestsTyped, Fits
  <2>2. /\ \E t \in made' : sid' = [sid EXCEPT ![r] = t]
        /\ \E b \in BOOLEAN : created' = [created EXCEPT ![r] = b]
        /\ \E b \in BOOLEAN : late' = [late EXCEPT ![r] = b]
        /\ made \subseteq made' /\ made' \subseteq Sid
        /\ created[r] => created'[r]
        /\ created'[r] /\ ~late'[r] =>
              stage[r] # "body" \/ (created[r] /\ ~late[r])
    <3>1. CASE cookie[r] # None /\ file[cookie[r]] # None
      <4>1. cookie[r] \in made
        BY <1>1, <3>1 DEF SharedOK, RequestsTyped
      <4>2. created = [created EXCEPT ![r] = created[r]] /\ created[r] \in BOOLEAN
        BY <1>1 DEF RequestsTyped
      <4>3. late = [late EXCEPT ![r] = late[r]] /\ late[r] \in BOOLEAN
        BY <1>1 DEF RequestsTyped
      <4>4. UNCHANGED <<made, created, late>> /\ sid' = [sid EXCEPT ![r] = cookie[r]]
        BY <1>2, <3>1 DEF Open
      <4>5. QED
        BY <1>1, <4>1, <4>2, <4>3, <4>4 DEF SharedOK
    <3>2. CASE ~(cookie[r] # None /\ file[cookie[r]] # None)
      <4>1. PICK t \in Sid \ made :
               /\ made' = made \cup {t}
               /\ sid' = [sid EXCEPT ![r] = t]
               /\ created' = [created EXCEPT ![r] = TRUE]
               /\ late' = [late EXCEPT ![r] = stage[r] = "body" \/ created[r]]
        BY <1>2, <3>2 DEF Open
      <4>2. (stage[r] = "body" \/ created[r]) \in BOOLEAN
        OBVIOUS
      <4>3. created'[r] /\ (~late'[r] => stage[r] # "body")
        BY <1>1, <4>1 DEF RequestsTyped
      <4>4. QED
        BY <1>1, <4>1, <4>2, <4>3 DEF SharedOK
    <3>3. QED
      BY <3>1, <3>2
  <2>3. /\ calling' = [calling EXCEPT ![r] = "cleanup"]
        /\ UNCHANGED <<stage, cookie, opened, data, headerVars>>
    BY <1>2 DEF Open
  <2>4. RequestsTyped'
    BY <1>1, <2>2, <2>3 DEF RequestsTyped
  <2>5. Fits(r)'
    <3>1. stage[r] \in {"app", "body"}
      BY <1>2 DEF Open, Running
    <3>2. QED
      BY <1>1, <2>2, <2>3, <3>1 DEF RequestsTyped, Fits, SharedOK
  <2>6. ASSUME NEW u \in Request, u # r PROVE Fits(u)'
    BY <1>1, <2>2, <2>3, <2>6, OthersFit DEF RequestsTyped
  <2>7. QED
    BY <2>1, <2>4, <2>5, <2>6 DEF SessionInv
<1>3. CASE CleanUpCheck(r)
  <2>1. SharedOK'
    BY <1>1, <1>3
    DEF CleanUpCheck, Running, SharedOK, CleanUpNotBlocked,
        RequestsTyped, Fits
  <2>2. RequestsTyped'
    BY <1>1, <1>3 DEF CleanUpCheck, RequestsTyped
  <2>3. Fits(r)'
    BY <1>1, <1>3 DEF CleanUpCheck, RequestsTyped, Fits
  <2>4. ASSUME NEW u \in Request, u # r PROVE Fits(u)'
    BY <1>1, <1>3, <2>4, OthersFit DEF CleanUpCheck, RequestsTyped
  <2>5. QED
    BY <2>1, <2>2, <2>3, <2>4 DEF SessionInv
<1>9. CASE CleanUpMark(r)
  <2>1. SharedOK'
    BY <1>1, <1>9
    DEF CleanUpMark, SharedOK, CleanUpNotBlocked, RequestsTyped, Fits
  <2>2. RequestsTyped'
    BY <1>1, <1>9 DEF CleanUpMark, RequestsTyped
  <2>3. Fits(r)'
    BY <1>1, <1>9 DEF CleanUpMark, RequestsTyped, Fits
  <2>4. ASSUME NEW u \in Request, u # r PROVE Fits(u)'
    BY <1>1, <1>9, <2>4, OthersFit DEF CleanUpMark, RequestsTyped
  <2>5. QED
    BY <2>1, <2>2, <2>3, <2>4 DEF SessionInv
<1>4. CASE CleanUpStart(r)
  <2>1. SharedOK'
    <3>1. PICK c \in Cleaner : walk' = [walk EXCEPT ![c] = {s \in old : file[s] # None}]
      BY <1>4 DEF CleanUpStart
    <3>2. {s \in old : file[s] # None} \subseteq Sid
      BY <1>1 DEF SharedOK
    <3>3. walk' \in [Cleaner -> Walk] /\ walk'[c] # None
      BY <1>1, <3>1, <3>2, WalkFacts DEF SharedOK
    <3>4. QED
      BY <1>1, <1>4, <3>3 DEF CleanUpStart, SharedOK, CleanUpNotBlocked
  <2>2. RequestsTyped'
    BY <1>1, ContentFacts, <1>4 DEF CleanUpStart, SharedOK, RequestsTyped
  <2>3. Fits(r)'
    BY <1>1, <1>4 DEF CleanUpStart, RequestsTyped, Fits
  <2>4. ASSUME NEW u \in Request, u # r PROVE Fits(u)'
    BY <1>1, <1>4, <2>4, OthersFit DEF CleanUpStart, RequestsTyped
  <2>5. QED
    BY <2>1, <2>2, <2>3, <2>4 DEF SessionInv
<1>5. CASE CleanUpNotStarted(r)
  <2>1. SharedOK'
    BY <1>1, <1>5
    DEF CleanUpNotStarted, Running, SharedOK, CleanUpNotBlocked,
        RequestsTyped, Fits
  <2>2. RequestsTyped'
    BY <1>1, <1>5 DEF CleanUpNotStarted, RequestsTyped
  <2>3. Fits(r)'
    BY <1>1, <1>5 DEF CleanUpNotStarted, RequestsTyped, Fits
  <2>4. ASSUME NEW u \in Request, u # r PROVE Fits(u)'
    BY <1>1, <1>5, <2>4, OthersFit DEF CleanUpNotStarted, RequestsTyped
  <2>5. QED
    BY <2>1, <2>2, <2>3, <2>4 DEF SessionInv
<1>6. CASE Load(r)
  <2>0. \E d \in Content : data' = [data EXCEPT ![r] = d]
    <3>1. file[sid[r]] \in Content
      BY <1>1, <1>6 DEF Load, SharedOK, RequestsTyped, Fits
    <3>2. Loaded(r) \subseteq Content
      BY <3>1, ContentFacts DEF Loaded
    <3>3. QED
      BY <1>6, <3>2 DEF Load
  <2>1. SharedOK'
    BY <1>1, <1>6
    DEF Load, Running, SharedOK, CleanUpNotBlocked,
        RequestsTyped, Fits
  <2>2. RequestsTyped'
    BY <1>1, <1>6, <2>0 DEF Load, RequestsTyped
  <2>3. Fits(r)'
    BY <1>1, <1>6, <2>0 DEF Load, RequestsTyped, Fits
  <2>4. ASSUME NEW u \in Request, u # r PROVE Fits(u)'
    BY <1>1, <1>6, <2>0, <2>4, OthersFit DEF Load, RequestsTyped
  <2>5. QED
    BY <2>1, <2>2, <2>3, <2>4 DEF SessionInv
<1>7. CASE CallAgain(r)
  <2>1. SharedOK'
    BY <1>1, <1>7
    DEF CallAgain, Running, SharedOK, CleanUpNotBlocked,
        RequestsTyped, Fits
  <2>2. RequestsTyped'
    BY <1>1, <1>7 DEF CallAgain, RequestsTyped
  <2>3. Fits(r)'
    BY <1>1, <1>7 DEF CallAgain, Running, RequestsTyped, Fits
  <2>4. ASSUME NEW u \in Request, u # r PROVE Fits(u)'
    BY <1>1, <1>7, <2>4, OthersFit DEF CallAgain, Running, RequestsTyped
  <2>5. QED
    BY <2>1, <2>2, <2>3, <2>4 DEF SessionInv
<1>8. QED
  BY <1>2, <1>3, <1>4, <1>5, <1>6, <1>7, <1>9 DEF FactoryStep

LEMMA ResponseKeeps ==
    ASSUME SessionInv, NEW r \in Request, ResponseStep(r)
    PROVE  SessionInv'
<1> USE SessionAssumption DEF fileVars, cleanVars, factoryVars, headerVars, noteVars
<1>1. SharedOK /\ RequestsTyped /\ Fits(r) /\ \A u \in Request : Fits(u)
  BY DEF SessionInv
<1>2. CASE Begin(r)
  <2>1. SharedOK'
    BY <1>1, ContentFacts, <1>2
    DEF Begin, Running, SharedOK, CleanUpNotBlocked,
        RequestsTyped, Fits
  <2>2. RequestsTyped'
    BY <1>1, <1>2 DEF Begin, SharedOK, RequestsTyped
  <2>3. Fits(r)'
    BY <1>1, <1>2 DEF Begin, RequestsTyped, Fits
  <2>4. ASSUME NEW u \in Request, u # r PROVE Fits(u)'
    BY <1>1, <1>2, <2>4, OthersFit DEF Begin, RequestsTyped
  <2>5. QED
    BY <2>1, <2>2, <2>3, <2>4 DEF SessionInv
<1>3. CASE StartResponse(r)
  <2>1. SharedOK'
    BY <1>1, <1>3
    DEF StartResponse, Running, SharedOK, CleanUpNotBlocked,
        RequestsTyped, Fits
  <2>2. RequestsTyped'
    BY <1>1, <1>3 DEF StartResponse, RequestsTyped
  <2>3. Fits(r)'
    BY <1>1, <1>3 DEF StartResponse, Running, RequestsTyped, Fits
  <2>4. ASSUME NEW u \in Request, u # r PROVE Fits(u)'
    BY <1>1, <1>3, <2>4, OthersFit DEF StartResponse, Running, RequestsTyped
  <2>5. QED
    BY <2>1, <2>2, <2>3, <2>4 DEF SessionInv
<1>4. CASE Send(r)
  <2>1. SharedOK'
    BY <1>1, <1>4
    DEF Send, CookieOut, Running, SharedOK, CleanUpNotBlocked,
        RequestsTyped, Fits
  <2>2. RequestsTyped'
    BY <1>1, <1>4 DEF Send, CookieOut, RequestsTyped
  <2>3. Fits(r)'
    BY <1>1, <1>4 DEF Send, Running, CookieOut, RequestsTyped, Fits
  <2>4. ASSUME NEW u \in Request, u # r PROVE Fits(u)'
    BY <1>1, <1>4, <2>4, OthersFit DEF Send, Running, CookieOut, RequestsTyped
  <2>5. QED
    BY <2>1, <2>2, <2>3, <2>4 DEF SessionInv
<1>5. CASE Return(r)
  <2>1. SharedOK'
    BY <1>1, <1>5
    DEF Return, Closing, Running, SharedOK, CleanUpNotBlocked,
        RequestsTyped, Fits
  <2>2. RequestsTyped'
    BY <1>1, <1>5 DEF Return, Closing, RequestsTyped
  <2>3. Fits(r)'
    BY <1>1, <1>5 DEF Return, Closing, Running, RequestsTyped, Fits
  <2>4. ASSUME NEW u \in Request, u # r PROVE Fits(u)'
    BY <1>1, <1>5, <2>4, OthersFit DEF Return, Closing, Running, RequestsTyped
  <2>5. QED
    BY <2>1, <2>2, <2>3, <2>4 DEF SessionInv
<1>6. CASE Exhausted(r)
  <2>1. SharedOK'
    BY <1>1, <1>6
    DEF Exhausted, Closing, CookieOut, Running, SharedOK, CleanUpNotBlocked,
        RequestsTyped, Fits
  <2>2. RequestsTyped'
    BY <1>1, <1>6 DEF Exhausted, Closing, CookieOut, RequestsTyped
  <2>3. Fits(r)'
    BY <1>1, <1>6 DEF Exhausted, Closing, Running, CookieOut, RequestsTyped, Fits
  <2>4. ASSUME NEW u \in Request, u # r PROVE Fits(u)'
    BY <1>1, <1>6, <2>4, OthersFit DEF Exhausted, Closing, Running, CookieOut, RequestsTyped
  <2>5. QED
    BY <2>1, <2>2, <2>3, <2>4 DEF SessionInv
<1>7. CASE Interrupted(r)
  <2>1. SharedOK'
    BY <1>1, <1>7
    DEF Interrupted, Closing, KilledIn, Running, SharedOK, CleanUpNotBlocked,
        RequestsTyped, Fits
  <2>2. RequestsTyped'
    BY <1>1, <1>7 DEF Interrupted, Closing, KilledIn, RequestsTyped
  <2>3. Fits(r)'
    BY <1>1, <1>7 DEF Interrupted, Closing, KilledIn, RequestsTyped, Fits
  <2>4. ASSUME NEW u \in Request, u # r PROVE Fits(u)'
    BY <1>1, <1>7, <2>4, OthersFit DEF Interrupted, Closing, KilledIn, RequestsTyped
  <2>5. QED
    BY <2>1, <2>2, <2>3, <2>4 DEF SessionInv
<1>8. CASE Unsaved(r)
  <2>1. SharedOK'
    BY <1>1, ContentFacts, <1>8
    DEF Unsaved, Over, KilledIn, Running, SharedOK, CleanUpNotBlocked,
        RequestsTyped, Fits
  <2>2. RequestsTyped'
    BY <1>1, ContentFacts, <1>8 DEF Unsaved, Over, RequestsTyped
  <2>3. Fits(r)'
    BY <1>1, <1>8 DEF Unsaved, Over, RequestsTyped, Fits
  <2>4. ASSUME NEW u \in Request, u # r PROVE Fits(u)'
    BY <1>1, <1>8, <2>4, OthersFit DEF Unsaved, Over, RequestsTyped
  <2>5. QED
    BY <2>1, <2>2, <2>3, <2>4 DEF SessionInv
<1>9. CASE CloseEmpty(r)
  <2>1. SharedOK'
    BY <1>1, ContentFacts, <1>9
    DEF CloseEmpty, Over, Running, SharedOK, CleanUpNotBlocked,
        RequestsTyped, Fits
  <2>2. RequestsTyped'
    BY <1>1, ContentFacts, <1>9 DEF CloseEmpty, Over, RequestsTyped
  <2>3. Fits(r)'
    BY <1>1, <1>9 DEF CloseEmpty, Over, RequestsTyped, Fits
  <2>4. ASSUME NEW u \in Request, u # r PROVE Fits(u)'
    BY <1>1, <1>9, <2>4, OthersFit DEF CloseEmpty, Over, RequestsTyped
  <2>5. QED
    BY <2>1, <2>2, <2>3, <2>4 DEF SessionInv
<1>10. CASE CloseTruncate(r)
  <2>1. SharedOK'
    BY <1>1, ContentFacts, <1>10
    DEF CloseTruncate, Running, SharedOK, CleanUpNotBlocked,
        RequestsTyped, Fits
  <2>2. RequestsTyped'
    BY <1>1, <1>10 DEF CloseTruncate, RequestsTyped
  <2>3. Fits(r)'
    BY <1>1, <1>10 DEF CloseTruncate, RequestsTyped, Fits
  <2>4. ASSUME NEW u \in Request, u # r PROVE Fits(u)'
    BY <1>1, <1>10, <2>4, OthersFit DEF CloseTruncate, RequestsTyped
  <2>5. QED
    BY <2>1, <2>2, <2>3, <2>4 DEF SessionInv
<1>11. CASE CloseWrite(r)
  <2>1. SharedOK'
    BY <1>1, ContentFacts, <1>11
    DEF CloseWrite, Over, Running, SharedOK, CleanUpNotBlocked,
        RequestsTyped, Fits
  <2>2. RequestsTyped'
    BY <1>1, ContentFacts, <1>11 DEF CloseWrite, Over, RequestsTyped
  <2>3. Fits(r)'
    BY <1>1, <1>11 DEF CloseWrite, Over, RequestsTyped, Fits
  <2>4. ASSUME NEW u \in Request, u # r PROVE Fits(u)'
    BY <1>1, <1>11, <2>4, OthersFit DEF CloseWrite, Over, RequestsTyped
  <2>5. QED
    BY <2>1, <2>2, <2>3, <2>4 DEF SessionInv
<1>12. CASE CloseFails(r)
  <2>1. SharedOK'
    BY <1>1, ContentFacts, <1>12
    DEF CloseFails, Over, Running, SharedOK, CleanUpNotBlocked,
        RequestsTyped, Fits
  <2>2. RequestsTyped'
    BY <1>1, ContentFacts, <1>12 DEF CloseFails, Over, RequestsTyped
  <2>3. Fits(r)'
    BY <1>1, <1>12 DEF CloseFails, Over, RequestsTyped, Fits
  <2>4. ASSUME NEW u \in Request, u # r PROVE Fits(u)'
    BY <1>1, <1>12, <2>4, OthersFit DEF CloseFails, Over, RequestsTyped
  <2>5. QED
    BY <2>1, <2>2, <2>3, <2>4 DEF SessionInv
<1>13. ASSUME NEW items \in SUBSET Item, Change(r, items)
      PROVE  SessionInv'
  <2>1. SharedOK'
    BY <1>1, <1>13
    DEF Change, Running, SharedOK, CleanUpNotBlocked,
        RequestsTyped, Fits
  <2>2. RequestsTyped'
    BY <1>1, ContentFacts, <1>13 DEF Change, RequestsTyped
  <2>3. Fits(r)'
    BY <1>1, <1>13 DEF Change, Running, RequestsTyped, Fits
  <2>4. ASSUME NEW u \in Request, u # r PROVE Fits(u)'
    BY <1>1, <1>13, <2>4, OthersFit DEF Change, Running, RequestsTyped
  <2>5. QED
    BY <2>1, <2>2, <2>3, <2>4 DEF SessionInv
<1>14. QED
  BY <1>2, <1>3, <1>4, <1>5, <1>6, <1>7, <1>8, <1>9, <1>10, <1>11, <1>12, <1>13
  DEF ResponseStep

LEMMA OtherKeeps ==
    ASSUME SessionInv,
           (\E c \in Cleaner : CleanerStep(c)) \/ (\E s \in Sid : Expire(s)) \/ CycleOver
           \/ UNCHANGED vars
    PROVE  SessionInv'
<1>1. SharedOK /\ RequestsTyped /\ \A u \in Request : Fits(u)
  BY DEF SessionInv
<1>2. UNCHANGED <<stage, calling, cookie, factoryVars, headerVars, noteVars>>
  BY DEF CleanerStep, CleanUpFile, CleanUpEnd, Expire, CycleOver, vars
<1>3. RequestsTyped' /\ \A u \in Request : Fits(u)'
  <2>1. made' = made
    BY DEF CleanerStep, CleanUpFile, CleanUpEnd, Expire, CycleOver, vars, fileVars
  <2>2. RequestsTyped'
    BY <1>1, <1>2 DEF RequestsTyped, factoryVars, headerVars, noteVars
  <2>3. ASSUME NEW u \in Request PROVE Fits(u)'
    BY <1>1, <1>2, <2>1, <2>3, OthersFit DEF factoryVars, headerVars, noteVars
  <2>4. QED
    BY <2>2, <2>3
<1>4. ASSUME NEW c \in Cleaner, NEW s \in Sid, CleanUpFile(c, s)
      PROVE  SharedOK'
  <2>1. file' = [file EXCEPT ![s] = None]
    BY <1>4 DEF CleanUpFile
  <2>2. file' \in [Sid -> Content] /\ \A t \in Sid : file'[t] # None => t \in made
    BY <1>1, <2>1, ContentFacts DEF SharedOK
  <2>3. CASE file[s] # None
    <3>1. walk' = [walk EXCEPT ![c] = walk[c] \ {s}] /\ walk[c] # None
      BY <1>4, <2>3 DEF CleanUpFile
    <3>2. walk[c] \ {s} \in Walk /\ walk[c] \ {s} # None
      BY <1>1, <3>1, WalkFacts DEF SharedOK
    <3>3. walk' \in [Cleaner -> Walk] /\ walk'[c] # None
      BY <1>1, <3>1, <3>2 DEF SharedOK
    <3>4. QED
      BY <1>1, <1>4, <2>2, <3>3 DEF CleanUpFile, SharedOK, CleanUpNotBlocked, noteVars
  <2>4. CASE file[s] = None
    <3>1. walk' = [walk EXCEPT ![c] = None] /\ cleaning_up' = FALSE
      BY <1>4, <2>4 DEF CleanUpFile
    <3>2. walk' \in [Cleaner -> Walk]
      BY <1>1, <3>1, WalkFacts DEF SharedOK
    <3>3. QED
      BY <1>1, <1>4, <2>2, <3>1, <3>2 DEF CleanUpFile, SharedOK, CleanUpNotBlocked,
                                          noteVars
  <2>5. QED
    BY <2>3, <2>4
<1>5. ASSUME NEW c \in Cleaner, CleanUpEnd(c)
      PROVE  SharedOK'
  BY <1>1, WalkFacts, <1>5 DEF CleanUpEnd, SharedOK, CleanUpNotBlocked, fileVars,
                               noteVars
<1>6. ASSUME NEW s \in Sid, Expire(s)
      PROVE  SharedOK'
  BY <1>1, <1>6 DEF Expire, SharedOK, CleanUpNotBlocked, cleanVars, noteVars
<1>7. ASSUME CycleOver \/ UNCHANGED vars
      PROVE  SharedOK'
  <2>1. /\ jar' = jar /\ file' = file /\ made' = made /\ old' = old
        /\ cleaning_up' = cleaning_up /\ walk' = walk /\ overlap' = overlap
        /\ left' = left /\ due' \in BOOLEAN /\ lost' = lost /\ calling' = calling
    BY <1>1, <1>7 DEF CycleOver, vars, SharedOK, fileVars, cleanVars, noteVars
  <2>2. QED
    BY <1>1, <2>1 DEF SharedOK, CleanUpNotBlocked
<1>8. QED
  BY <1>3, <1>4, <1>5, <1>6, <1>7 DEF CleanerStep, SessionInv

\* The state of the browser, the files and the requests fits together, for every
\* number of requests that overlap.
THEOREM SessionsKept == Spec => []SessionInv
<1>1. SessionInv /\ [Next]_vars => SessionInv'
  BY FactoryKeeps, ResponseKeeps, OtherKeeps DEF Next
<1>2. QED
  BY InitSession, <1>1, PTL DEF Spec

\* The types the runs check.
THEOREM SessionsTyped == Spec => []TypeOK
  BY SessionsKept, InvGivesTypeOK, PTL

\* The cookie of a session that is created before the iteration is in the headers
\* that reach the browser, whether it was created before or after start_response,
\* for every number of requests, sessions and cleanup threads.
THEOREM CookieAlwaysInTime == Spec => []CookieInTime
  BY SessionsKept, InvGivesCookieInTime, PTL

\* The mark that a cleanup is on stands only while a cleanup thread runs or a request
\* is about to start one, for every number of requests that find it unset at the same
\* time, unless a request was killed between setting it and starting its thread.
THEOREM CleanUpNeverBlocked == Spec => []CleanUpNotBlocked
<1>1. SessionInv => CleanUpNotBlocked
  BY DEF SessionInv, SharedOK
<1>2. QED
  BY <1>1, SessionsKept, PTL

-----------------------------------------------------------------------------
(* What a request finds.                                                   *)

\* What is known of the browser's session is what its file holds, unless its time
\* is past or the file was opened for writing and not written.
LeftIsInFile ==
    left # None /\ jar \notin old \cup {None} =>
        /\ file[jar] = None => left = {}
        /\ file[jar] \notin {None, {}} => left = file[jar]

\* A request that overlaps no other one, and what holds of it: the session it has
\* opened is that of the cookie, and the browser's, or one it has made itself, with
\* no file before close(), in which case there was nothing left.
Alone(r) == ~overlap /\ stage[r] # "idle"

AloneFits(r) ==
    /\ \A u \in Request : u # r => stage[u] = "idle"
    /\ jar = cookie[r] \/ created[r]
    /\ sid[r] # None => created[r] \/ sid[r] = cookie[r]
    /\ sid[r] # None /\ jar \notin {None, sid[r]} => file[jar] = None
    /\ created[r] =>
          /\ sid[r] # cookie[r] /\ sid[r] # None
          /\ cookie[r] # None => file[cookie[r]] = None
          /\ left \in {{}, None}
          /\ stage[r] \in {"app", "body"} => file[sid[r]] = None

LeftShared ==
    /\ LeftIsInFile
    /\ overlap => left = None
    /\ jar \in made \cup {None} /\ \A u \in Request : cookie[u] \in made \cup {None}
    /\ \A c \in Cleaner : walk[c] # None => walk[c] \subseteq old

IdleClean(r) == stage[r] = "idle" => sid[r] = None /\ ~created[r]

LeftInv ==
    /\ LeftShared
    /\ \A r \in Request : IdleClean(r)
    /\ \A r \in Request : Alone(r) => AloneFits(r)

LEMMA InitLeft == Init => LeftInv
  BY SessionAssumption
  DEF Init, LeftInv, LeftShared, LeftIsInFile, IdleClean, Alone

\* A step of a request that runs leaves no other one alone.
LEMMA LeftByStep ==
    ASSUME LeftInv, NEW r \in Request, LeftShared', IdleClean(r)',
           stage[r] # "idle", overlap' = overlap,
           \A u \in Request : u # r => /\ stage'[u] = stage[u] /\ sid'[u] = sid[u]
                                       /\ created'[u] = created[u],
           Alone(r)' => AloneFits(r)'
    PROVE  LeftInv'
<1>1. ASSUME NEW u \in Request, u # r PROVE IdleClean(u)'
  BY <1>1 DEF LeftInv, IdleClean
<1>2. ASSUME NEW u \in Request, u # r PROVE ~Alone(u)'
  BY <1>2 DEF LeftInv, Alone, AloneFits
<1>3. QED
  BY <1>1, <1>2 DEF LeftInv

LEMMA LeftFactory ==
    ASSUME SessionInv, LeftInv, NEW r \in Request, FactoryStep(r)
    PROVE  LeftInv'
<1> USE SessionAssumption DEF fileVars, cleanVars, factoryVars, headerVars, noteVars
<1>1. /\ SharedOK /\ RequestsTyped /\ Fits(r)
      /\ LeftShared /\ IdleClean(r) /\ (Alone(r) => AloneFits(r))
  BY DEF SessionInv, LeftInv
<1>2. CASE Open(r)
  <2>1. /\ stage[r] \in {"app", "body"} /\ UNCHANGED <<stage, jar, cookie, overlap>>
        /\ UNCHANGED <<file, old, walk>>
        /\ left' = IF ~overlap /\ cookie[r] \in old \cup {None} THEN {} ELSE left
    BY <1>2 DEF Open, Running
  <2>2. CASE cookie[r] # None /\ file[cookie[r]] # None
    <3>1. /\ sid' = [sid EXCEPT ![r] = cookie[r]] /\ UNCHANGED <<made, created>>
      BY <1>2, <2>2 DEF Open
    <3>2. Alone(r) => ~created[r] /\ jar = cookie[r]
      BY <1>1, <2>2 DEF AloneFits
    <3>3. LeftShared'
      BY <1>1, <2>1, <3>1, <3>2 DEF LeftShared, LeftIsInFile, Alone
    <3>4. IdleClean(r)'
      BY <2>1 DEF IdleClean
    <3>5. Alone(r)' => AloneFits(r)'
      BY <1>1, <2>1, <2>2, <3>1, <3>2 DEF Alone, AloneFits, RequestsTyped
    <3>6. QED
      BY <1>1, <2>1, <3>1, <3>3, <3>4, <3>5, LeftByStep DEF RequestsTyped
  <2>3. CASE ~(cookie[r] # None /\ file[cookie[r]] # None)
    <3>1. PICK t \in Sid \ made :
             /\ made' = made \cup {t}
             /\ sid' = [sid EXCEPT ![r] = t]
             /\ created' = [created EXCEPT ![r] = TRUE]
      BY <1>2, <2>3 DEF Open
    <3>2. Alone(r) => jar = None \/ file[jar] = None
      BY <1>1, <2>1, <2>3 DEF AloneFits
    <3>3. file[t] = None
      BY <1>1, <3>1 DEF SharedOK
    <3>4. LeftShared'
      BY <1>1, <2>1, <3>1, <3>2 DEF LeftShared, LeftIsInFile, Alone
    <3>5. IdleClean(r)'
      BY <2>1 DEF IdleClean
    <3>6. Alone(r) => left' \in {{}, None}
      BY <1>1, <2>1, <2>3 DEF Alone, AloneFits, LeftShared, LeftIsInFile
    <3>7. Alone(r)' => AloneFits(r)'
      BY <1>1, <2>1, <2>3, <3>1, <3>2, <3>3, <3>6
      DEF Alone, AloneFits, RequestsTyped, LeftShared
    <3>8. QED
      BY <1>1, <2>1, <3>1, <3>4, <3>5, <3>7, LeftByStep DEF RequestsTyped
  <2>4. QED
    BY <2>2, <2>3
<1>3. CASE CleanUpStart(r)
  <2>1. PICK c \in Cleaner : walk' = [walk EXCEPT ![c] = {s \in old : file[s] # None}]
    BY <1>3 DEF CleanUpStart
  <2>2. UNCHANGED <<jar, file, made, old, stage, cookie, sid, created, overlap, left>>
    BY <1>3 DEF CleanUpStart
  <2>3. LeftShared'
    BY <1>1, <2>1, <2>2 DEF LeftShared, LeftIsInFile, SharedOK
  <2>4. IdleClean(r)' /\ (Alone(r)' => AloneFits(r)')
    BY <1>1, <2>2 DEF IdleClean, Alone, AloneFits
  <2>5. stage[r] # "idle"
    BY <1>1, <1>3 DEF CleanUpStart, Fits
  <2>6. QED
    BY <2>2, <2>3, <2>4, <2>5, LeftByStep
<1>4. CASE \/ CleanUpCheck(r) \/ CleanUpMark(r) \/ CleanUpNotStarted(r)
           \/ Load(r) \/ CallAgain(r)
  <2>1. /\ UNCHANGED <<jar, file, made, old, stage, cookie, sid, created, overlap>>
        /\ UNCHANGED <<left, walk>>
    BY <1>4 DEF CleanUpCheck, CleanUpMark, CleanUpNotStarted, Load, CallAgain
  <2>2. QED
    BY <2>1 DEF LeftInv, LeftShared, LeftIsInFile, IdleClean, Alone, AloneFits
<1>5. QED
  BY <1>2, <1>3, <1>4 DEF FactoryStep

LEMMA LeftResponse ==
    ASSUME SessionInv, LeftInv, NEW r \in Request, ResponseStep(r)
    PROVE  LeftInv'
<1> USE SessionAssumption DEF fileVars, cleanVars, factoryVars, headerVars, noteVars
<1>1. /\ SharedOK /\ RequestsTyped /\ Fits(r)
      /\ LeftShared /\ IdleClean(r) /\ (Alone(r) => AloneFits(r))
  BY DEF SessionInv, LeftInv
<1>2. CASE Begin(r)
  <2>1. /\ stage[r] = "idle" /\ stage' = [stage EXCEPT ![r] = "app"]
        /\ cookie' = [cookie EXCEPT ![r] = jar]
        /\ overlap' = (\E u \in Request : stage[u] # "idle")
        /\ left' = IF overlap' THEN None ELSE left
        /\ UNCHANGED <<jar, file, made, old, walk, sid, created>>
    BY <1>2 DEF Begin
  <2>2. LeftShared'
    BY <1>1, <2>1 DEF LeftShared, LeftIsInFile, RequestsTyped
  <2>3. ASSUME NEW u \in Request PROVE IdleClean(u)'
    BY <1>1, <2>1 DEF LeftInv, IdleClean, RequestsTyped
  <2>4. ASSUME NEW u \in Request, Alone(u)' PROVE AloneFits(u)'
    <3>1. \A v \in Request : stage[v] = "idle"
      BY <2>1, <2>4 DEF Alone
    <3>2. u = r
      BY <1>1, <2>1, <2>4, <3>1 DEF Alone, RequestsTyped
    <3>3. QED
      BY <1>1, <2>1, <3>1, <3>2 DEF AloneFits, IdleClean, RequestsTyped
  <2>5. QED
    BY <2>2, <2>3, <2>4 DEF LeftInv
<1>3. CASE StartResponse(r)
  <2>1. /\ UNCHANGED <<jar, file, made, old, stage, cookie, sid, created, overlap>>
        /\ UNCHANGED <<left, walk>>
    BY <1>3 DEF StartResponse
  <2>2. QED
    BY <2>1 DEF LeftInv, LeftShared, LeftIsInFile, IdleClean, Alone, AloneFits
<1>4. CASE Send(r) \/ Exhausted(r)
  <2>1. /\ stage[r] \in {"app", "body"}
        /\ \E p \in {stage[r], "close"} : stage' = [stage EXCEPT ![r] = p]
        /\ jar' = IF started[r] = "cookie" /\ ~headersSent[r] THEN sid[r] ELSE jar
        /\ UNCHANGED <<file, made, old, walk, cookie, sid, created, overlap, left>>
    BY <1>1, <1>4 DEF Send, Exhausted, Closing, CookieOut, Running, RequestsTyped
  <2>2. \A u \in Request : u # r => stage'[u] = stage[u]
    BY <1>1, <2>1 DEF RequestsTyped
  <2>3. IdleClean(r)'
    BY <1>1, <2>1 DEF IdleClean, RequestsTyped
  <2>4. CASE jar' = jar
    <3>1. LeftShared'
      BY <1>1, <2>1, <2>4 DEF LeftShared, LeftIsInFile
    <3>2. Alone(r)' => AloneFits(r)'
      BY <1>1, <2>1, <2>2, <2>4 DEF Alone, AloneFits, RequestsTyped
    <3>3. QED
      BY <2>1, <2>2, <2>3, <3>1, <3>2, LeftByStep
  <2>5. CASE jar' # jar
    <3>1. jar' = sid[r] /\ created[r]
      BY <1>1, <2>1, <2>5 DEF Fits
    <3>2. sid[r] \in made \cup {None}
      BY <1>1 DEF Fits
    <3>3. Alone(r) => file[sid[r]] = None /\ left \in {{}, None}
      BY <1>1, <2>1, <3>1 DEF AloneFits
    <3>4. ~overlap => Alone(r)
      BY <2>1 DEF Alone
    <3>5. LeftShared'
      BY <1>1, <2>1, <3>1, <3>2, <3>3, <3>4 DEF LeftShared, LeftIsInFile
    <3>6. Alone(r)' => AloneFits(r)'
      BY <1>1, <2>1, <2>2, <3>1, <3>3, <3>4 DEF Alone, AloneFits, RequestsTyped
    <3>7. QED
      BY <2>1, <2>2, <2>3, <3>5, <3>6, LeftByStep
  <2>6. QED
    BY <2>4, <2>5
<1>5. CASE Return(r) \/ Interrupted(r)
  <2>1. /\ stage[r] \in {"app", "body"}
        /\ \E p \in {"body", "close"} : stage' = [stage EXCEPT ![r] = p]
        /\ UNCHANGED <<jar, file, made, old, walk, cookie, sid, created, overlap, left>>
    BY <1>5 DEF Return, Interrupted, Closing, KilledIn, Running
  <2>2. \A u \in Request : u # r => stage'[u] = stage[u]
    BY <1>1, <2>1 DEF RequestsTyped
  <2>3. LeftShared' /\ IdleClean(r)'
    BY <1>1, <2>1 DEF LeftShared, LeftIsInFile, IdleClean, RequestsTyped
  <2>4. Alone(r)' => AloneFits(r)'
    BY <1>1, <2>1, <2>2 DEF Alone, AloneFits, RequestsTyped
  <2>5. QED
    BY <2>1, <2>2, <2>3, <2>4, LeftByStep
<1>6. CASE CloseTruncate(r)
  <2>1. /\ stage[r] = "close" /\ stage' = [stage EXCEPT ![r] = "write"]
        /\ file' = [file EXCEPT ![sid[r]] = {}] /\ sid[r] # None
        /\ UNCHANGED <<jar, made, old, walk, cookie, sid, created, overlap, left>>
    BY <1>1, <1>6 DEF CloseTruncate, Fits
  <2>2. \A u \in Request : u # r => stage'[u] = stage[u]
    BY <1>1, <2>1 DEF RequestsTyped
  <2>3. \A s \in Sid : file'[s] = IF s = sid[r] THEN {} ELSE file[s]
    BY <1>1, <2>1 DEF SharedOK
  <2>4. jar \in Sid \cup {None} /\ cookie[r] \in Sid \cup {None} /\ sid[r] \in Sid
    BY <1>1, <2>1 DEF SharedOK, RequestsTyped
  <2>5. LeftShared' /\ IdleClean(r)'
    BY <1>1, <2>1, <2>3, <2>4 DEF LeftShared, LeftIsInFile, IdleClean, RequestsTyped
  <2>6. Alone(r)' => AloneFits(r)'
    BY <1>1, <2>1, <2>2, <2>3, <2>4 DEF Alone, AloneFits, RequestsTyped
  <2>7. QED
    BY <2>1, <2>2, <2>5, <2>6, LeftByStep
<1>7. CASE Unsaved(r) \/ CloseEmpty(r) \/ CloseWrite(r) \/ CloseFails(r)
  <2>1. /\ stage[r] # "idle" /\ stage' = [stage EXCEPT ![r] = "idle"]
        /\ cookie' = [cookie EXCEPT ![r] = None] /\ sid' = [sid EXCEPT ![r] = None]
        /\ created' = [created EXCEPT ![r] = FALSE]
        /\ UNCHANGED <<jar, made, old, walk, overlap>>
        /\ overlap => left' = None
    BY <1>1, <1>7 DEF Unsaved, CloseEmpty, CloseWrite, CloseFails, Over, KilledIn
  <2>2. IdleClean(r)' /\ ~Alone(r)'
    BY <1>1, <2>1 DEF IdleClean, Alone, RequestsTyped
  <2>3. ~overlap => Alone(r)
    BY <2>1 DEF Alone
  <2>4. LeftIsInFile'
    <3>1. CASE Unsaved(r) \/ CloseFails(r) \/ (CloseEmpty(r) /\ data[r] = None)
      <4>1. file' = file /\ left' \in {left, None}
        BY <3>1 DEF Unsaved, CloseFails, CloseEmpty, Over
      <4>2. QED
        BY <1>1, <2>1, <4>1 DEF LeftShared, LeftIsInFile
    <3>2. CASE CloseEmpty(r) /\ data[r] # None
      <4>1. /\ data[r] = {} /\ file' = [file EXCEPT ![sid[r]] = None]
            /\ left' \in {{}, None} /\ (overlap => left' = None)
        BY <3>2 DEF CloseEmpty, Over
      <4>2. sid[r] \in Sid /\ jar \in Sid \cup {None}
        BY <1>1, <3>2 DEF SharedOK, RequestsTyped, Fits
      <4>3. \A s \in Sid : file'[s] = IF s = sid[r] THEN None ELSE file[s]
        BY <1>1, <4>1, <4>2 DEF SharedOK
      <4>4. ~overlap /\ jar # None => file'[jar] = None
        BY <1>1, <2>3, <4>2, <4>3 DEF AloneFits
      <4>5. QED
        BY <2>1, <4>1, <4>4 DEF LeftIsInFile
    <3>3. CASE CloseWrite(r)
      <4>1. /\ file' = [file EXCEPT ![sid[r]] = data[r]]
            /\ left' \in {data[r], None} /\ (jar # sid[r] => left' = None)
        BY <3>3 DEF CloseWrite, Over
      <4>2. sid[r] \in Sid /\ data[r] # None
        BY <1>1, <3>3 DEF CloseWrite, RequestsTyped, Fits
      <4>3. file'[sid[r]] = data[r]
        BY <1>1, <4>1, <4>2 DEF SharedOK
      <4>4. QED
        BY <2>1, <4>1, <4>2, <4>3 DEF LeftIsInFile
    <3>4. QED
      BY <1>7, <3>1, <3>2, <3>3
  <2>5. LeftShared'
    BY <1>1, <2>1, <2>4 DEF LeftShared, RequestsTyped
  <2>6. QED
    BY <1>1, <2>1, <2>2, <2>5, LeftByStep DEF RequestsTyped
<1>8. ASSUME NEW items \in SUBSET Item, Change(r, items)
      PROVE  LeftInv'
  <2>1. /\ UNCHANGED <<jar, file, made, old, stage, cookie, sid, created, overlap>>
        /\ UNCHANGED <<left, walk>>
    BY <1>8 DEF Change
  <2>2. QED
    BY <2>1 DEF LeftInv, LeftShared, LeftIsInFile, IdleClean, Alone, AloneFits
<1>9. QED
  BY <1>2, <1>3, <1>4, <1>5, <1>6, <1>7, <1>8 DEF ResponseStep

LEMMA LeftOther ==
    ASSUME SessionInv, LeftInv,
           (\E c \in Cleaner : CleanerStep(c)) \/ (\E s \in Sid : Expire(s)) \/ CycleOver
           \/ UNCHANGED vars
    PROVE  LeftInv'
<1>1. SharedOK /\ RequestsTyped /\ LeftShared
  BY DEF SessionInv, LeftInv
<1>2. UNCHANGED <<jar, made, stage, cookie, sid, created, overlap, left>>
  BY DEF CleanerStep, CleanUpFile, CleanUpEnd, Expire, CycleOver, vars, fileVars,
         factoryVars, noteVars
<1>3. /\ old \subseteq old'
      /\ \A s \in Sid : file'[s] = file[s] \/ (file'[s] = None /\ s \in old)
  <2>1. ASSUME NEW c \in Cleaner, NEW s \in Sid, CleanUpFile(c, s)
        PROVE  s \in old /\ old' = old /\ file' = [file EXCEPT ![s] = None]
    BY <1>1, <2>1 DEF CleanUpFile, LeftShared
  <2>2. CASE \E c \in Cleaner : \E s \in Sid : CleanUpFile(c, s)
    BY <1>1, <2>1, <2>2 DEF SharedOK
  <2>3. CASE (\E c \in Cleaner : CleanUpEnd(c)) \/ (\E s \in Sid : Expire(s)) \/ CycleOver
             \/ UNCHANGED vars
    BY <2>3 DEF CleanUpEnd, Expire, CycleOver, vars, fileVars
  <2>4. QED
    BY <2>2, <2>3 DEF CleanerStep
<1>4. \A c \in Cleaner : walk'[c] # None => walk'[c] \subseteq old'
  <2>1. ASSUME NEW d \in Cleaner, NEW s \in Sid, CleanUpFile(d, s)
        PROVE  \A c \in Cleaner : walk'[c] # None => walk'[c] \subseteq old'
    BY <1>1, <1>3, <2>1 DEF CleanUpFile, LeftShared, SharedOK
  <2>2. ASSUME NEW d \in Cleaner, CleanUpEnd(d)
        PROVE  \A c \in Cleaner : walk'[c] # None => walk'[c] \subseteq old'
    BY <1>1, <1>3, <2>2 DEF CleanUpEnd, LeftShared, SharedOK
  <2>3. CASE (\E s \in Sid : Expire(s)) \/ CycleOver \/ UNCHANGED vars
    BY <1>1, <1>3, <2>3 DEF Expire, CycleOver, vars, cleanVars, LeftShared
  <2>4. QED
    BY <2>1, <2>2, <2>3 DEF CleanerStep
<1>5. jar \in Sid \cup {None}
  BY <1>1 DEF SharedOK
<1>6. LeftShared'
  BY <1>1, <1>2, <1>3, <1>4, <1>5 DEF LeftShared, LeftIsInFile
<1>7. ASSUME NEW r \in Request PROVE IdleClean(r)' /\ (Alone(r)' => AloneFits(r)')
  <2>1. cookie[r] \in Sid \cup {None} /\ sid[r] \in Sid \cup {None}
    BY <1>1 DEF RequestsTyped
  <2>2. IdleClean(r) /\ (Alone(r) => AloneFits(r))
    BY DEF LeftInv
  <2>3. QED
    BY <1>2, <1>3, <1>5, <2>1, <2>2 DEF IdleClean, Alone, AloneFits
<1>8. QED
  BY <1>6, <1>7 DEF LeftInv

\* Only Load gives a request its dictionary.
LEMMA LoadFindsLeft ==
    ASSUME SessionInv, LeftInv, NEW r \in Request, Load(r), data'[r] # None,
           ~overlap, left # None, cookie[r] \notin old
    PROVE  data'[r] = left
<1>1. /\ SharedOK /\ RequestsTyped /\ Fits(r) /\ LeftShared
      /\ calling[r] = "load" /\ stage[r] \in {"app", "body"} /\ opened[r]
  BY DEF SessionInv, LeftInv, Fits, Load
<1>2. AloneFits(r)
  BY <1>1 DEF LeftInv, Alone
<1>3. sid[r] \in Sid
  BY <1>1 DEF Fits, RequestsTyped
<1>4. data'[r] \in Loaded(r)
  BY <1>1 DEF Load, RequestsTyped
<1>5. CASE created[r]
  <2>1. file[sid[r]] = None /\ left = {}
    BY <1>1, <1>2, <1>5 DEF AloneFits
  <2>2. QED
    BY <1>4, <2>1 DEF Loaded
<1>6. CASE ~created[r]
  <2>1. sid[r] = jar /\ jar = cookie[r]
    BY <1>2, <1>3, <1>6, SessionAssumption DEF AloneFits
  <2>2. jar \notin old \cup {None}
    BY <1>3, <2>1, SessionAssumption
  <2>3. /\ file[sid[r]] = None => left = {}
        /\ file[sid[r]] \notin {None, {}} => left = file[sid[r]]
    BY <1>1, <2>1, <2>2 DEF LeftShared, LeftIsInFile
  <2>4. QED
    BY <1>4, <2>3 DEF Loaded
<1>7. QED
  BY <1>5, <1>6

\* A request that overlaps no other one finds in its session what the browser's last
\* request left there, for every number of requests, sessions and cleanup threads,
\* whichever of them fail, and whatever is removed meanwhile, until the session
\* expires.
THEOREM FoundAsLeft == Spec => FindsWhatWasLeft
<1>1. SessionInv /\ LeftInv /\ [Next]_vars => LeftInv'
  BY LeftFactory, LeftResponse, LeftOther DEF Next
<1>2. SessionInv /\ LeftInv /\ [Next]_vars =>
         [\A r \in Request :
             data[r] = None /\ data'[r] # None /\ stage'[r] = stage[r]
             /\ ~overlap /\ left # None
             /\ ~(cookie[r] \in old) => data'[r] = left]_vars
  <2> SUFFICES ASSUME SessionInv, LeftInv, Next, NEW r \in Request,
                      data[r] = None, data'[r] # None, stage'[r] = stage[r],
                      ~overlap, left # None, ~(cookie[r] \in old)
               PROVE  data'[r] = left
    OBVIOUS
  <2>1. Load(r)
    <3>1. data \in [Request -> Content]
      BY DEF SessionInv, RequestsTyped
    <3>2. data' # data
      OBVIOUS
    <3>3. PICK u \in Request : FactoryStep(u) \/ ResponseStep(u)
      BY <3>2 DEF Next, CleanerStep, CleanUpFile, CleanUpEnd, Expire, CycleOver,
                  factoryVars
    <3>4. CASE FactoryStep(u)
      BY <3>1, <3>4 DEF FactoryStep, Open, CleanUpCheck, CleanUpMark, CleanUpStart,
                        CleanUpNotStarted, Load, CallAgain, factoryVars
    <3>5. CASE ResponseStep(u)
      BY <3>1, <3>5 DEF ResponseStep, Begin, StartResponse, Send, Return, Exhausted,
                        Interrupted, Closing, Unsaved, CloseEmpty, CloseTruncate, CloseWrite,
                        CloseFails, Change, Over, factoryVars
    <3>6. QED
      BY <3>3, <3>4, <3>5
  <2>2. QED
    BY <2>1, LoadFindsLeft
<1>3. QED
  BY InitLeft, SessionsKept, <1>1, <1>2, PTL DEF Spec, FindsWhatWasLeft
=============================================================================
