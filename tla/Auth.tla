-------------------------------- MODULE Auth --------------------------------
(***************************************************************************)
(* A browser of a user who knows the password but may type it wrong at first,  *)
(* and threads that authenticate its requests: AuthCookieHandler or            *)
(* AuthTKTMiddleware perhaps, then GrantIPMiddleware, then a MultiHandler with *)
(* the digest, basic or form method.  Requests run at the same time, are sent  *)
(* again when the answer takes long, and arrive in any order; the threads      *)
(* share the nonces.                                                           *)
(***************************************************************************)
EXTENDS Integers, Sequences, FiniteSets, SequencesExt

CONSTANTS
    Thread, Request,
    Config,       \* configurations: [ipMap, clobber, predicate, default, keeps]; ipMap is the one
                  \* of grantip, a sequence of [in, user], in: is the browser's address in the range?;
                  \* predicate of multi, a sequence of [holds, method]; keeps is cookie, tkt or none
    MaxNonces, MaxSends

Unused == -1      \* the count of a nonce that was not used yet
Unknown == 0      \* no nonce; and the count get returns for a nonce that is not kept

VARIABLES
    config,
    jar,          \* has the browser a cookie that says who the user is?
    nonces,       \* self.nonce: kept nonces and their counts
    issued,       \* nonces made so far
    nonce, count, \* what the browser uses: a nonce and the next count
    typed,        \* what the user typed when asked: the right password, a wrong one, the name
                  \* of nobody; or none, not asked yet
    requests,     \* of the browser: new, sent, done, failed
    sends,        \* how often each was sent
    wire,         \* what was sent: [request, send, nonce, count]
    at,           \* what each thread does: [step, message, pnc]
    judged        \* what was decided: [nonce, count, as, cookie, passed]

vars == <<config, jar, nonces, issued, nonce, count, typed, requests, sends, wire, at, judged>>

Idle == [step |-> "idle"]

Init ==
    /\ config \in Config /\ jar = FALSE
    /\ nonces = << >> /\ issued = 0
    /\ nonce = Unknown /\ count = 0 /\ typed = [r \in Request |-> "none"] /\ judged = {}
    /\ requests = [r \in Request |-> "new"] /\ sends = [r \in Request |-> 0]
    /\ wire = {} /\ at = [t \in Thread |-> Idle]

-----------------------------------------------------------------------------
(* Who the user is before any method is asked.                               *)

\* One entry of ip_map; a name set before stays, unless it may be clobbered.
Applies(user, entry) ==
    IF ~entry.in \/ entry.user \in {"", "__remove__"} THEN user
    ELSE IF user = "" \/ config.clobber THEN entry.user ELSE user

GrantedUser ==
    IF \E e \in Range(config.ipMap) : e.in /\ e.user = "__remove__" THEN ""
    ELSE FoldLeft(Applies, "", config.ipMap)

\* The first predicate that holds selects the method.
Method ==
    LET holds == {i \in DOMAIN config.predicate : config.predicate[i].holds}
        first == CHOOSE i \in holds : \A k \in holds : i <= k
    IN  IF holds = {} THEN config.default ELSE config.predicate[first].method

Digest == Method \notin {"basic", "form"}

-----------------------------------------------------------------------------
(* The browser.                                                              *)

Send(r) ==
    /\ requests[r] = "new" \/ (requests[r] = "sent" /\ sends[r] < MaxSends)
    /\ requests' = [requests EXCEPT ![r] = "sent"]
    /\ sends' = [sends EXCEPT ![r] = @ + 1]
    /\ count' = IF typed[r] # "none" /\ Digest THEN count + 1 ELSE count
    /\ wire' = wire \cup {[request |-> r, send |-> sends'[r], nonce |-> nonce, count |-> count',
                           as |-> typed[r], cookie |-> jar]}
    /\ UNCHANGED <<config, jar, nonces, issued, nonce, typed, at, judged>>

\* It waits for the last copy that it sent of a request.
Waits(m) == requests[m.request] = "sent" /\ sends[m.request] = m.send

Judge(m, passed) ==
    judged' = judged \cup {[nonce |-> m.nonce, count |-> m.count, as |-> m.as, cookie |-> m.cookie,
                            passed |-> passed]}

\* With the page comes a cookie, of the response hook or of set_user.
SetsCookie == config.keeps = "cookie"
SetsTicket == config.keeps = "tkt"

Answered(m) ==
    /\ Judge(m, TRUE)
    /\ jar' = (jar \/ (Waits(m) /\ (SetsCookie \/ SetsTicket)))
    /\ requests' = IF Waits(m) THEN [requests EXCEPT ![m.request] = "done"] ELSE requests
    /\ UNCHANGED <<nonce, count, typed>>

\* A challenge: the user is asked, unless only the nonce is stale.  He makes a mistake the
\* first time at most.
Challenged(m, new, stale) ==
    /\ Judge(m, FALSE)
    /\ UNCHANGED jar
    /\ IF ~Waits(m) THEN UNCHANGED <<nonce, count, typed, requests>>
       ELSE
         /\ nonce' = new /\ count' = 0
         /\ requests' = [requests EXCEPT ![m.request] = "new"]
         /\ IF stale THEN UNCHANGED typed
            ELSE \E p \in IF typed[m.request] = "none" THEN {"right", "wrong", "nobody"} ELSE {"right"} :
                    typed' = [r \in Request |-> IF Method = "form" /\ r # m.request THEN typed[r] ELSE p]

\* An exception is an error page.
Failed(m) ==
    /\ Judge(m, FALSE)
    /\ requests' = IF Waits(m) THEN [requests EXCEPT ![m.request] = "failed"] ELSE requests
    /\ UNCHANGED <<jar, nonce, count, typed>>

-----------------------------------------------------------------------------
(* The threads.                                                              *)

\* build_authentication makes a nonce, and keeps it as one not used yet.
Build(m, kept, stale) ==
    /\ issued < MaxNonces
    /\ issued' = issued + 1
    /\ nonces' = [n \in DOMAIN kept \cup {issued'} |-> IF n = issued' THEN Unused ELSE kept[n]]
    /\ Challenged(m, issued', stale)

\* basic: a user and a password in each request.
Basic(m) == IF m.as = "right" THEN Answered(m) ELSE Challenged(m, Unknown, FALSE)

\* form: the answer to the form is a POST, which goes on as a GET.
Form(m) == IF m.as = "right" THEN Answered(m) ELSE Challenged(m, Unknown, FALSE)

\* The signer decodes a text as bytes, the ticket is stripped as bytes: neither can be
\* read back, and the exception ends the request.
CookieFails == config.keeps = "cookie"
TicketFails == config.keeps = "tkt"
Unreadable(cookie) == cookie /\ (CookieFails \/ TicketFails)

\* A request that arrives: with a user already, every method lets it pass.  digest asks at once
\* who names no user, or one that has no password, and compares the response of the others.
Take(t, m) ==
    /\ at[t] = Idle /\ m \in wire /\ wire' = wire \ {m}
    /\ IF Unreadable(m.cookie) THEN Failed(m) /\ UNCHANGED <<nonces, issued, at>>
       ELSE IF GrantedUser # "" THEN Answered(m) /\ UNCHANGED <<nonces, issued, at>>
       ELSE CASE Method = "basic" -> Basic(m) /\ UNCHANGED <<nonces, issued, at>>
              [] Method = "form" -> Form(m) /\ UNCHANGED <<nonces, issued, at>>
              [] Digest /\ m.as \in {"none", "nobody"} -> Build(m, nonces, FALSE) /\ UNCHANGED at
              [] OTHER ->
                   /\ at' = [at EXCEPT ![t] = [step |-> IF m.as = "right" THEN "get" ELSE "refuse",
                                               message |-> m]]
                   /\ UNCHANGED <<nonces, issued, jar, nonce, count, typed, requests, judged>>
    /\ UNCHANGED <<config, sends>>

BrowserWaits == UNCHANGED <<config, jar, nonce, count, typed, requests, sends, wire, judged>>
Go(t, step) == at' = [at EXCEPT ![t].step = step]

\* A mutant: a nonce is good for one request.
GetPlain(t) ==
    /\ at[t].step = "get"
    /\ LET n == at[t].message.nonce
       IN  Go(t, IF n \in DOMAIN nonces /\ nonces[n] # Unused THEN "refuse" ELSE "set")
    /\ BrowserWaits /\ UNCHANGED <<nonces, issued>>

\* compute: the count has to be above the last one, if there was one.
Get(t) ==
    /\ at[t].step = "get"
    /\ LET m == at[t].message
           pnc == IF m.nonce \in DOMAIN nonces THEN nonces[m.nonce] ELSE Unknown
       IN  Go(t, IF pnc # Unused /\ m.count <= pnc THEN "refuse" ELSE "set")
    /\ BrowserWaits /\ UNCHANGED <<nonces, issued>>

Set(t) ==
    /\ at[t].step = "set"
    /\ LET m == at[t].message
       IN  /\ nonces' = [n \in DOMAIN nonces \cup {m.nonce} |-> IF n = m.nonce THEN m.count ELSE nonces[n]]
           /\ Answered(m)
    /\ at' = [at EXCEPT ![t] = Idle]
    /\ UNCHANGED <<config, issued, sends, wire>>

\* A wrong response, or a count that is not above: the nonce is given up, if it is still kept.
Refuse(t) ==
    /\ at[t].step = "refuse"
    /\ LET m == at[t].message
       IN  IF m.nonce \in DOMAIN nonces
           THEN Go(t, "delete") /\ UNCHANGED <<nonces, issued, jar, nonce, count, typed, requests, judged>>
           ELSE Build(m, nonces, m.as = "right") /\ at' = [at EXCEPT ![t] = Idle]
    /\ UNCHANGED <<config, sends, wire>>

\* Another thread may have given it up in between: a KeyError.
Delete(t) ==
    /\ at[t].step = "delete"
    /\ LET m == at[t].message
       IN  IF m.nonce \in DOMAIN nonces
           THEN Build(m, [n \in DOMAIN nonces \ {m.nonce} |-> nonces[n]], m.as = "right")
           ELSE Failed(m) /\ UNCHANGED <<nonces, issued>>
    /\ at' = [at EXCEPT ![t] = Idle]
    /\ UNCHANGED <<config, sends, wire>>

Next ==
    \/ \E r \in Request : Send(r)
    \/ \E t \in Thread : (\E m \in wire : Take(t, m)) \/ Get(t) \/ Set(t) \/ Refuse(t) \/ Delete(t)

Spec == Init /\ [][Next]_vars

-----------------------------------------------------------------------------

\* The same nonce passed with a count that is not below.
Overtaken(j) == \E p \in judged : p.passed /\ p.nonce = j.nonce /\ p.count >= j.count

\* A request with the right password passes, unless one that was sent after it with the same
\* nonce passed before it, or a cookie that came with it cannot be read: neither what other
\* threads do to its nonce between two steps, nor mistakes that were made with it, nor a nonce
\* that was given up, lead to another challenge or to an error (digest.py 120-129).
RefusedIfOvertaken ==
    \A j \in judged : j.as = "right" /\ ~j.passed => Unreadable(j.cookie) \/ Overtaken(j)
=============================================================================
