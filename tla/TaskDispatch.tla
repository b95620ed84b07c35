---------------------------- MODULE TaskDispatch ----------------------------
(***************************************************************************)
(* What a thread pool promises to those who hand it tasks: every task is   *)
(* begun once, in the order of arrival, nothing leaves the line in any     *)
(* other way, and in the end it is begun and over.  It says nothing of     *)
(* threads: how many there are, how they start, stop and are replaced is   *)
(* the pool's own business.                                                *)
(***************************************************************************)
EXTENDS Sequences

CONSTANT Task

VARIABLES
    waiting,    \* tasks that were added and not begun, in order of arrival
    begun       \* tasks that were begun and are not over

dispatchVars == <<waiting, begun>>

Waits(t) == \E i \in DOMAIN waiting : waiting[i] = t

Init == waiting = <<>> /\ begun = {}

Submit(t) ==
    /\ ~Waits(t) /\ t \notin begun
    /\ waiting' = Append(waiting, t)
    /\ UNCHANGED begun

Start ==
    /\ waiting # <<>>
    /\ waiting' = Tail(waiting)
    /\ begun' = begun \cup {Head(waiting)}

End(t) ==
    /\ t \in begun
    /\ begun' = begun \ {t}
    /\ UNCHANGED waiting

Next == Start \/ \E t \in Task : Submit(t) \/ End(t)

Spec == Init /\ [][Next]_dispatchVars

FairSpec ==
    /\ Spec
    /\ WF_dispatchVars(Start)
    /\ \A t \in Task : WF_dispatchVars(End(t))
=============================================================================
