------------------------------- MODULE MCSession -------------------------------
(* Instances of Session for TLC.                                           *)
EXTENDS Session, TLC

\* Requests, session ids and cleanup threads are interchangeable.
Symmetric == Permutations(Request) \cup Permutations(Sid) \cup Permutations(Cleaner)
=============================================================================
