---------------------------- MODULE MCThreadPool ----------------------------
(* Instances of ThreadPool for TLC.                                        *)
EXTENDS ThreadPool

\* Threads are interchangeable, and so are connections.  Not used with
\* liveness properties.
Symmetric == Permutations(Ident) \cup Permutations(Task)
=============================================================================
