--------------------------- MODULE MCPoolShutdown ---------------------------
(* Instances of PoolShutdown for TLC.                                      *)
EXTENDS PoolShutdown

Symmetric == Permutations(Ident) \cup Permutations(Task)
=============================================================================
