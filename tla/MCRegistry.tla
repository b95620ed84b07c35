------------------------------ MODULE MCRegistry ------------------------------
(* Instances of Registry for TLC.                                          *)
EXTENDS Registry

\* Threads, requests and objects are interchangeable, and so are proxies.
Symmetric == Permutations(Thread) \cup Permutations(Request)
             \cup Permutations(Obj) \cup Permutations(Proxy)
=============================================================================
