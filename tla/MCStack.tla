------------------------------ MODULE MCStack ------------------------------
(* Instances of module Stack for TLC.  Threads and nodes are interchangeable. *)
EXTENDS Stack, TLC

Symmetry == Permutations(Thread) \cup Permutations(Node)

\* No action reads errno, so states that differ in it only need one visit.
View == <<heapVars, recVars, hpVars, localVars, live, pc>>
=============================================================================
