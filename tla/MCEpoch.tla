------------------------------ MODULE MCEpoch ------------------------------
(***************************************************************************)
(* Epoch for TLC: what the cells that skiplist_init leaves alone may hold, *)
(* and the threads and towers, which are alike.                            *)
(***************************************************************************)
EXTENDS Epoch, TLC

\* Memory fresh from the system, a cell of an earlier list, any other byte.
GarbageChars == {0, -1, 7}

Symmetry == Permutations(Thread) \cup Permutations(Tower)
=============================================================================
