---------------------------- MODULE AbstractLock ----------------------------
(***************************************************************************)
(* What each spin lock of lab2 promises the code between acquire and       *)
(* release: one thread at a time.  The three locks are shown to implement  *)
(* this module, and the benchmark is built on it.                          *)
(***************************************************************************)
CONSTANT Thread  \* the threads that use the lock

VARIABLE holders \* the threads that have returned from acquire

Init == holders = {}

Acquire(t) == holders = {} /\ holders' = {t}

Release(t) == holders = {t} /\ holders' = {}

Next == \E t \in Thread : Acquire(t) \/ Release(t)

Spec == Init /\ [][Next]_holders
=============================================================================
