----------------------------- MODULE SpinLocks ------------------------------
(***************************************************************************)
(* The test-and-set locks, one of which is chosen at first, as             *)
(* spin_lock_test.c chooses the functions that it measures.                *)
(***************************************************************************)
EXTENDS SpinLock

VARIABLE lock  \* the lock that is used

TAS  == INSTANCE TASLock
TTAS == INSTANCE TTASLock

EitherInit == Init /\ lock \in {"TAS", "TTAS"}

Acquire(t) == \/ lock = "TAS"  /\ TAS!Acquire(t)
              \/ lock = "TTAS" /\ TTAS!Acquire(t)

Advance(t) == \/ lock = "TAS"  /\ TAS!Advance(t)
              \/ lock = "TTAS" /\ TTAS!Advance(t)

Next == UNCHANGED lock /\ \E t \in Thread : Acquire(t) \/ Advance(t)

Spec == EitherInit /\ [][Next]_<<vars, lock>>

\* The scheduler runs every thread, and critical sections end; nothing makes a
\* thread ask for the lock.
FairSpec == /\ Spec
            /\ \A t \in Thread : WF_<<vars, lock>>(Advance(t) /\ UNCHANGED lock)
=============================================================================
