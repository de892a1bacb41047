------------------------------ MODULE TTASLock ------------------------------
(***************************************************************************)
(* The test-and-test-and-set lock of lab2/SpinLocks.c: the byte is loaded  *)
(* until it is seen clear, and only then tested and set.                   *)
(***************************************************************************)
EXTENDS SpinLock

Acquire(t) == Call(t, "Spin")

Spin(t) ==
  /\ pc[t] = "Spin"
  /\ lock_taken = 1
  /\ cycle_no[t] < CyclesToSpin
  /\ cycle_no' = [cycle_no EXCEPT ![t] = @ + 1]
  /\ UNCHANGED <<lock_taken, pc, backoff_sleep>>

\* The byte was seen clear, or the cycles are used up.
StopSpinning(t) ==
  /\ lock_taken = 0 \/ cycle_no[t] = CyclesToSpin
  /\ Goto(t, "Spin", "Test")
  /\ UNCHANGED <<lock_taken, cycle_no, backoff_sleep>>

BackOff(t) ==
  /\ lock_taken = 1
  /\ Goto(t, "Test", "Sleep")
  /\ Double(t)
  /\ UNCHANGED <<lock_taken, cycle_no>>

Wake(t) ==
  /\ Goto(t, "Sleep", "Test")
  /\ UNCHANGED <<lock_taken, cycle_no, backoff_sleep>>

SeeFree(t) ==
  /\ lock_taken = 0
  /\ Goto(t, "Test", "TestAndSet")
  /\ UNCHANGED <<lock_taken, cycle_no, backoff_sleep>>

\* Fault: the test that came before is trusted, and the byte is only set.
TakeUntested(t) ==
  /\ Goto(t, "TestAndSet", "Critical")
  /\ lock_taken' = 1
  /\ UNCHANGED <<cycle_no, backoff_sleep>>

\* The test-and-set finds 0: the lock is ours.
Take(t) ==
  /\ lock_taken = 0
  /\ Goto(t, "TestAndSet", "Critical")
  /\ lock_taken' = 1
  /\ UNCHANGED <<cycle_no, backoff_sleep>>

\* Another thread was faster.
Miss(t) ==
  /\ lock_taken = 1
  /\ Goto(t, "TestAndSet", "Test")
  /\ UNCHANGED <<lock_taken, cycle_no, backoff_sleep>>

Advance(t) == \/ Spin(t) \/ StopSpinning(t) \/ BackOff(t) \/ Wake(t)
              \/ SeeFree(t) \/ Take(t) \/ Miss(t) \/ Release(t)

Next == \E t \in Thread : Acquire(t) \/ Advance(t)

Spec == Init /\ [][Next]_vars
=============================================================================
