------------------------------ MODULE TASLock ------------------------------
(***************************************************************************)
(* The test-and-set lock of lab2/SpinLocks.c with its exponential backoff. *)
(***************************************************************************)
EXTENDS SpinLock

\* A thread sleeps in the last of its cycles, and stays there from then on.
SleepInv == \A t \in Thread : pc[t] = "Sleep" => cycle_no[t] = CyclesToSpin - 1

Acquire(t) == Call(t, "TestAndSet")

\* The test-and-set finds 0: the lock is ours.
Take(t) ==
  /\ lock_taken = 0
  /\ Goto(t, "TestAndSet", "Critical")
  /\ lock_taken' = 1
  /\ backoff_sleep' = [backoff_sleep EXCEPT ![t] = MinBackoff]
  /\ UNCHANGED cycle_no

Spin(t) ==
  /\ pc[t] = "TestAndSet"
  /\ lock_taken = 1
  /\ cycle_no[t] # CyclesToSpin
  /\ cycle_no' = [cycle_no EXCEPT ![t] = @ + 1]
  /\ UNCHANGED <<lock_taken, pc, backoff_sleep>>

\* Fault: the counter is not stepped back.
BackOffAtEnd(t) ==
  /\ cycle_no[t] = CyclesToSpin
  /\ lock_taken = 1
  /\ Goto(t, "TestAndSet", "Sleep")
  /\ Double(t)
  /\ UNCHANGED <<lock_taken, cycle_no>>

\* Enough cycles: sleep, and stay at the last cycle from now on.
BackOff(t) ==
  /\ cycle_no[t] = CyclesToSpin
  /\ lock_taken = 1
  /\ Goto(t, "TestAndSet", "Sleep")
  /\ Double(t)
  /\ cycle_no' = [cycle_no EXCEPT ![t] = CyclesToSpin - 1]
  /\ UNCHANGED lock_taken

\* nanosleep returns, and the loop counts the cycle.
Wake(t) ==
  /\ Goto(t, "Sleep", "TestAndSet")
  /\ cycle_no' = [cycle_no EXCEPT ![t] = @ + 1]
  /\ UNCHANGED <<lock_taken, backoff_sleep>>

Advance(t) == Take(t) \/ Spin(t) \/ BackOff(t) \/ Wake(t) \/ Release(t)

Next == \E t \in Thread : Acquire(t) \/ Advance(t)

Spec == Init /\ [][Next]_vars
=============================================================================
