------------------------------ MODULE SpinLock ------------------------------
(***************************************************************************)
(* What the test-and-set locks of lab2/SpinLocks.c have in common: a byte  *)
(* that is set while the lock is taken, threads that try, back off and     *)
(* sleep, and what the locks promise.  One action is one access to the     *)
(* byte, or the end of a nanosleep.                                        *)
(***************************************************************************)
EXTENDS Integers

CONSTANTS
  Thread,
  CyclesToSpin, \* TAS_CYCLES_TO_SPIN, TTAS_CYCLES_TO_SPIN
  MinBackoff,   \* ..._MIN_BACKOFF_NANOSECONDS
  MaxBackoff    \* ..._MAX_BACKOFF_NANOSECONDS

ASSUME CyclesAssumption == CyclesToSpin \in Nat \ {0}

\* The doublings of the minimum meet the maximum exactly (64000 = 64 * 1000).
Doublings == {1, 2, 4, 8, 16, 32, 64}

ASSUME BackoffAssumption ==
  MinBackoff \in Nat \ {0} /\ \E n \in Doublings : MaxBackoff = n * MinBackoff

VARIABLES
  lock_taken,    \* the byte that is tested and set
  pc,            \* where each thread is
  cycle_no,      \* cycles of the loop that does not sleep
  backoff_sleep  \* the next sleep, before the random part is added

vars == <<lock_taken, pc, cycle_no, backoff_sleep>>

\* Where a thread is that wants the lock.
Waiting == {"Spin", "Test", "TestAndSet", "Sleep"}

TypeOK ==
  /\ lock_taken \in {0, 1}
  /\ pc \in [Thread -> {"Idle", "Critical"} \cup Waiting]
  /\ cycle_no \in [Thread -> 0 .. CyclesToSpin]
  /\ backoff_sleep \in [Thread -> Nat]

Init ==
  /\ lock_taken = 0
  /\ pc = [t \in Thread |-> "Idle"]
  /\ cycle_no = [t \in Thread |-> 0]
  /\ backoff_sleep = [t \in Thread |-> MinBackoff]

Goto(t, from, to) == pc[t] = from /\ pc' = [pc EXCEPT ![t] = to]

\* The call of acquire, whose loops begin at first.
Call(t, first) ==
  /\ Goto(t, "Idle", first)
  /\ cycle_no' = [cycle_no EXCEPT ![t] = 0]
  /\ backoff_sleep' = [backoff_sleep EXCEPT ![t] = MinBackoff]
  /\ UNCHANGED lock_taken

\* Fault: the sleep is doubled once more when it has reached the maximum.
DoubleTooFar(t) ==
  backoff_sleep' = [backoff_sleep EXCEPT ![t] = IF @ <= MaxBackoff THEN 2 * @ ELSE @]

Double(t) ==
  backoff_sleep' = [backoff_sleep EXCEPT ![t] = IF @ < MaxBackoff THEN 2 * @ ELSE @]

\* Fault: the byte is not cleared.
ReleaseNothing(t) ==
  /\ Goto(t, "Critical", "Idle")
  /\ UNCHANGED <<lock_taken, cycle_no, backoff_sleep>>

Release(t) ==
  /\ Goto(t, "Critical", "Idle")
  /\ lock_taken' = 0
  /\ UNCHANGED <<cycle_no, backoff_sleep>>
-----------------------------------------------------------------------------
\* lock_taken is set exactly when some thread is in its critical section, and
\* then only one is: the reason why the locks exclude (SpinLocks.c:36, 60, 121).
LockInv ==
  /\ lock_taken = 1 <=> \E t \in Thread : pc[t] = "Critical"
  /\ \A t, u \in Thread : pc[t] = "Critical" /\ pc[u] = "Critical" => t = u

\* The sleep never exceeds the maximum (SpinLocks.c:47, 113), which with the
\* random part keeps tv_nsec far below the limit of nanosleep.
BackoffBounded == \A t \in Thread : backoff_sleep[t] <= MaxBackoff

\* The lock is a lock: acquire and release are those of AbstractLock.
Abstract == INSTANCE AbstractLock
  WITH holders <- {t \in Thread : pc[t] = "Critical"}

Excludes == Abstract!Spec

\* Someone gets the lock whenever someone wants it, in spite of the sleeps and
\* although the byte may be taken again between a test and a test-and-set; a
\* given thread may be overtaken for ever.
DeadlockFree ==
  (\E t \in Thread : pc[t] \in Waiting) ~> (\E t \in Thread : pc[t] = "Critical")
=============================================================================
