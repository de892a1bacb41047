------------------------------ MODULE FifoLock ------------------------------
(***************************************************************************)
(* The "First-in first-out fairness" that lab2/SpinLocks.h promises of the *)
(* ticket lock: threads enter in the order in which they arrived.  The     *)
(* lock of module TicketLock is shown to implement this one.               *)
(***************************************************************************)
EXTENDS Naturals, Sequences

CONSTANT Thread  \* the threads that use the lock

VARIABLES
  queue,  \* the threads that have arrived and not yet left, in that order
  inside  \* the threads in their critical section: none, or the first of them

vars == <<queue, inside>>

Init == queue = <<>> /\ inside = {}

Arrive(t) ==
  /\ \A i \in 1 .. Len(queue) : queue[i] # t
  /\ queue' = Append(queue, t)
  /\ UNCHANGED inside

Enter(t) ==
  /\ queue # <<>> /\ Head(queue) = t
  /\ inside = {}
  /\ inside' = {t}
  /\ UNCHANGED queue

Leave(t) ==
  /\ inside = {t} /\ Head(queue) = t
  /\ inside' = {}
  /\ queue' = Tail(queue)

Next == \E t \in Thread : Arrive(t) \/ Enter(t) \/ Leave(t)

Spec == Init /\ [][Next]_vars
=============================================================================
