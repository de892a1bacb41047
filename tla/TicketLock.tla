----------------------------- MODULE TicketLock -----------------------------
(***************************************************************************)
(* The ticket lock of lab2/SpinLocks.c.  Tickets are 16-bit shorts that    *)
(* wrap around: here there are Tickets of them.  One action is one access  *)
(* to shared memory, or the return of sched_yield.                         *)
(***************************************************************************)
EXTENDS Integers, Sequences, FiniteSets

CONSTANTS
  Thread,
  Tickets,      \* number of values of a short, 2^16
  CyclesToSpin  \* TTAS_CYCLES_TO_SPIN: no code reads TICKET_CYCLES_TO_SPIN

ASSUME TicketsAssumption == Tickets \in Nat \ {0}
ASSUME CyclesAssumption == CyclesToSpin \in Nat

\* The benchmark starts at most MAX_THREADS = 100 threads.
ASSUME ThreadAssumption == IsFiniteSet(Thread) /\ Cardinality(Thread) <= Tickets

Ticket == 0 .. Tickets - 1

VARIABLES
  next_ticket,  \* lock->next_ticket
  now_serving,  \* lock->now_serving
  ticket,       \* the ticket of each thread
  cycle_no,     \* cycles of the first loop
  pc            \* where each thread is

vars == <<next_ticket, now_serving, ticket, cycle_no, pc>>

TypeOK ==
  /\ next_ticket \in Ticket
  /\ now_serving \in Ticket
  /\ ticket \in [Thread -> Ticket]
  /\ cycle_no \in [Thread -> 0 .. CyclesToSpin]
  /\ pc \in [Thread -> {"Idle", "Spin", "Wait", "Yield", "Critical"}]

Init ==
  /\ next_ticket = 0
  /\ now_serving = 0
  /\ ticket = [t \in Thread |-> 0]
  /\ cycle_no = [t \in Thread |-> 0]
  /\ pc = [t \in Thread |-> "Idle"]

Goto(t, from, to) == pc[t] = from /\ pc' = [pc EXCEPT ![t] = to]

\* Fault: the largest short is followed by itself.
Saturate(n) == IF n = Tickets - 1 THEN n ELSE n + 1

\* n + 1 in the arithmetic of shorts
Increment(n) == IF n = Tickets - 1 THEN 0 ELSE n + 1

\* fetch_add of next_ticket
Acquire(t) ==
  /\ Goto(t, "Idle", "Spin")
  /\ ticket' = [ticket EXCEPT ![t] = next_ticket]
  /\ next_ticket' = Increment(next_ticket)
  /\ cycle_no' = [cycle_no EXCEPT ![t] = 0]
  /\ UNCHANGED now_serving

Spin(t) ==
  /\ pc[t] = "Spin"
  /\ now_serving # ticket[t]
  /\ cycle_no[t] < CyclesToSpin
  /\ cycle_no' = [cycle_no EXCEPT ![t] = @ + 1]
  /\ UNCHANGED <<next_ticket, now_serving, ticket, pc>>

StopSpinning(t) ==
  /\ now_serving = ticket[t] \/ cycle_no[t] = CyclesToSpin
  /\ Goto(t, "Spin", "Wait")
  /\ UNCHANGED <<next_ticket, now_serving, ticket, cycle_no>>

\* Fault: a ticket that was called already is good too.
EnterLate(t) ==
  /\ now_serving >= ticket[t]
  /\ Goto(t, "Wait", "Critical")
  /\ UNCHANGED <<next_ticket, now_serving, ticket, cycle_no>>

Enter(t) ==
  /\ now_serving = ticket[t]
  /\ Goto(t, "Wait", "Critical")
  /\ UNCHANGED <<next_ticket, now_serving, ticket, cycle_no>>

Yield(t) ==
  /\ now_serving # ticket[t]
  /\ Goto(t, "Wait", "Yield")
  /\ UNCHANGED <<next_ticket, now_serving, ticket, cycle_no>>

\* sched_yield returns
Resume(t) ==
  /\ Goto(t, "Yield", "Wait")
  /\ UNCHANGED <<next_ticket, now_serving, ticket, cycle_no>>

\* Fault: the next ticket is not called.
ReleaseNobody(t) ==
  /\ Goto(t, "Critical", "Idle")
  /\ UNCHANGED <<next_ticket, now_serving, ticket, cycle_no>>

\* fetch_add of now_serving
Release(t) ==
  /\ Goto(t, "Critical", "Idle")
  /\ now_serving' = Increment(now_serving)
  /\ UNCHANGED <<next_ticket, ticket, cycle_no>>

Advance(t) == \/ Spin(t) \/ StopSpinning(t) \/ Enter(t) \/ Yield(t) \/ Resume(t)
              \/ Release(t)

Next == \E t \in Thread : Acquire(t) \/ Advance(t)

Spec == Init /\ [][Next]_vars

\* The scheduler runs every thread, and critical sections end; nothing makes a
\* thread ask for the lock.
FairSpec == Spec /\ \A t \in Thread : WF_vars(Advance(t))
-----------------------------------------------------------------------------
\* The threads that hold a ticket, and how far a ticket is from being called.
Queued == {t \in Thread : pc[t] # "Idle"}

Distance(n) == IF n >= now_serving THEN n - now_serving
                                   ELSE n - now_serving + Tickets

\* The tickets in use are those from now_serving on, each in one hand, although
\* both counters wrap: this is what makes the lock exclude.
TicketInv ==
  /\ \A t, u \in Queued : ticket[t] = ticket[u] => t = u
  /\ \A t \in Queued : Distance(ticket[t]) < Cardinality(Queued)
  /\ Distance(next_ticket) = IF Cardinality(Queued) = Tickets
                             THEN 0 ELSE Cardinality(Queued)
  /\ \A t \in Thread : pc[t] = "Critical" => ticket[t] = now_serving

\* The lock is a lock: acquire and release are those of AbstractLock.
Abstract == INSTANCE AbstractLock
  WITH holders <- {t \in Thread : pc[t] = "Critical"}

Excludes == Abstract!Spec

\* Threads enter in the order of their fetch_add (SpinLocks.h:70).
Fifo == INSTANCE FifoLock
  WITH queue  <- [i \in 1 .. Cardinality(Queued) |->
                    CHOOSE t \in Queued : Distance(ticket[t]) = i - 1],
       inside <- {t \in Thread : pc[t] = "Critical"}

FirstInFirstOut == Fifo!Spec

\* Every thread that asks for the lock gets it.
StarvationFree ==
  \A t \in Thread : pc[t] = "Spin" ~> pc[t] = "Critical"
=============================================================================
