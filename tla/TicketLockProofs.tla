-------------------------- MODULE TicketLockProofs --------------------------
(***************************************************************************)
(* The ticket lock excludes and serves in the order of arrival, for any    *)
(* number of threads up to the number of tickets. The tickets of the       *)
(* queued threads are distinct and lie, in the circular order of shorts,   *)
(* in the window of Cardinality(Queued) tickets that starts at             *)
(* now_serving; next_ticket is the end of it, and no ticket of it is       *)
(* missing.                                                                *)
(***************************************************************************)
EXTENDS TicketLock, FiniteSetTheorems, TLAPS

Inv == TypeOK /\ TicketInv

\* Only its own changes count for the queue: it is finite and fits the tickets.
LEMMA QueuedFinite ==
  /\ IsFiniteSet(Queued) /\ Cardinality(Queued) \in Nat
  /\ Cardinality(Queued) <= Tickets
<1>1. Queued \subseteq Thread
  BY DEF Queued
<1>2. QED
  BY <1>1, ThreadAssumption, TicketsAssumption, FS_Subset, FS_CardinalityType

\* Initially nobody is queued.
LEMMA InvInit == Init => Inv
<1> SUFFICES ASSUME Init PROVE Inv
  OBVIOUS
<1>1. Queued = {}
  BY DEF Init, Queued
<1>2. Cardinality(Queued) = 0
  BY <1>1, FS_EmptySet
<1>3. QED
  BY <1>1, <1>2, TicketsAssumption, CyclesAssumption
  DEF Init, Inv, TypeOK, TicketInv, Ticket, Distance

\* Every step keeps the types.
LEMMA TypeStep == TypeOK /\ [Next]_vars => TypeOK'
<1> SUFFICES ASSUME TypeOK, [Next]_vars PROVE TypeOK'
  OBVIOUS
<1> USE TicketsAssumption, CyclesAssumption DEF TypeOK, Goto, Ticket
<1>1. ASSUME NEW n \in Ticket PROVE Increment(n) \in Ticket
  BY DEF Increment
<1>2. ASSUME NEW t \in Thread, Acquire(t) PROVE TypeOK'
  BY <1>1, <1>2 DEF Acquire
<1>3. ASSUME NEW t \in Thread, Spin(t) PROVE TypeOK'
  BY <1>3 DEF Spin
<1>4. ASSUME NEW t \in Thread, StopSpinning(t) PROVE TypeOK'
  BY <1>4 DEF StopSpinning
<1>5. ASSUME NEW t \in Thread, Enter(t) \/ Yield(t) \/ Resume(t) PROVE TypeOK'
  BY <1>5 DEF Enter, Yield, Resume
<1>6. ASSUME NEW t \in Thread, Release(t) PROVE TypeOK'
  BY <1>1, <1>6 DEF Release
<1>7. CASE UNCHANGED vars
  BY <1>7 DEF vars
<1>8. QED
  BY <1>2, <1>3, <1>4, <1>5, <1>6, <1>7 DEF Next, Advance

\* A thread that draws a ticket extends the window by one.
LEMMA AcquireStep ==
  ASSUME Inv, NEW t \in Thread, Acquire(t)
  PROVE  TicketInv'
<1> DEFINE q == Cardinality(Queued)
<1>1. Queued' = Queued \cup {t} /\ t \notin Queued
  BY DEF Acquire, Goto, Queued, Inv, TypeOK
<1>2. q \in Nat /\ q < Tickets /\ Cardinality(Queued)' = q + 1
  <2>1. Cardinality(Queued \cup {t}) = q + 1
    BY <1>1, QueuedFinite, FS_AddElement
  <2>2. Cardinality(Queued \cup {t}) <= Tickets
    <3>1. Queued \cup {t} \subseteq Thread
      BY DEF Queued
    <3>2. Cardinality(Queued \cup {t}) <= Cardinality(Thread)
      BY <3>1, ThreadAssumption, FS_Subset
    <3>3. Cardinality(Thread) \in Nat
      BY ThreadAssumption, FS_CardinalityType
    <3>4. QED
      BY <2>1, <3>2, <3>3, QueuedFinite, ThreadAssumption, TicketsAssumption
  <2>3. QED
    BY <1>1, <2>1, <2>2, QueuedFinite, TicketsAssumption
<1>3. Distance(next_ticket) = q
  BY <1>2, TicketsAssumption DEF Inv, TicketInv
<1>4. /\ now_serving' = now_serving
      /\ next_ticket' = Increment(next_ticket)
      /\ ticket' = [ticket EXCEPT ![t] = next_ticket]
      /\ pc' = [pc EXCEPT ![t] = "Spin"]
  BY DEF Acquire, Goto
<1>5. \A n \in Ticket : Distance(n)' = Distance(n)
  BY <1>4 DEF Distance
<1> USE DEF Inv, TypeOK, Ticket
<1>6. \A u \in Queued : /\ ticket'[u] = ticket[u] /\ Distance(ticket[u]) < q
                        /\ ticket[u] # next_ticket
  <2> SUFFICES ASSUME NEW u \in Queued
               PROVE  /\ ticket'[u] = ticket[u] /\ Distance(ticket[u]) < q
                      /\ ticket[u] # next_ticket
    OBVIOUS
  <2>1. u # t /\ u \in Thread
    BY <1>1 DEF Queued
  <2>2. ticket'[u] = ticket[u]
    BY <1>4, <2>1
  <2>3. Distance(ticket[u]) < q
    BY DEF TicketInv
  <2>4. QED
    BY <1>2, <1>3, <2>2, <2>3
<1>7. ticket'[t] = next_ticket
  BY <1>4
<1>8. \A u, v \in Queued' : ticket'[u] = ticket'[v] => u = v
  BY <1>1, <1>6, <1>7 DEF TicketInv
<1>9. \A u \in Queued' : Distance(ticket[u])' < q + 1
  <2>1. \A u \in Queued' : Distance(ticket[u])' = Distance(ticket'[u])
    BY <1>4 DEF Distance
  <2>2. \A u \in Queued' : Distance(ticket'[u]) \in Int
    <3>1. \A u \in Queued' : ticket'[u] \in Ticket
      BY <1>1, <1>6, <1>7 DEF Queued
    <3>2. QED
      BY <3>1, TicketsAssumption DEF Distance
  <2>3. \A u \in Queued : Distance(ticket'[u]) < q
    BY <1>6
  <2>4. Distance(ticket'[t]) = q
    BY <1>3, <1>7
  <2>5. \A u \in Queued' : Distance(ticket'[u]) < q + 1
    BY <1>1, <1>2, <2>2, <2>3, <2>4
  <2>6. QED
    BY <2>1, <2>5
<1>10. Distance(next_ticket)' = IF q + 1 = Tickets THEN 0 ELSE q + 1
  BY <1>2, <1>3, <1>4, TicketsAssumption DEF Distance, Increment
<1>11. \A u \in Thread : pc'[u] = "Critical" => ticket'[u] = now_serving'
  BY <1>4, <1>6 DEF TicketInv, Queued
<1>12. QED
  BY <1>2, <1>8, <1>9, <1>10, <1>11 DEF TicketInv

\* The thread that leaves held the ticket being served: the window moves on.
LEMMA ReleaseStep ==
  ASSUME Inv, NEW t \in Thread, Release(t)
  PROVE  TicketInv'
<1> DEFINE q == Cardinality(Queued)
<1>1. Queued' = Queued \ {t} /\ t \in Queued
  BY DEF Release, Goto, Queued, Inv, TypeOK
<1>2. q \in Nat /\ q > 0 /\ q <= Tickets /\ Cardinality(Queued)' = q - 1
  <2>1. Cardinality(Queued \ {t}) = q - 1
    BY <1>1, QueuedFinite, FS_RemoveElement
  <2>2. q # 0
    BY <1>1, QueuedFinite, FS_EmptySet
  <2>3. QED
    BY <1>1, <2>1, <2>2, QueuedFinite
<1>3. /\ now_serving' = Increment(now_serving)
      /\ UNCHANGED <<next_ticket, ticket>>
      /\ pc' = [pc EXCEPT ![t] = "Idle"]
  BY DEF Release, Goto
<1> USE TicketsAssumption DEF Inv, TypeOK, Ticket
<1>4. ticket[t] = now_serving
  BY DEF Release, Goto, TicketInv
<1>5. ASSUME NEW n \in Ticket, n # now_serving
      PROVE  Distance(n)' = Distance(n) - 1
  BY <1>3, <1>5 DEF Distance, Increment
<1>6. \A u \in Queued' : u \in Queued /\ u \in Thread /\ ticket[u] # now_serving
  BY <1>1, <1>4 DEF TicketInv, Queued
<1>7. \A u \in Queued' : Distance(ticket[u])' < q - 1
  <2> SUFFICES ASSUME NEW u \in Queued' PROVE Distance(ticket[u])' < q - 1
    OBVIOUS
  <2>1. ticket[u] \in Ticket /\ ticket'[u] = ticket[u]
    BY <1>3, <1>6
  <2>2. Distance(ticket[u]) < q /\ Distance(ticket[u]) \in Int
    BY <1>6, <2>1 DEF TicketInv, Distance
  <2>3. Distance(ticket[u])' = Distance(ticket[u]) - 1
    BY <1>5, <1>3, <1>6, <2>1 DEF Distance
  <2>4. QED
    BY <1>2, <2>2, <2>3
<1>8. Distance(next_ticket)' = IF q - 1 = Tickets THEN 0 ELSE q - 1
  BY <1>2, <1>3 DEF TicketInv, Distance, Increment
<1>9. \A u, v \in Queued' : ticket'[u] = ticket'[v] => u = v
  BY <1>3, <1>6 DEF TicketInv
<1>10. \A u \in Thread : pc'[u] # "Critical"
  BY <1>3, <1>4 DEF TicketInv, Queued, Release, Goto
<1>11. QED
  BY <1>2, <1>7, <1>8, <1>9, <1>10 DEF TicketInv

\* A step that changes neither the counters nor who is queued.
LEMMA OtherStep ==
  ASSUME Inv, NEW t \in Thread,
         Spin(t) \/ StopSpinning(t) \/ Enter(t) \/ Yield(t) \/ Resume(t)
  PROVE  TicketInv'
<1>1. UNCHANGED <<next_ticket, now_serving, ticket>>
  BY DEF Spin, StopSpinning, Enter, Yield, Resume
<1>2. Queued' = Queued
  BY DEF Spin, StopSpinning, Enter, Yield, Resume, Goto, Queued, Inv, TypeOK
<1>3. \A u \in Thread : pc'[u] = "Critical" => ticket[u] = now_serving
  BY DEF Spin, StopSpinning, Enter, Yield, Resume, Goto, Inv, TypeOK, TicketInv
<1>4. QED
  BY <1>1, <1>2, <1>3 DEF Inv, TicketInv, Distance

\* The window of tickets is an invariant of the lock.
THEOREM TicketInvariant == Spec => [](TypeOK /\ TicketInv)
<1>1. Inv /\ [Next]_vars => Inv'
  <2> SUFFICES ASSUME Inv, [Next]_vars PROVE TicketInv'
    BY TypeStep DEF Inv
  <2>1. CASE Next
    BY <2>1, AcquireStep, ReleaseStep, OtherStep DEF Next, Advance
  <2>2. CASE UNCHANGED vars
    BY <2>2 DEF vars, Inv, TicketInv, Queued, Distance
  <2>3. QED
    BY <2>1, <2>2
<1>2. QED
  BY <1>1, InvInit, PTL DEF Spec, Inv

\* The ticket lock implements the abstract lock.
THEOREM TicketImplements == Spec => Excludes
<1> DEFINE in == {t \in Thread : pc[t] = "Critical"}
<1>1. Init => Abstract!Init
  BY DEF Init, Abstract!Init
<1>2. TypeOK /\ TicketInv /\ [Next]_vars => [Abstract!Next]_in
  <2> SUFFICES ASSUME TypeOK, TicketInv, [Next]_vars PROVE [Abstract!Next]_in
    OBVIOUS
  <2>1. \A t, u \in Thread : pc[t] = "Critical" /\ ticket[u] = now_serving
                               /\ pc[u] # "Idle" => t = u
    BY DEF TicketInv, Queued
  <2> USE DEF TypeOK, Goto
  <2>2. ASSUME NEW t \in Thread, Enter(t) PROVE Abstract!Acquire(t)
    BY <2>1, <2>2 DEF Enter, Abstract!Acquire
  <2>3. ASSUME NEW t \in Thread, Release(t) PROVE Abstract!Release(t)
    <3>1. ticket[t] = now_serving
      BY <2>3 DEF Release, TicketInv
    <3>2. QED
      BY <2>1, <2>3, <3>1 DEF Release, Abstract!Release
  <2>4. ASSUME NEW t \in Thread,
               Acquire(t) \/ Spin(t) \/ StopSpinning(t) \/ Yield(t) \/ Resume(t)
        PROVE  UNCHANGED in
    BY <2>4 DEF Acquire, Spin, StopSpinning, Yield, Resume
  <2>5. CASE UNCHANGED vars
    BY <2>5 DEF vars
  <2>6. QED
    BY <2>2, <2>3, <2>4, <2>5 DEF Next, Advance, Abstract!Next
<1>3. QED
  BY <1>1, <1>2, TicketInvariant, PTL DEF Spec, Excludes, Abstract!Spec
-----------------------------------------------------------------------------
(***************************************************************************)
(* The queue that the tickets stand for: who is served i-th from now.  No  *)
(* ticket of the window is missing, so that everybody has one place in it. *)
(***************************************************************************)
Length == Cardinality(Queued)

Line == [i \in 1 .. Length |-> CHOOSE t \in Queued : Distance(ticket[t]) = i - 1]

FullInv == \A d \in 0 .. Length - 1 : \E t \in Queued : Distance(ticket[t]) = d

LineInv ==
  /\ Length \in Nat
  /\ Line \in Seq(Thread) /\ Len(Line) = Length
  /\ \A i \in 1 .. Length : Line[i] \in Queued /\ Distance(ticket[Line[i]]) = i - 1
  /\ \A u \in Queued : /\ Distance(ticket[u]) \in 0 .. Length - 1
                       /\ Line[Distance(ticket[u]) + 1] = u

\* A distance from now_serving is that of one ticket.
LEMMA DistanceType ==
  ASSUME TypeOK
  PROVE  /\ \A n \in Ticket : Distance(n) \in 0 .. Tickets - 1
         /\ \A m, n \in Ticket : Distance(m) = Distance(n) => m = n
         /\ Distance(now_serving) = 0
BY TicketsAssumption DEF TypeOK, Ticket, Distance

LEMMA LineFacts == Inv /\ FullInv => LineInv
<1> SUFFICES ASSUME Inv, FullInv PROVE LineInv
  OBVIOUS
<1>1. Length \in Nat
  BY QueuedFinite DEF Length
<1>2. \A u \in Queued : u \in Thread /\ ticket[u] \in Ticket
  BY DEF Queued, Inv, TypeOK
<1>3. ASSUME NEW i \in 1 .. Length
      PROVE  Line[i] \in Queued /\ Distance(ticket[Line[i]]) = i - 1
  <2>1. Line[i] = CHOOSE t \in Queued : Distance(ticket[t]) = i - 1
    BY DEF Line
  <2>2. i - 1 \in 0 .. Length - 1
    BY <1>1
  <2>3. \E t \in Queued : Distance(ticket[t]) = i - 1
    BY <2>2 DEF FullInv
  <2>. QED
    BY <2>1, <2>3
<1>4. Line \in Seq(Thread) /\ Len(Line) = Length
  <2>1. Line \in [1 .. Length -> Thread]
    BY <1>2, <1>3 DEF Line
  <2>. QED
    BY <1>1, <2>1
<1>5. ASSUME NEW u \in Queued
      PROVE  /\ Distance(ticket[u]) \in 0 .. Length - 1
             /\ Line[Distance(ticket[u]) + 1] = u
  <2> DEFINE d == Distance(ticket[u])
  <2>1. d \in 0 .. Length - 1
    BY <1>1, <1>2, DistanceType, TicketsAssumption DEF Inv, TicketInv, Length
  <2> HIDE DEF d
  <2>2. d + 1 \in 1 .. Length /\ (d + 1) - 1 = d
    BY <1>1, <2>1
  <2>3. Line[d + 1] \in Queued /\ Distance(ticket[Line[d + 1]]) = Distance(ticket[u])
    BY <1>3, <2>2 DEF d
  <2>4. ticket[Line[d + 1]] = ticket[u]
    BY <1>2, <2>3, DistanceType DEF Inv
  <2>5. Line[d + 1] = u
    BY <2>3, <2>4 DEF Inv, TicketInv
  <2>. QED
    BY <2>1, <2>5 DEF d
<1>. QED
  BY <1>1, <1>3, <1>4, <1>5 DEF LineInv

\* Whoever draws a ticket comes last, and nobody else moves.
LEMMA Arrival ==
  ASSUME Inv, NEW t \in Thread, Acquire(t)
  PROVE  /\ t \notin Queued /\ Queued' = Queued \cup {t}
         /\ Length \in Nat /\ Length' = Length + 1
         /\ Distance(ticket[t])' = Length
         /\ \A u \in Queued : Distance(ticket[u])' = Distance(ticket[u])
<1>1. t \notin Queued /\ Queued' = Queued \cup {t}
  BY DEF Acquire, Goto, Queued, Inv, TypeOK
<1>2. Length \in Nat /\ Length' = Length + 1
  BY <1>1, QueuedFinite, FS_AddElement DEF Length
<1>3. Length' <= Tickets
  <2>1. (Cardinality(Queued) <= Tickets)'
    BY QueuedFinite, PTL
  <2>. QED
    BY <2>1 DEF Length
<1>4. Distance(next_ticket) = Length
  BY <1>2, <1>3, TicketsAssumption DEF Inv, TicketInv, Length
<1>5. now_serving' = now_serving /\ ticket' = [ticket EXCEPT ![t] = next_ticket]
  BY DEF Acquire
<1>6. \A u \in Thread : ticket'[u] = IF u = t THEN next_ticket ELSE ticket[u]
  BY <1>5 DEF Inv, TypeOK
<1>7. \A u \in Thread : Distance(ticket[u])' = Distance(ticket'[u])
  BY <1>5 DEF Distance
<1>. QED
  BY <1>1, <1>2, <1>4, <1>6, <1>7 DEF Queued

\* The first leaves, and everybody else moves up by one.
LEMMA Departure ==
  ASSUME Inv, NEW t \in Thread, Release(t)
  PROVE  /\ t \in Queued /\ Queued' = Queued \ {t} /\ Distance(ticket[t]) = 0
         /\ Length \in Nat \ {0} /\ Length' = Length - 1
         /\ \A u \in Queued' : Distance(ticket[u])' = Distance(ticket[u]) - 1
<1>1. t \in Queued /\ Queued' = Queued \ {t}
  BY DEF Release, Goto, Queued, Inv, TypeOK
<1>2. Length \in Nat \ {0} /\ Length' = Length - 1
  BY <1>1, QueuedFinite, FS_RemoveElement, FS_EmptySet DEF Length
<1>3. ticket[t] = now_serving
  BY DEF Release, Goto, Inv, TicketInv
<1>4. Distance(ticket[t]) = 0
  BY <1>3, DistanceType DEF Inv
<1>5. now_serving' = Increment(now_serving) /\ ticket' = ticket
  BY DEF Release
<1>6. \A n \in Ticket : n # now_serving => Distance(n)' = Distance(n) - 1
  BY <1>5, TicketsAssumption DEF Distance, Increment, Inv, TypeOK, Ticket
<1>7. \A u \in Queued' : ticket[u] \in Ticket /\ ticket[u] # now_serving
  BY <1>1, <1>3 DEF Inv, TypeOK, TicketInv, Queued
<1>8. \A u \in Queued' : Distance(ticket[u])' = Distance(ticket[u]) - 1
  <2> SUFFICES ASSUME NEW u \in Queued'
               PROVE  Distance(ticket[u])' = Distance(ticket[u]) - 1
    OBVIOUS
  <2>. QED
    BY <1>5, <1>6, <1>7 DEF Distance
<1>. QED
  BY <1>1, <1>2, <1>4, <1>8

\* Any other step leaves everybody in place.
LEMMA Standing ==
  ASSUME Inv, NEW t \in Thread,
         Spin(t) \/ StopSpinning(t) \/ Enter(t) \/ Yield(t) \/ Resume(t)
  PROVE  UNCHANGED <<now_serving, ticket, Queued, Length, Line>>
<1>1. UNCHANGED <<now_serving, ticket>>
  BY DEF Spin, StopSpinning, Enter, Yield, Resume
<1>2. Queued' = Queued
  BY DEF Spin, StopSpinning, Enter, Yield, Resume, Goto, Queued, Inv, TypeOK
<1>. QED
  BY <1>1, <1>2 DEF Length, Line, Distance

LEMMA FullStep == Inv /\ FullInv /\ [Next]_vars => FullInv'
<1> SUFFICES ASSUME Inv, FullInv, [Next]_vars PROVE FullInv'
  OBVIOUS
<1>1. ASSUME NEW t \in Thread, Acquire(t) PROVE FullInv'
  <2> SUFFICES ASSUME NEW d \in 0 .. Length' - 1
               PROVE  \E u \in Queued' : Distance(ticket[u])' = d
    BY DEF FullInv
  <2>1. CASE d = Length
    BY <1>1, <2>1, Arrival
  <2>2. CASE d # Length
    <3>1. d \in 0 .. Length - 1
      BY <1>1, <2>2, Arrival
    <3>2. PICK u \in Queued : Distance(ticket[u]) = d
      BY <3>1 DEF FullInv
    <3>. QED
      BY <1>1, <3>2, Arrival
  <2>. QED
    BY <2>1, <2>2
<1>2. ASSUME NEW t \in Thread, Release(t) PROVE FullInv'
  <2> SUFFICES ASSUME NEW d \in 0 .. Length' - 1
               PROVE  \E u \in Queued' : Distance(ticket[u])' = d
    BY DEF FullInv
  <2>1. d + 1 \in 0 .. Length - 1 /\ d + 1 # 0 /\ (d + 1) - 1 = d
    BY <1>2, Departure
  <2>2. PICK u \in Queued : Distance(ticket[u]) = d + 1
    BY <2>1 DEF FullInv
  <2>. QED
    BY <1>2, <2>1, <2>2, Departure
<1>3. ASSUME NEW t \in Thread,
             Spin(t) \/ StopSpinning(t) \/ Enter(t) \/ Yield(t) \/ Resume(t)
      PROVE  FullInv'
  BY <1>3, Standing DEF FullInv, Distance
<1>4. CASE UNCHANGED vars
  BY <1>4 DEF vars, FullInv, Length, Queued, Distance
<1>. QED
  BY <1>1, <1>2, <1>3, <1>4 DEF Next, Advance

\* In terms of the queue, a thread that arrives is appended to it, and the one
\* that leaves is its head.
LEMMA LineSteps ==
  ASSUME Inv, Inv', LineInv, LineInv', NEW t \in Thread
  PROVE  /\ Acquire(t) => Line' = Append(Line, t) /\ \A i \in 1 .. Len(Line) : Line[i] # t
         /\ Release(t) => Line # <<>> /\ Head(Line) = t /\ Line' = Tail(Line)
<1>1. /\ Length \in Nat /\ Length' \in Nat
      /\ Line \in Seq(Thread) /\ Len(Line) = Length
      /\ Line' \in Seq(Thread) /\ Len(Line') = Length'
      /\ \A i \in 1 .. Length : Line[i] \in Queued /\ Distance(ticket[Line[i]]) = i - 1
      /\ \A i \in 1 .. Length' : Line'[i] \in Queued'
      /\ \A u \in Queued : Line[Distance(ticket[u]) + 1] = u
      /\ \A u \in Queued' : Line'[Distance(ticket[u])' + 1] = u
  BY DEF LineInv
<1>2. ASSUME Acquire(t)
      PROVE  Line' = Append(Line, t) /\ \A i \in 1 .. Len(Line) : Line[i] # t
  <2>1. ASSUME NEW i \in 1 .. Length
        PROVE  Line'[i] = Line[i] /\ Line[i] # t
    <3>1. PICK u \in Queued : u = Line[i]
      BY <1>1
    <3>2. u # t /\ u \in Queued' /\ Distance(ticket[u])' = i - 1
      BY <1>1, <1>2, <3>1, Arrival
    <3>3. (i - 1) + 1 = i
      BY <1>1
    <3>. QED
      BY <1>1, <3>1, <3>2, <3>3
  <2>2. Line'[Length + 1] = t
    BY <1>1, <1>2, Arrival
  <2>3. Len(Line') = Len(Line) + 1
    BY <1>1, <1>2, Arrival
  <2>. QED
    BY <1>1, <2>1, <2>2, <2>3
<1>3. ASSUME Release(t)
      PROVE  Line # <<>> /\ Head(Line) = t /\ Line' = Tail(Line)
  <2>1. Line # <<>> /\ Line[1] = t
    BY <1>1, <1>3, Departure
  <2>2. ASSUME NEW i \in 1 .. Length'
        PROVE  Line'[i] = Line[i + 1]
    <3>1. i + 1 \in 1 .. Length /\ i + 1 # 1
      BY <1>1, <1>3, Departure
    <3>2. PICK u \in Queued : u = Line[i + 1]
      BY <1>1, <3>1
    <3>3. Distance(ticket[u]) = i
      BY <1>1, <3>1, <3>2
    <3>4. u # t
      BY <1>3, <3>3, Departure
    <3>5. u \in Queued' /\ Distance(ticket[u])' = i - 1 /\ (i - 1) + 1 = i
      BY <1>1, <1>3, <3>3, <3>4, Departure
    <3>. QED
      BY <1>1, <3>2, <3>5
  <2>3. Len(Line') = Len(Line) - 1
    BY <1>1, <1>3, Departure
  <2>. QED
    BY <1>1, <2>1, <2>2, <2>3
<1>. QED
  BY <1>2, <1>3

\* Threads enter in the order in which they drew their tickets, although the
\* tickets wrap around.
THEOREM TicketIsFifo == Spec => FirstInFirstOut
<1> DEFINE in == {t \in Thread : pc[t] = "Critical"}
           J  == Inv /\ FullInv
<1>1. Init => J /\ Fifo!Init
  <2> SUFFICES ASSUME Init PROVE J /\ Fifo!Init
    OBVIOUS
  <2>1. Queued = {} /\ Length = 0
    BY FS_EmptySet DEF Init, Queued, Length
  <2>2. FullInv
    BY <2>1 DEF FullInv
  <2>3. Line = <<>>
    BY <2>1 DEF Line
  <2>4. in = {}
    BY DEF Init
  <2>. QED
    BY InvInit, <2>2, <2>3, <2>4 DEF Fifo!Init, Line, Length
<1>2. Inv /\ [Next]_vars => Inv'
  <2> SUFFICES ASSUME Inv, [Next]_vars PROVE TicketInv'
    BY TypeStep DEF Inv
  <2>1. CASE Next
    BY <2>1, AcquireStep, ReleaseStep, OtherStep DEF Next, Advance
  <2>2. CASE UNCHANGED vars
    BY <2>2 DEF vars, Inv, TicketInv, Queued, Distance
  <2>. QED
    BY <2>1, <2>2
<1>3. J /\ [Next]_vars => J'
  BY <1>2, FullStep
<1>4. J' => LineInv'
  BY LineFacts, PTL
<1>5. J /\ [Next]_vars => [Fifo!Next]_<<Line, in>>
  <2> SUFFICES ASSUME J, [Next]_vars PROVE [Fifo!Next]_<<Line, in>>
    OBVIOUS
  <2>1. J' /\ LineInv /\ LineInv'
    BY <1>3, <1>4, LineFacts
  <2>2. \A t, u \in Thread : pc[t] = "Critical" /\ ticket[u] = now_serving
                               /\ pc[u] # "Idle" => t = u
    BY DEF Inv, TicketInv, Queued
  <2>3. ASSUME NEW t \in Thread, Acquire(t) PROVE Fifo!Arrive(t)
    <3>1. Line' = Append(Line, t) /\ \A i \in 1 .. Len(Line) : Line[i] # t
      BY <2>1, <2>3, LineSteps
    <3>2. in' = in
      BY <2>3 DEF Acquire, Goto, Inv, TypeOK
    <3>. QED
      BY <3>1, <3>2 DEF Fifo!Arrive, Line, Length
  <2>4. ASSUME NEW t \in Thread, Enter(t) PROVE Fifo!Enter(t)
    <3>1. Line' = Line
      BY <2>4, Standing
    <3>2. in = {} /\ in' = {t}
      BY <2>2, <2>4 DEF Enter, Goto, Inv, TypeOK
    <3>3. Line # <<>> /\ Head(Line) = t
      <4>1. t \in Queued /\ ticket[t] = now_serving
        BY <2>4 DEF Enter, Goto, Queued
      <4>2. Distance(ticket[t]) = 0
        BY <4>1, DistanceType DEF Inv
      <4>3. Line \in Seq(Thread) /\ Len(Line) = Length /\ 0 \in 0 .. Length - 1
        BY <2>1, <4>1, <4>2 DEF LineInv
      <4>4. Line[0 + 1] = t
        BY <2>1, <4>1, <4>2 DEF LineInv
      <4>5. Len(Line) > 0 /\ Line[1] = t
        BY <4>3, <4>4
      <4>. QED
        BY <4>3, <4>5
    <3>. QED
      BY <3>1, <3>2, <3>3 DEF Fifo!Enter, Line, Length
  <2>5. ASSUME NEW t \in Thread, Release(t) PROVE Fifo!Leave(t)
    <3>1. Head(Line) = t /\ Line' = Tail(Line)
      BY <2>1, <2>5, LineSteps
    <3>2. ticket[t] = now_serving
      BY <2>5 DEF Release, Goto, Inv, TicketInv
    <3>3. in = {t} /\ in' = {}
      BY <2>2, <2>5, <3>2 DEF Release, Goto, Inv, TypeOK
    <3>. QED
      BY <3>1, <3>3 DEF Fifo!Leave, Line, Length
  <2>6. ASSUME NEW t \in Thread, Spin(t) \/ StopSpinning(t) \/ Yield(t) \/ Resume(t)
        PROVE  UNCHANGED <<Line, in>>
    <3>1. Line' = Line
      BY <2>6, Standing
    <3>2. in' = in
      BY <2>6 DEF Spin, StopSpinning, Yield, Resume, Goto, Inv, TypeOK
    <3>. QED
      BY <3>1, <3>2
  <2>7. CASE UNCHANGED vars
    BY <2>7 DEF vars, Line, Length, Queued, Distance
  <2>. QED
    BY <2>3, <2>4, <2>5, <2>6, <2>7 DEF Next, Advance, Fifo!Next
<1>. QED
  BY <1>1, <1>3, <1>5, PTL DEF Spec, FirstInFirstOut, Fifo!Spec, Fifo!vars, Line, Length
=============================================================================
