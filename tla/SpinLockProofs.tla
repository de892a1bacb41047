--------------------------- MODULE SpinLockProofs ---------------------------
(***************************************************************************)
(* The test-and-set lock and the test-and-test-and-set lock exclude, and   *)
(* sleep no longer than they should, for any number of threads.  LockInv   *)
(* is inductive, and makes every step one of AbstractLock or a stuttering  *)
(* step of it: a thread that saw the byte clear still has to win it.       *)
(***************************************************************************)
EXTENDS SpinLocks, TLAPS

\* The sleeps are the minimum and its doublings up to the maximum.
Sleeps == {n * MinBackoff : n \in Doublings} \cap 0 .. MaxBackoff

SleepsInv == \A t \in Thread : backoff_sleep[t] \in Sleeps

\* A thread that sleeps for the test-and-set lock is in its last cycle.
Inv == /\ TypeOK /\ LockInv /\ SleepsInv
       /\ lock \in {"TAS", "TTAS"}
       /\ lock = "TAS" => TAS!SleepInv

\* A sleep below the maximum can be doubled without passing the maximum.
LEMMA Doubling ==
  /\ Sleeps \subseteq Nat /\ MinBackoff \in Sleeps
  /\ \A b \in Sleeps : b < MaxBackoff => 2 * b \in Sleeps
<1>1. MinBackoff \in Sleeps /\ Sleeps \subseteq Nat
  BY BackoffAssumption DEF Sleeps, Doublings
<1>2. ASSUME NEW b \in Sleeps, b < MaxBackoff PROVE 2 * b \in Sleeps
  <2>1. PICK m \in Doublings : b = m * MinBackoff
    BY DEF Sleeps
  <2>2. PICK n \in Doublings : MaxBackoff = n * MinBackoff
    BY BackoffAssumption
  <2>3. 2 * m \in Doublings /\ 2 * (m * MinBackoff) <= n * MinBackoff
    BY <1>2, <2>1, <2>2, BackoffAssumption DEF Doublings
  <2>4. 2 * b = (2 * m) * MinBackoff /\ 2 * b \in 0 .. MaxBackoff
    BY <2>1, <2>2, <2>3, BackoffAssumption DEF Doublings
  <2>. QED
    BY <2>3, <2>4 DEF Sleeps
<1>. QED
  BY <1>1, <1>2

\* The invariant holds at first.
LEMMA InvInit == EitherInit => Inv
  BY Doubling, CyclesAssumption, BackoffAssumption
  DEF EitherInit, Init, Inv, TypeOK, LockInv, SleepsInv, TAS!SleepInv

\* Every step keeps the types, and of the test-and-set lock the last cycle.
LEMMA TypeStep ==
  ASSUME Inv, UNCHANGED lock, NEW t \in Thread, Acquire(t) \/ Advance(t)
  PROVE  TypeOK' /\ (lock = "TAS" => TAS!SleepInv)'
<1> USE CyclesAssumption, BackoffAssumption DEF Inv, TypeOK, Waiting, Goto
<1>1. CASE lock = "TAS"
  <2> USE DEF TAS!SleepInv, TAS!Goto
  <2>1. CASE TAS!Acquire(t)
    BY <1>1, <2>1 DEF TAS!Acquire, TAS!Call
  <2>2. CASE TAS!Take(t)
    BY <1>1, <2>2 DEF TAS!Take
  <2>3. CASE TAS!Spin(t)
    BY <1>1, <2>3 DEF TAS!Spin
  <2>4. CASE TAS!BackOff(t)
    BY <1>1, <2>4 DEF TAS!BackOff, TAS!Double
  <2>5. CASE TAS!Wake(t)
    BY <1>1, <2>5 DEF TAS!Wake
  <2>6. CASE TAS!Release(t)
    BY <1>1, <2>6 DEF TAS!Release
  <2>. QED
    BY <1>1, <2>1, <2>2, <2>3, <2>4, <2>5, <2>6 DEF Acquire, Advance, TAS!Advance
<1>2. CASE lock = "TTAS"
  <2> USE DEF TTAS!Goto
  <2>1. CASE TTAS!Acquire(t)
    BY <1>2, <2>1 DEF TTAS!Acquire, TTAS!Call
  <2>2. CASE TTAS!Spin(t)
    BY <1>2, <2>2 DEF TTAS!Spin
  <2>3. CASE TTAS!BackOff(t)
    BY <1>2, <2>3 DEF TTAS!BackOff, TTAS!Double
  <2>4. CASE TTAS!StopSpinning(t) \/ TTAS!Wake(t) \/ TTAS!SeeFree(t) \/ TTAS!Miss(t)
    BY <1>2, <2>4 DEF TTAS!StopSpinning, TTAS!Wake, TTAS!SeeFree, TTAS!Miss
  <2>5. CASE TTAS!Take(t)
    BY <1>2, <2>5 DEF TTAS!Take
  <2>6. CASE TTAS!Release(t)
    BY <1>2, <2>6 DEF TTAS!Release
  <2>. QED
    BY <1>2, <2>1, <2>2, <2>3, <2>4, <2>5, <2>6 DEF Acquire, Advance, TTAS!Advance
<1>. QED
  BY <1>1, <1>2

\* What a step does to the byte, the critical sections and the sleeps.
Takes(t) ==
  /\ lock_taken = 0 /\ lock_taken' = 1
  /\ pc[t] # "Critical" /\ pc' = [pc EXCEPT ![t] = "Critical"]

Leaves(t) ==
  /\ lock_taken' = 0
  /\ pc[t] = "Critical" /\ pc' = [pc EXCEPT ![t] = "Idle"]

Waits(t) ==
  /\ UNCHANGED lock_taken
  /\ \A u \in Thread : pc'[u] = "Critical" <=> pc[u] = "Critical"

Adjusts(t) ==
  \/ UNCHANGED backoff_sleep
  \/ backoff_sleep' = [backoff_sleep EXCEPT ![t] = MinBackoff]
  \/ Double(t)

\* Every step takes the lock, releases it, or does neither.
LEMMA Steps ==
  ASSUME TypeOK, lock \in {"TAS", "TTAS"}, NEW t \in Thread, Acquire(t) \/ Advance(t)
  PROVE  (Takes(t) \/ Leaves(t) \/ Waits(t)) /\ Adjusts(t)
<1> USE DEF TypeOK, Adjusts
<1>1. CASE TAS!Take(t)
  BY <1>1 DEF TAS!Take, TAS!Goto, Takes
<1>2. CASE TTAS!Take(t)
  BY <1>2 DEF TTAS!Take, TTAS!Goto, Takes
<1>3. CASE TAS!Release(t) \/ TTAS!Release(t)
  BY <1>3 DEF TAS!Release, TAS!Goto, TTAS!Release, TTAS!Goto, Leaves
<1>4. CASE TAS!Acquire(t) \/ TAS!Spin(t) \/ TAS!BackOff(t) \/ TAS!Wake(t)
  BY <1>4 DEF TAS!Acquire, TAS!Call, TAS!Spin, TAS!BackOff, TAS!Wake, TAS!Double,
              TAS!Goto, Waits, Double
<1>5. CASE TTAS!Acquire(t) \/ TTAS!Spin(t) \/ TTAS!StopSpinning(t) \/ TTAS!BackOff(t)
  BY <1>5 DEF TTAS!Acquire, TTAS!Call, TTAS!Spin, TTAS!StopSpinning, TTAS!BackOff,
              TTAS!Double, TTAS!Goto, Waits, Double
<1>6. CASE TTAS!Wake(t) \/ TTAS!SeeFree(t) \/ TTAS!Miss(t)
  BY <1>6 DEF TTAS!Wake, TTAS!SeeFree, TTAS!Miss, TTAS!Goto, Waits
<1>. QED
  BY <1>1, <1>2, <1>3, <1>4, <1>5, <1>6
  DEF Acquire, Advance, TAS!Advance, TTAS!Advance

LEMMA InvStep == Inv /\ [Next]_<<vars, lock>> => Inv'
<1> SUFFICES ASSUME Inv, [Next]_<<vars, lock>> PROVE Inv'
  OBVIOUS
<1>1. ASSUME UNCHANGED lock, NEW t \in Thread, Acquire(t) \/ Advance(t) PROVE Inv'
  <2>1. TypeOK' /\ (lock = "TAS" => TAS!SleepInv)'
    BY <1>1, TypeStep
  <2>2. (Takes(t) \/ Leaves(t) \/ Waits(t)) /\ Adjusts(t)
    BY <1>1, Steps DEF Inv
  <2>3. LockInv'
    BY <2>2 DEF Inv, TypeOK, LockInv, Takes, Leaves, Waits
  <2>4. SleepsInv'
    <3>1. CASE Double(t)
      BY <3>1, Doubling DEF Inv, TypeOK, SleepsInv, Double, Sleeps
    <3>. QED
      BY <2>2, <3>1, Doubling DEF Inv, TypeOK, SleepsInv, Adjusts
  <2>. QED
    BY <1>1, <2>1, <2>3, <2>4 DEF Inv
<1>2. CASE UNCHANGED <<vars, lock>>
  BY <1>2 DEF vars, Inv, TypeOK, LockInv, SleepsInv, TAS!SleepInv
<1>. QED
  BY <1>1, <1>2 DEF Next

LEMMA Invariant == Spec => []Inv
BY InvInit, InvStep, PTL DEF Spec
-----------------------------------------------------------------------------
\* The variables of both locks keep their types, for any number of threads.
THEOREM TypeCorrect == Spec => []TypeOK
<1>1. Inv => TypeOK
  BY DEF Inv
<1>. QED
  BY <1>1, Invariant, PTL

\* The byte agrees with the critical sections, and they exclude each other.
THEOREM LockInvariant == Spec => []LockInv
<1>1. Inv => LockInv
  BY DEF Inv
<1>. QED
  BY <1>1, Invariant, PTL

\* No sleep is longer than the maximum, although the limit is tested before the
\* doubling only (SpinLocks.c:47, 113): the maximum is one of the doublings.
THEOREM BackoffCorrect == Spec => []BackoffBounded
<1>1. Inv => BackoffBounded
  <2>1. MaxBackoff \in Nat
    BY BackoffAssumption DEF Doublings
  <2>2. \A b \in Sleeps : b \in 0 .. MaxBackoff
    BY DEF Sleeps
  <2>3. ASSUME Inv, NEW t \in Thread PROVE backoff_sleep[t] <= MaxBackoff
    <3>1. backoff_sleep[t] \in 0 .. MaxBackoff
      BY <2>2, <2>3 DEF Inv, SleepsInv
    <3>. QED
      BY <2>1, <3>1
  <2>. QED
    BY <2>3 DEF BackoffBounded
<1>. QED
  BY <1>1, Invariant, PTL

\* Both locks implement the abstract lock.
THEOREM LocksExclude == Spec => Excludes
<1> DEFINE in == {t \in Thread : pc[t] = "Critical"}
<1>1. EitherInit => Abstract!Init
  BY DEF EitherInit, Init, Abstract!Init
<1>2. Inv /\ [Next]_<<vars, lock>> => [Abstract!Next]_in
  <2> SUFFICES ASSUME Inv, [Next]_<<vars, lock>> PROVE [Abstract!Next]_in
    OBVIOUS
  <2> USE DEF Inv, TypeOK, LockInv
  <2>1. ASSUME NEW t \in Thread, Acquire(t) \/ Advance(t)
        PROVE  Abstract!Next \/ UNCHANGED in
    <3>1. CASE Takes(t)
      BY <3>1 DEF Takes, Abstract!Acquire, Abstract!Next
    <3>2. CASE Leaves(t)
      BY <3>2 DEF Leaves, Abstract!Release, Abstract!Next
    <3>3. CASE Waits(t)
      BY <3>3 DEF Waits
    <3>. QED
      BY <2>1, <3>1, <3>2, <3>3, Steps
  <2>2. CASE UNCHANGED <<vars, lock>>
    BY <2>2 DEF vars
  <2>. QED
    BY <2>1, <2>2 DEF Next
<1>. QED
  BY <1>1, <1>2, Invariant, PTL DEF Spec, Excludes, Abstract!Spec
=============================================================================
