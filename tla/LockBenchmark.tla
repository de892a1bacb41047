--------------------------- MODULE LockBenchmark ---------------------------
(***************************************************************************)
(* run_test of lab2/SpinLockBenchmarks.c: rounds of threads increment one  *)
(* shared number under a lock, which is the abstract lock that the three   *)
(* spin locks implement.  The read and the write of the number are two     *)
(* steps.  Nothing is known of the clock but that it may advance by up to  *)
(* MaxTime during a job.                                                   *)
(***************************************************************************)
EXTENDS Integers, Sums

CONSTANTS
  MaxThreads,      \* MAX_THREADS
  ThreadStep,      \* THREAD_STEP
  NumRuns,         \* num_runs
  NumAcquisitions, \* num_lock_acuisitions
  NumCycles,       \* num_cycles_per_thread
  MaxTime,         \* bound on the measured duration of a job
  MayFail          \* may pthread_create or clock_gettime fail?

ASSUME ThreadsAssumption ==
  /\ MaxThreads \in Nat /\ ThreadStep \in Nat \ {0} /\ ThreadStep < MaxThreads
ASSUME LoopsAssumption ==
  /\ NumRuns \in Nat \ {0} /\ NumAcquisitions \in Nat /\ NumCycles \in Nat
  /\ MaxTime \in Nat /\ MayFail \in BOOLEAN

Index == 0 .. MaxThreads - 1

VARIABLES
  holders,             \* the threads in their critical section
  number_to_increment,
  execution_time,      \* thread_execution_time in arg_array
  main,                \* where the main thread is
  num_threads, run, thread_i,
  verdict,             \* what correctness_test_printout printed last
  max_time,            \* what fairness_test_printout printed last
  pc,                  \* where each job is
  acquisition, cycle,  \* loop counters of the jobs
  loaded,              \* the number as read by number_to_increment += 1
  longest              \* longest duration measured in this run (history)

mainVars == <<main, num_threads, run, thread_i, verdict, max_time>>
jobVars  == <<acquisition, cycle, loaded>>
timeVars == <<execution_time, longest>>
vars == <<holders, number_to_increment, mainVars, jobVars, timeVars, pc>>

Lock == INSTANCE AbstractLock WITH Thread <- Index

TypeOK ==
  /\ holders \subseteq Index
  /\ number_to_increment \in Nat
  /\ execution_time \in [Index -> 0 .. MaxTime]
  /\ main \in {"Reset", "Spawn", "Join", "Printout", "Return", "Exit"}
  /\ num_threads \in 1 .. MaxThreads + ThreadStep
  /\ run \in 0 .. NumRuns
  /\ thread_i \in 0 .. MaxThreads
  /\ verdict \in {"NONE", "CORRECT", "WRONG"}
  /\ max_time \in 0 .. MaxTime
  /\ pc \in [Index -> {"None", "Start", "Loop", "Critical", "Store", "Done"}]
  /\ acquisition \in [Index -> 0 .. NumAcquisitions]
  /\ cycle \in [Index -> 0 .. NumCycles]
  /\ loaded \in [Index -> Nat]
  /\ longest \in 0 .. MaxTime

Init ==
  /\ Lock!Init
  /\ number_to_increment = 0
  /\ execution_time = [i \in Index |-> 0]
  /\ main = "Reset"
  /\ num_threads = ThreadStep /\ run = 0 /\ thread_i = 0
  /\ verdict = "NONE" /\ max_time = 0
  /\ pc = [i \in Index |-> "None"]
  /\ acquisition = [i \in Index |-> 0]
  /\ cycle = [i \in Index |-> 0]
  /\ loaded = [i \in Index |-> 0]
  /\ longest = 0

Larger(a, b) == IF a < b THEN b ELSE a
-----------------------------------------------------------------------------
(***************************************************************************)
(* one_thread_job, thread i                                                *)
(***************************************************************************)
Goto(i, from, to) == pc[i] = from /\ pc' = [pc EXCEPT ![i] = to]

Start(i) ==
  /\ Goto(i, "Start", "Loop")
  /\ acquisition' = [acquisition EXCEPT ![i] = 0]
  /\ UNCHANGED <<holders, number_to_increment, mainVars, cycle, loaded, timeVars>>

\* acquire_lock() returns
Acquire(i) ==
  /\ acquisition[i] < NumAcquisitions
  /\ Goto(i, "Loop", "Critical")
  /\ Lock!Acquire(i)
  /\ cycle' = [cycle EXCEPT ![i] = 0]
  /\ UNCHANGED <<number_to_increment, mainVars, acquisition, loaded, timeVars>>

\* Fault: the number was read before the lock was acquired.
LoadOutside(i) ==
  /\ cycle[i] < NumCycles
  /\ \/ Goto(i, "Critical", "Store") /\ UNCHANGED loaded
     \/ /\ pc[i] = "Loop" /\ loaded' = [loaded EXCEPT ![i] = number_to_increment]
        /\ UNCHANGED pc
  /\ UNCHANGED <<holders, number_to_increment, mainVars, acquisition, cycle,
                 timeVars>>

\* number_to_increment += 1 reads the number ...
Load(i) ==
  /\ cycle[i] < NumCycles
  /\ Goto(i, "Critical", "Store")
  /\ loaded' = [loaded EXCEPT ![i] = number_to_increment]
  /\ UNCHANGED <<holders, number_to_increment, mainVars, acquisition, cycle,
                 timeVars>>

\* ... and writes it.
Store(i) ==
  /\ Goto(i, "Store", "Critical")
  /\ number_to_increment' = loaded[i] + 1
  /\ cycle' = [cycle EXCEPT ![i] = @ + 1]
  /\ UNCHANGED <<holders, mainVars, acquisition, loaded, timeVars>>

\* Fault: the last critical section of a job is not left.
ReleaseButLast(i) ==
  /\ cycle[i] = NumCycles
  /\ Goto(i, "Critical", "Loop")
  /\ acquisition[i] + 1 < NumAcquisitions => Lock!Release(i)
  /\ acquisition[i] + 1 = NumAcquisitions => UNCHANGED holders
  /\ acquisition' = [acquisition EXCEPT ![i] = @ + 1]
  /\ UNCHANGED <<number_to_increment, mainVars, cycle, loaded, timeVars>>

Release(i) ==
  /\ cycle[i] = NumCycles
  /\ Goto(i, "Critical", "Loop")
  /\ Lock!Release(i)
  /\ acquisition' = [acquisition EXCEPT ![i] = @ + 1]
  /\ UNCHANGED <<number_to_increment, mainVars, cycle, loaded, timeVars>>

\* The second clock_gettime: d is the time since the first.
Finish(i) ==
  /\ acquisition[i] = NumAcquisitions
  /\ Goto(i, "Loop", "Done")
  /\ \E d \in 0 .. MaxTime :
       /\ execution_time' = [execution_time EXCEPT ![i] = Larger(@, d)]
       /\ longest' = Larger(longest, d)
  /\ UNCHANGED <<holders, number_to_increment, mainVars, jobVars>>
-----------------------------------------------------------------------------
(***************************************************************************)
(* run_test                                                                *)
(***************************************************************************)
\* The head of the loop over the runs.
Reset ==
  /\ main = "Reset" /\ main' = "Spawn"
  /\ number_to_increment' = 0
  /\ thread_i' = 0
  /\ longest' = 0
  /\ UNCHANGED <<holders, num_threads, run, verdict, max_time, jobVars,
                 execution_time, pc>>

\* Fault: a run starts with the times of the run before.
SpawnKeepTime ==
  /\ main = "Spawn" /\ thread_i < num_threads
  /\ pc' = [pc EXCEPT ![thread_i] = "Start"]
  /\ thread_i' = thread_i + 1
  /\ UNCHANGED <<holders, number_to_increment, main, num_threads, run, verdict,
                 max_time, jobVars, timeVars>>

Spawn ==
  /\ main = "Spawn" /\ thread_i < num_threads
  /\ execution_time' = [execution_time EXCEPT ![thread_i] = 0]
  /\ pc' = [pc EXCEPT ![thread_i] = "Start"]
  /\ thread_i' = thread_i + 1
  /\ UNCHANGED <<holders, number_to_increment, main, num_threads, run, verdict,
                 max_time, jobVars, longest>>

AllSpawned ==
  /\ main = "Spawn" /\ thread_i = num_threads
  /\ main' = "Join"
  /\ thread_i' = 0
  /\ UNCHANGED <<holders, number_to_increment, num_threads, run, verdict,
                 max_time, jobVars, timeVars, pc>>

\* Fault: pthread_join does not wait.
JoinAtOnce ==
  /\ main = "Join" /\ thread_i < num_threads
  /\ thread_i' = thread_i + 1
  /\ UNCHANGED <<holders, number_to_increment, main, num_threads, run, verdict,
                 max_time, jobVars, timeVars, pc>>

Join ==
  /\ main = "Join" /\ thread_i < num_threads
  /\ pc[thread_i] = "Done"
  /\ pc' = [pc EXCEPT ![thread_i] = "None"]
  /\ thread_i' = thread_i + 1
  /\ UNCHANGED <<holders, number_to_increment, main, num_threads, run, verdict,
                 max_time, jobVars, timeVars>>

AllJoined ==
  /\ main = "Join" /\ thread_i = num_threads
  /\ run' = run + 1
  /\ main' = IF run + 1 < NumRuns THEN "Reset" ELSE "Printout"
  /\ UNCHANGED <<holders, number_to_increment, num_threads, thread_i, verdict,
                 max_time, jobVars, timeVars, pc>>

\* m is the largest time of the threads of the round.
Maximum(m) ==
  LET times == {execution_time[i] : i \in 0 .. num_threads - 1}
  IN  m \in times \cup {0} /\ \A d \in times : d <= m

\* printout_results, then the next number of threads
Printout ==
  /\ main = "Printout"
  /\ verdict' = IF number_to_increment = num_threads * NumAcquisitions * NumCycles
                THEN "CORRECT" ELSE "WRONG"
  /\ \E m \in 0 .. MaxTime : Maximum(m) /\ max_time' = m
  /\ num_threads' = num_threads + ThreadStep
  /\ run' = 0
  /\ main' = IF num_threads' < MaxThreads THEN "Reset" ELSE "Return"
  /\ UNCHANGED <<holders, number_to_increment, thread_i, jobVars, timeVars, pc>>

\* pthread_create or clock_gettime failed: exit() ends the process.
Fail ==
  /\ MayFail
  /\ \/ main = "Spawn" /\ thread_i < num_threads
     \/ \E i \in Index : \/ pc[i] = "Start"
                         \/ pc[i] = "Loop" /\ acquisition[i] = NumAcquisitions
  /\ main' = "Exit"
  /\ UNCHANGED <<holders, number_to_increment, num_threads, run, thread_i,
                 verdict, max_time, jobVars, timeVars, pc>>
-----------------------------------------------------------------------------
Running == main \notin {"Return", "Exit"}

Main == Running /\ (Reset \/ Spawn \/ AllSpawned \/ Join \/ AllJoined \/ Printout)

\* A step of a job that does not wait for the lock.
Work(i) == Running /\ (Start(i) \/ Load(i) \/ Store(i) \/ Release(i) \/ Finish(i))

Enter(i) == Running /\ Acquire(i)

Next == Main \/ (Running /\ Fail) \/ \E i \in Index : Work(i) \/ Enter(i)

Spec == Init /\ [][Next]_vars

\* Every thread is scheduled.  Of the lock only what all three spin locks give
\* is assumed: when it is free and threads want it, one of them gets it.
FairSpec ==
  /\ Spec
  /\ WF_vars(Main)
  /\ \A i \in Index : WF_vars(Work(i))
  /\ WF_vars(\E i \in Index : Enter(i))
-----------------------------------------------------------------------------
\* "Test shows, whether the resulting sum is equal to the theoretical value
\* P*N" (SpinLockBenchmarks.h:6-7): with a lock that excludes it always is,
\* although the increment is not atomic and the runs share the number.
NeverWrong == verdict # "WRONG"

\* A write adds one to the number that is there, or starts a run: what a job
\* has read is still current when it writes (SpinLockBenchmarks.c:81).
NoLostUpdate ==
  [][number_to_increment' = IF main = "Reset" THEN 0
                            ELSE number_to_increment + 1]_number_to_increment

Busy == {i \in Index : pc[i] \in {"Critical", "Store"}}

\* The increments of this run made by thread i: none before its job starts, all
\* of them when it is joined.
Share(i) ==
  CASE pc[i] = "None"  -> IF main = "Spawn" THEN 0 ELSE NumAcquisitions * NumCycles
    [] pc[i] = "Start" -> 0
    [] OTHER -> acquisition[i] * NumCycles + (IF i \in Busy THEN cycle[i] ELSE 0)

Spawned == 0 .. num_threads - 1

\* The threads of this run whose jobs have ended.
Ended == {i \in Spawned : pc[i] = "Done" \/ (pc[i] = "None" /\ main # "Spawn")}

\* The number is the sum of what the jobs have added to it.
CountOK == number_to_increment = Total([i \in Spawned |-> Share(i)], num_threads)

\* longest is the longest time in the array, where running jobs have none.
TimesOK ==
  /\ \A i \in Ended : execution_time[i] <= longest
  /\ longest = 0 \/ \E i \in Ended : execution_time[i] = longest
  /\ \A i \in Index : pc[i] \notin {"None", "Done"} => execution_time[i] = 0

\* The jobs in their critical section are the holders of the lock, so at most
\* one; and no job of a run is left when its threads are joined.
PhasesOK ==
  /\ holders = Busy
  /\ \A i, j \in Busy : i = j
  /\ \A i \in Index : pc[i] = "Store" => loaded[i] = number_to_increment
  /\ \A i \in Index : pc[i] = "Store" => cycle[i] < NumCycles
  /\ \A i \in Busy : acquisition[i] < NumAcquisitions
  /\ \A i \in Index : pc[i] = "Done" => acquisition[i] = NumAcquisitions
  /\ main \in {"Reset", "Spawn", "Join"} => run < NumRuns
  /\ main \notin {"Return", "Exit"} => num_threads < MaxThreads
  /\ main \in {"Spawn", "Join"} => thread_i <= num_threads
  /\ main \in {"Reset", "Printout"} => \A i \in Index : pc[i] = "None"
  /\ main = "Spawn" => \A i \in Index : thread_i <= i <=> pc[i] = "None"
  /\ main = "Join" => \A i \in Index : i < thread_i \/ num_threads <= i
                                           <=> pc[i] = "None"

\* The invariant behind these: the main thread resets the number behind nobody's
\* back, and the number and the times are those of the jobs of this run.
JobsInv ==
  /\ PhasesOK
  /\ main \in {"Spawn", "Join", "Printout"} => CountOK /\ TimesOK
  /\ NeverWrong

\* Every job is joined and every table row printed, whichever thread a lock
\* without a queue prefers, unless the process exits: the jobs are finite.
Terminates == <>(main \in {"Return", "Exit"})

\* What fairness_test_printout prints (SpinLockBenchmarks.c:240-248) is the
\* longest job of the last run, of this number of threads: no time of an earlier
\* run, and of an earlier round with fewer threads, is left in the array.
ReportsLastRun ==
  [][main = "Printout" /\ main' # "Exit" => max_time' = longest]_vars
=============================================================================
