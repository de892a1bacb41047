------------------------- MODULE SkipListBenchmark --------------------------
(***************************************************************************)
(* run_test of lab4/SkipListBenchmarks.c on the skip list of the module    *)
(* SkipList: rounds of threads, each of which makes the calls of its job.  *)
(* The durations that the performance tests measure are left out.          *)
(***************************************************************************)
EXTENDS SkipList, Sequences

CONSTANTS
  MaxThreads, \* MAX_THREADS
  Tests,      \* the tests run_test is called for
  Elements,   \* CORRECTNESS_NUM_ELEMENTS, ..., INSERTS and DELETS
  Reads,      \* READS
  Cycles,     \* HALF_TO_HALF_TEST
  Batch       \* the 50 insertions of a cycle of the aggressive job

Index == 0 .. MaxThreads - 1
Main  == MaxThreads           \* the main thread inserts too

\* The call o for key k of a job: it inserts the key as the value.
JobCall(o, k) == [op |-> o, key |-> k, val |-> IF o = "insert" THEN k ELSE Absent]

\* No job goes beyond these keys.
Keys == 0 .. MaxThreads * (Elements + Reads + Cycles * Cycles + MaxThreads) + Batch

ASSUME TestsAssumption ==
  Tests \subseteq {"correctness", "insert", "remove", "search", "mixed", "aggressive"}
ASSUME CountsAssumption ==
  /\ MaxThreads \in Nat \ {0} /\ Elements \in Nat /\ Reads \in Nat /\ Cycles \in Nat
  /\ Batch \in Nat \ {0}
ASSUME ThreadsAssumption == Thread = Index \cup {Main}
ASSUME JobsAssumption == \A t \in Thread, o \in {"insert", "remove", "search"}, k \in Keys :
                           JobCall(o, k) \in Calls[t]

VARIABLES
  test,               \* the test that run_test runs
  main,               \* where the main thread is
  skiplist,           \* what common_args.skiplist points to
  num_threads, thread_i,
  todo,               \* the calls each thread has left to make
  executed_correctly, \* in thread_args
  verdict,            \* what correctness_test_printout printed last
  missing             \* keys whose insertion failed in this round (history)

list    == vars  \* of the skip list
jobs    == <<todo, executed_correctly, missing>>
runVars == <<list, test, main, skiplist, num_threads, thread_i, jobs, verdict>>
-----------------------------------------------------------------------------
(***************************************************************************)
(* The jobs: sequences of calls, and what the correctness job expects of   *)
(* its searches.                                                           *)
(***************************************************************************)
\* INSERT_ELEMENTS, SEARCH_ELEMENTS and REMOVE_ELEMENTS(n, step, shift)
Loop(o, expect, n, step, shift) ==
  [j \in 1 .. n |-> [op |-> o, key |-> step * (j - 1) + shift, expect |-> expect]]

Own(i, o, expect) == Loop(o, expect, Elements, num_threads, i)

\* Fault: the job removes before it searches.
correctness_too_early(i) ==
  Own(i, "insert", "any") \o Own(i, "remove", "any") \o Own(i, "search", "found")
    \o Own(i, "search", "absent")

correctness_thread_job(i) ==
  Own(i, "insert", "any") \o Own(i, "search", "found") \o Own(i, "remove", "any")
    \o Own(i, "search", "absent")

mixed_performance_thread_job(i) ==
  Own(i, "insert", "any") \o Loop("search", "any", Reads, num_threads, i)
    \o Own(i, "remove", "any")

\* The keys of neighbouring threads overlap if there are fewer than Batch.
aggressive_performance_thread_job(i) ==
  LET First(cycle, n) == num_threads * (Cycles * cycle + n)
      Cycle(cycle) == Loop("insert", "any", Batch, 1, First(cycle, i))
                        \o Loop("search", "any", Batch - 1, 1, First(cycle, i + 1))
                        \o Loop("remove", "any", 1, 1, First(cycle, i))
      calls == 2 * Batch  \* in a cycle
  IN  [j \in 1 .. Cycles * calls |-> Cycle((j - 1) \div calls)[((j - 1) % calls) + 1]]

Job(i) == CASE test = "correctness" -> correctness_thread_job(i)
            [] test = "mixed"       -> mixed_performance_thread_job(i)
            [] test = "aggressive"  -> aggressive_performance_thread_job(i)
            [] OTHER                -> Own(i, test, "any")

\* num_to_push: only the tests of removals and searches start with a full list.
NumToPush == IF test \in {"remove", "search"} THEN Elements ELSE 0
-----------------------------------------------------------------------------
RunInit ==
  /\ Init
  /\ test \in Tests
  /\ main = "Init" /\ skiplist = "none"
  /\ num_threads = 1 /\ thread_i = 0
  /\ todo = [t \in Thread |-> <<>>]
  /\ executed_correctly = [i \in Index |-> FALSE]
  /\ missing = {}
  /\ verdict = "NONE"

\* The call at the head of the thread's list has returned out.
Report(t, out) ==
  LET c == Head(todo[t])
      wrong == \/ c.expect = "found" /\ out # c.key
               \/ c.expect = "absent" /\ out # Absent
  IN  /\ todo' = [todo EXCEPT ![t] = Tail(@)]
      /\ executed_correctly' = IF wrong THEN [executed_correctly EXCEPT ![t] = FALSE]
                                        ELSE executed_correctly
      /\ missing' = IF c.op = "insert" /\ out = Failure THEN missing \cup {c.key}
                                                        ELSE missing

StartCall(t) ==
  /\ skiplist = "ready" /\ todo[t] # <<>>
  /\ LET c == Head(todo[t]) IN BeginCall(t, JobCall(c.op, c.key))
  /\ UNCHANGED <<test, main, skiplist, num_threads, thread_i, jobs, verdict>>

StepCall(t) ==
  /\ Work(t)
  /\ UNCHANGED <<test, main, skiplist, num_threads, thread_i, jobs, verdict>>

EndCall(t) ==
  /\ Return(t)
  /\ Report(t, th[t].out)
  /\ UNCHANGED <<test, main, skiplist, num_threads, thread_i, verdict>>

\* Every function of the list returns -1 for a NULL list.
CallOnNull(t) ==
  /\ skiplist = "NULL" /\ todo[t] # <<>>
  /\ Report(t, IF Head(todo[t]).op = "search" THEN Absent ELSE Failure)
  /\ UNCHANGED <<list, test, main, skiplist, num_threads, thread_i, verdict>>

ThreadStep(t) == StartCall(t) \/ StepCall(t) \/ EndCall(t) \/ CallOnNull(t)

Finished(t) == todo[t] = <<>> /\ th[t].pc = "Idle"
-----------------------------------------------------------------------------
(***************************************************************************)
(* run_test                                                                *)
(***************************************************************************)
\* The arguments and skiplist_init, whose memory may be missing.  A list whose
\* skiplist_init fails after it has set the pointer is used uninitialised, for
\* its result is ignored: what happens next is anybody's guess.
Prepare ==
  /\ main = "Init"
  /\ NewList(forward', key', value', level', allocated', max_level', retired', th')
  /\ executed_correctly' =
       [i \in Index |-> i < num_threads \/ executed_correctly[i]]
  /\ missing' = {}
  /\ todo' = [todo EXCEPT ![Main] = Loop("insert", "any", NumToPush * num_threads, 1, 0)]
  /\ \/ skiplist' = "ready" /\ main' = "Prefill"
     \/ MayFail /\ skiplist' = "NULL" /\ main' = "Prefill"
     \/ MayFail /\ skiplist' = "halfway" /\ main' = "Crash"
  /\ UNCHANGED <<test, num_threads, thread_i, verdict>>

Prefilled ==
  /\ main = "Prefill" /\ Finished(Main)
  /\ main' = "Spawn" /\ thread_i' = 0
  /\ UNCHANGED <<list, test, skiplist, num_threads, jobs, verdict>>

Spawn ==
  /\ main = "Spawn" /\ thread_i < num_threads
  /\ todo' = [todo EXCEPT ![thread_i] = Job(thread_i)]
  /\ thread_i' = thread_i + 1
  /\ UNCHANGED <<list, test, main, skiplist, num_threads, executed_correctly, missing,
                 verdict>>

AllSpawned ==
  /\ main = "Spawn" /\ thread_i = num_threads
  /\ main' = "Join" /\ thread_i' = 0
  /\ UNCHANGED <<list, test, skiplist, num_threads, jobs, verdict>>

\* Fault: pthread_join does not wait.
JoinAtOnce ==
  /\ main = "Join" /\ thread_i < num_threads
  /\ thread_i' = thread_i + 1
  /\ UNCHANGED <<list, test, main, skiplist, num_threads, jobs, verdict>>

Join ==
  /\ main = "Join" /\ thread_i < num_threads /\ Finished(thread_i)
  /\ thread_i' = thread_i + 1
  /\ UNCHANGED <<list, test, main, skiplist, num_threads, jobs, verdict>>

\* correctness_test_printout; performance_test_printout prints durations only.
Printout ==
  /\ main = "Join" /\ thread_i = num_threads
  /\ main' = "Free"
  /\ verdict' = IF test # "correctness" THEN verdict
                ELSE IF \A i \in 0 .. num_threads - 1 : executed_correctly[i]
                     THEN "PASSED" ELSE "FAILED"
  /\ UNCHANGED <<list, test, skiplist, num_threads, thread_i, jobs>>

\* skiplist_free, and the next round
Free ==
  /\ main = "Free"
  /\ skiplist' = "none"
  /\ num_threads' = num_threads + 1
  /\ main' = IF num_threads' <= MaxThreads THEN "Init" ELSE "Return"
  /\ UNCHANGED <<list, test, thread_i, jobs, verdict>>

\* A thread reads the clock at the start and at the end of its job.
ReadsClock(i) == th[i].pc = "Idle" /\ todo[i] \in {Job(i), <<>>}

\* calloc, pthread_create or clock_gettime failed: exit() ends the process.
Fail ==
  /\ MayFail
  /\ \/ main = "Init" /\ num_threads = 1
     \/ main = "Spawn" /\ thread_i < num_threads
     \/ main = "Spawn" /\ \E i \in 0 .. thread_i - 1 : ReadsClock(i)
     \/ main = "Join" /\ \E i \in thread_i .. num_threads - 1 : ReadsClock(i)
  /\ main' = "Exit"
  /\ UNCHANGED <<list, test, skiplist, num_threads, thread_i, jobs, verdict>>

Round == Prepare \/ Prefilled \/ Spawn \/ AllSpawned \/ Join \/ Printout \/ Free

Running == main \notin {"Exit", "Crash"}

RunNext == Running /\ (Round \/ Fail \/ \E t \in Thread : ThreadStep(t))

RunSpec == RunInit /\ [][RunNext]_runVars

\* The operating system runs every thread.
FairSpec == /\ RunSpec
            /\ WF_runVars(Running /\ Round)
            /\ \A t \in Thread : WF_runVars(Running /\ ThreadStep(t))
-----------------------------------------------------------------------------
\* skiplist_free frees the towers linked on the bottom level and those in the
\* reclaim lists ("Free all non-removed towers", "Free all removed towers",
\* SkipList.c:124, 136): that is every tower, once.
FreesEachTowerOnce ==
  main = "Free" /\ skiplist = "ready" =>
    /\ Chain(0) \cap retired = {}
    /\ Chain(0) \cup retired = 1 .. allocated

\* What the jobs leave in the list, whatever the order of their calls: all that
\* was inserted, or nothing.
FinalContents ==
  main = "Free" /\ skiplist = "ready" /\ test # "aggressive" =>
    {key[n] : n \in {m \in Chain(0) : ~forward[m][0].marked}} =
      IF test \in {"insert", "search"} THEN 0 .. Elements * num_threads - 1 \ missing
                                       ELSE {}

\* The test passes just if every insertion of the round succeeded.
VerdictRight ==
  [][main = "Join" /\ main' = "Free" /\ test = "correctness" =>
       (verdict' = "PASSED" <=> missing = {})]_runVars

\* The searches that start over are let through: every test ends.
Terminates == <>(main \in {"Return", "Exit", "Crash"})
=============================================================================
