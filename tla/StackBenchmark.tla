--------------------------- MODULE StackBenchmark ---------------------------
(***************************************************************************)
(* run_test of lab3/StackBenchmark.c: rounds of threads push and pop on a  *)
(* stack of their own round.  The stack is the abstract one, which the     *)
(* module Stack implements; a push may fail for want of memory.            *)
(***************************************************************************)
EXTENDS Integers, Sequences, Sums

CONSTANTS
  MaxThreads,  \* MAX_THREADS
  ThreadStep,  \* the step 4 of the loop over num_threads, and its start
  Tests,       \* the tests run_test is called for
  MaxTime,     \* bound on the measured duration of a job
  MayFail,     \* may malloc, pthread_create and clock_gettime fail?
  Nothing, Empty

ASSUME ThreadsAssumption ==
  /\ MaxThreads \in Nat /\ ThreadStep \in Nat \ {0} /\ ThreadStep <= MaxThreads
\* A test is given by the parameters of run_test.  run_test_correctness passes
\* the same number twice.
ASSUME TestsAssumption ==
  /\ Tests \subseteq [num_to_push : Nat, num_to_pop : Nat,
                      check_correctness : BOOLEAN]
  /\ \A args \in Tests : args.check_correctness => args.num_to_push = args.num_to_pop
ASSUME BoundsAssumption == MaxTime \in Nat /\ MayFail \in BOOLEAN

Index  == 0 .. MaxThreads - 1
Main   == MaxThreads         \* the main thread calls the stack too

VARIABLES
  args,           \* the parameters of run_test
  stk, out,       \* the abstract stack and the outcomes of the pops
  stack,          \* what common_args.stack points to
  pop_log,        \* pop_log_array
  execution_time, \* thread_execution_time in thread_args
  main,           \* where the main thread is
  num_threads, to_push, thread_i,
  verdict,        \* what correctness_test_printout printed last
  max_time,       \* what fairness_test_printout printed last
  pc, count,      \* where each job is, and its loop counter
  failed, missed, \* pushes that failed, pops that found no element (history)
  longest         \* longest duration measured in this round (history)

mainVars == <<args, main, num_threads, to_push, thread_i, verdict, max_time, stack>>
history  == <<failed, missed, longest>>
vars == <<stk, out, pop_log, execution_time, mainVars, pc, count, history>>

NumToPush == args.num_to_push
NumToPop  == args.num_to_pop
Check     == args.check_correctness
Logged    == 0 .. NumToPush * MaxThreads - 1

Stack == INSTANCE AbstractStack WITH Thread <- Index \cup {Main}, Value <- Nat

TypeOK ==
  /\ args \in Tests
  /\ stk \in Seq(0 .. NumToPush * MaxThreads + NumToPop)
  /\ out \in [Index \cup {Main} -> Stack!Outcome]
  /\ stack \in {"none", "NULL", "ready"}
  /\ pop_log \in [Logged -> Nat]
  /\ execution_time \in [Index -> 0 .. MaxTime]
  /\ main \in {"Init", "Prefill", "Spawn", "Join", "Printout", "Return", "Crash",
              "Exit"}
  /\ num_threads \in 1 .. MaxThreads + ThreadStep
  /\ to_push \in 0 .. NumToPop
  /\ thread_i \in 0 .. MaxThreads
  /\ verdict \in {"NONE", "PASSED", "FAILED"}
  /\ max_time \in 0 .. MaxTime
  /\ pc \in [Index -> {"None", "Push", "Pop", "Log", "Done"}]
  /\ count \in [Index -> 0 .. IF NumToPush < NumToPop THEN NumToPop ELSE NumToPush]
  /\ failed \in Nat /\ missed \in Nat /\ longest \in 0 .. MaxTime

Init ==
  /\ args \in Tests
  /\ Stack!Init
  /\ stack = "none"
  /\ pop_log = [v \in Logged |-> 0]
  /\ execution_time = [i \in Index |-> 0]
  /\ main = "Init"
  /\ num_threads = ThreadStep /\ to_push = 0 /\ thread_i = 0
  /\ verdict = "NONE" /\ max_time = 0
  /\ pc = [i \in Index |-> "None"]
  /\ count = [i \in Index |-> 0]
  /\ failed = 0 /\ missed = 0 /\ longest = 0
-----------------------------------------------------------------------------
(***************************************************************************)
(* Calls of the stack, whose results are ignored: on a NULL stack they     *)
(* return at once.                                                         *)
(***************************************************************************)
CallPush(v) ==
  \/ stack = "ready" /\ Stack!Push(v) /\ UNCHANGED failed
  \/ /\ stack = "NULL" \/ MayFail
     /\ failed' = failed + 1
     /\ UNCHANGED <<stk, out>>

\* stack_pop by t returned 0, or did not.
CallPop(t) == stack = "ready" /\ Stack!Pop(t)

CallPopFails(t) == \/ stack = "ready" /\ Stack!PopEmpty(t)
                   \/ stack = "NULL" /\ UNCHANGED <<stk, out>>
-----------------------------------------------------------------------------
(***************************************************************************)
(* one_thread_job, thread i                                                *)
(***************************************************************************)
Goto(i, from, to) == pc[i] = from /\ pc' = [pc EXCEPT ![i] = to]

Repeat(i) == count' = [count EXCEPT ![i] = @ + 1]

PushValue(i, v) ==
  /\ count[i] < NumToPush
  /\ Goto(i, "Push", "Push")
  /\ CallPush(v)
  /\ Repeat(i)
  /\ UNCHANGED <<pop_log, execution_time, mainVars, missed, longest>>

\* Fault: the threads push the same values.
PushSame(i) == PushValue(i, count[i])

Push(i) == PushValue(i, NumToPush * i + count[i])

\* The loop ends after n values.
PushedEnough(i, n) ==
  /\ count[i] = n
  /\ Goto(i, "Push", "Pop")
  /\ count' = [count EXCEPT ![i] = 0]
  /\ UNCHANGED <<stk, out, pop_log, execution_time, mainVars, history>>

\* Fault: the thread starts to pop one value early.
AllPushedEarly(i) == PushedEnough(i, NumToPush - 1)

AllPushed(i) == PushedEnough(i, NumToPush)

Pop(i) ==
  /\ count[i] < NumToPop
  /\ Goto(i, "Pop", IF Check THEN "Log" ELSE "Pop")
  /\ CallPop(i)
  /\ Repeat(i)
  /\ UNCHANGED <<pop_log, execution_time, mainVars, history>>

\* One of n pops finds nothing.
MissUpTo(i, n) ==
  /\ count[i] < n
  /\ Goto(i, "Pop", "Pop")
  /\ CallPopFails(i)
  /\ missed' = missed + 1
  /\ Repeat(i)
  /\ UNCHANGED <<pop_log, execution_time, mainVars, failed, longest>>

\* Fault: one pop too many.
PopNothingTooOften(i) == MissUpTo(i, NumToPop + 1)

PopNothing(i) == MissUpTo(i, NumToPop)

\* __atomic_add_fetch(&pop_log_array[pop_location], 1)
Log(i) ==
  /\ Goto(i, "Log", "Pop")
  /\ pop_log' = [pop_log EXCEPT ![out[i]] = @ + 1]
  /\ UNCHANGED <<stk, out, execution_time, mainVars, count, history>>

\* The time d since the start of the job replaces that of the last round.
Finish(i) ==
  /\ count[i] = NumToPop
  /\ Goto(i, "Pop", "Done")
  /\ \E d \in 0 .. MaxTime :
       /\ execution_time' = [execution_time EXCEPT ![i] = d]
       /\ longest' = IF longest < d THEN d ELSE longest
  /\ UNCHANGED <<stk, out, pop_log, mainVars, count, failed, missed>>
-----------------------------------------------------------------------------
(***************************************************************************)
(* run_test                                                                *)
(***************************************************************************)
\* memset of the log, stack_init: the memory for the stack may be missing.
InitStack ==
  /\ main = "Init" /\ main' = "Prefill"
  /\ pop_log' = [v \in Logged |-> IF Check /\ v < NumToPush * num_threads
                                  THEN 0 ELSE pop_log[v]]
  /\ Stack!Renew
  /\ stack' \in IF MayFail THEN {"ready", "NULL"} ELSE {"ready"}
  /\ to_push' = 0 /\ failed' = 0 /\ missed' = 0 /\ longest' = 0
  /\ UNCHANGED <<args, num_threads, thread_i, verdict, max_time, execution_time, pc,
                 count>>

\* stack_init fails after it has set the pointer (its result is ignored): the
\* struct is used uninitialised, and what happens next is anybody's guess.
InitHalfway ==
  /\ MayFail
  /\ main = "Init" /\ main' = "Crash"
  /\ UNCHANGED <<stk, out, stack, pop_log, execution_time, args, num_threads, to_push,
                 thread_i, verdict, max_time, pc, count, history>>

Prefill ==
  /\ main = "Prefill" /\ to_push + NumToPush < NumToPop
  /\ CallPush(to_push)
  /\ to_push' = to_push + 1
  /\ UNCHANGED <<pop_log, execution_time, args, main, num_threads, thread_i, verdict,
                 max_time, stack, pc, count, missed, longest>>

Prefilled ==
  /\ main = "Prefill" /\ to_push + NumToPush >= NumToPop
  /\ main' = "Spawn" /\ thread_i' = 0
  /\ UNCHANGED <<stk, out, pop_log, execution_time, args, num_threads, to_push,
                 verdict, max_time, stack, pc, count, history>>

Spawn ==
  /\ main = "Spawn" /\ thread_i < num_threads
  /\ pc' = [pc EXCEPT ![thread_i] = "Push"]
  /\ count' = [count EXCEPT ![thread_i] = 0]
  /\ thread_i' = thread_i + 1
  /\ UNCHANGED <<stk, out, pop_log, execution_time, args, main, num_threads, to_push,
                 verdict, max_time, stack, history>>

AllSpawned ==
  /\ main = "Spawn" /\ thread_i = num_threads
  /\ main' = "Join" /\ thread_i' = 0
  /\ UNCHANGED <<stk, out, pop_log, execution_time, args, num_threads, to_push,
                 verdict, max_time, stack, pc, count, history>>

\* Fault: pthread_join does not wait.
JoinAtOnce ==
  /\ main = "Join" /\ thread_i < num_threads
  /\ thread_i' = thread_i + 1
  /\ UNCHANGED <<stk, out, pop_log, execution_time, args, main, num_threads, to_push,
                 verdict, max_time, stack, pc, count, history>>

Join ==
  /\ main = "Join" /\ thread_i < num_threads
  /\ pc[thread_i] = "Done"
  /\ pc' = [pc EXCEPT ![thread_i] = "None"]
  /\ thread_i' = thread_i + 1
  /\ UNCHANGED <<stk, out, pop_log, execution_time, args, main, num_threads, to_push,
                 verdict, max_time, stack, count, history>>

AllJoined ==
  /\ main = "Join" /\ thread_i = num_threads
  /\ main' = "Printout"
  /\ UNCHANGED <<stk, out, pop_log, execution_time, args, num_threads, to_push,
                 thread_i, verdict, max_time, stack, pc, count, history>>

\* correctness_test_printout: one pop must fail, and each value have been popped.
CheckLog ==
  /\ Check
  /\ \/ CallPop(Main) /\ verdict' = "FAILED"
     \/ /\ CallPopFails(Main)
        /\ verdict' = IF \A v \in 0 .. num_threads * NumToPush - 1 :
                           pop_log[v] = 1
                      THEN "PASSED" ELSE "FAILED"
  /\ UNCHANGED max_time

\* fairness_test_printout: the largest time of the threads of the round.
PrintMaximum ==
  /\ ~Check
  /\ LET times == {execution_time[i] : i \in 0 .. num_threads - 1}
     IN  \E m \in times : (\A d \in times : d <= m) /\ max_time' = m
  /\ UNCHANGED <<stk, out, verdict>>

\* printout_results, stack_free, and the next number of threads
Printout ==
  /\ main = "Printout"
  /\ CheckLog \/ PrintMaximum
  /\ stack' = "none"
  /\ num_threads' = num_threads + ThreadStep
  /\ main' = IF num_threads' <= MaxThreads THEN "Init" ELSE "Return"
  /\ UNCHANGED <<args, pop_log, execution_time, to_push, thread_i, pc, count,
                 history>>

\* pthread_create or clock_gettime failed: exit() ends the process.
Fail ==
  /\ MayFail
  /\ \/ main = "Spawn" /\ thread_i < num_threads
     \/ \E i \in Index : \/ pc[i] = "Push" /\ count[i] = 0
                         \/ pc[i] = "Pop" /\ count[i] = NumToPop
  /\ main' = "Exit"
  /\ UNCHANGED <<stk, out, stack, pop_log, execution_time, args, num_threads, to_push,
                 thread_i, verdict, max_time, pc, count, history>>
-----------------------------------------------------------------------------
Rounds == \/ InitStack \/ InitHalfway \/ Prefill \/ Prefilled \/ Spawn
          \/ AllSpawned \/ Join \/ AllJoined \/ Printout \/ Fail

Job(i) == \/ Push(i) \/ AllPushed(i) \/ Pop(i) \/ PopNothing(i) \/ Log(i)
          \/ Finish(i)

Next == main # "Exit" /\ (Rounds \/ \E i \in Index : Job(i))

Spec == Init /\ [][Next]_vars
-----------------------------------------------------------------------------
\* "Each thread first pushes N values, then pops N values" (StackBenchmarks.h:2):
\* however the threads interleave, a pop finds nothing only if a push failed.
PopsFindValues == NumToPop <= NumToPush => missed <= failed

\* When a round is over every call of it is accounted for: what was pushed was
\* popped or is still there (StackBenchmark.c:187, 87, 98).
CallsConserved ==
  main = "Printout" /\ stack = "ready" =>
    Len(stk) + num_threads * NumToPop - missed
      = num_threads * NumToPush + to_push - failed

InRound == main \in {"Prefill", "Spawn", "Join", "Printout"}

\* The jobs of this round, and those that have been joined.
Spawned == 0 .. num_threads - 1

Joined(i) == pc[i] = "None" /\ main \in {"Join", "Printout"}

\* The calls that job i has made in this round.
Pushes(i) == CASE pc[i] = "Push" -> count[i]
               [] pc[i] \in {"Pop", "Log", "Done"} \/ Joined(i) -> NumToPush
               [] OTHER -> 0

Pops(i) == CASE pc[i] \in {"Pop", "Log", "Done"} -> count[i]
             [] Joined(i) -> NumToPop
             [] OTHER -> 0

\* One round at a time, in the order of the code, each job within its loops.
PhasesOK ==
  /\ InRound \/ main = "Init" => num_threads <= MaxThreads
  /\ main \in {"Spawn", "Join"} => thread_i <= num_threads
  /\ main \notin {"Spawn", "Join", "Exit"} => \A i \in Index : pc[i] = "None"
  /\ main = "Spawn" => \A i \in Index : thread_i <= i <=> pc[i] = "None"
  /\ main = "Join" => \A i \in Index : i < thread_i \/ num_threads <= i
                                           <=> pc[i] = "None"
  /\ InRound => stack = "ready" \/ (stack = "NULL" /\ stk = <<>>)
  /\ InRound /\ NumToPop <= NumToPush => to_push = 0
  /\ \A i \in Index :
       /\ pc[i] = "Push" => count[i] <= NumToPush
       /\ pc[i] \in {"Pop", "Log", "Done"} => count[i] <= NumToPop
       /\ pc[i] = "Done" => count[i] = NumToPop
       /\ pc[i] = "Log" => Check

\* What was pushed and not popped is in the stack.
Balance(i) == Pushes(i) - Pops(i)

CountOK ==
  Len(stk) + failed - missed
    = to_push + Total([i \in Spawned |-> Balance(i)], num_threads)

\* The jobs that have ended; longest is the longest of their times.
Ended == {i \in Spawned : pc[i] = "Done" \/ Joined(i)}

TimesOK ==
  /\ \A i \in Ended : execution_time[i] <= longest
  /\ longest = 0 \/ \E i \in Ended : execution_time[i] = longest

\* The values that the jobs of a checked round have tried to push, all different.
Tried == {v \in Logged : \E i \in Spawned : \E c \in 0 .. Pushes(i) - 1 :
                           v = NumToPush * i + c}

Logging == {i \in Index : pc[i] = "Log"}

\* Such a value is in the stack, in the hand of a job or logged, at most once.
ValuesOK ==
  /\ \A k \in 1 .. Len(stk) : stk[k] \in Tried /\ pop_log[stk[k]] = 0
  /\ \A k, l \in 1 .. Len(stk) : stk[k] = stk[l] => k = l
  /\ \A i \in Logging : out[i] \in Tried /\ pop_log[out[i]] = 0
  /\ \A i, j \in Logging : out[i] = out[j] => i = j
  /\ \A i \in Logging : \A k \in 1 .. Len(stk) : stk[k] # out[i]
  /\ \A v \in 0 .. num_threads * NumToPush - 1 :
       pop_log[v] = 0 \/ (pop_log[v] = 1 /\ v \in Tried)

\* What was popped is logged, or in the hand of a job.
Settled(i) == Pops(i) - (IF i \in Logging THEN 1 ELSE 0)

LogOK ==
  LET n == num_threads * NumToPush
  IN  Total([v \in 0 .. n - 1 |-> pop_log[v]], n) + missed
        = Total([i \in Spawned |-> Settled(i)], num_threads)

\* The invariant behind the verdicts: all that a round leaves in the stack, in the
\* log and in the array of times comes from its own jobs, and is complete.
RoundInv ==
  /\ PhasesOK
  /\ PopsFindValues
  /\ InRound => CountOK /\ TimesOK
  /\ InRound /\ Check => ValuesOK /\ LogOK

\* "The test is passed if every value pushed was popped and the stack is empty"
\* (StackBenchmarks.h:4): the verdict is exactly whether every push succeeded,
\* for a correct stack; in particular no round sees the log of another.
VerdictRight ==
  [][main = "Printout" /\ Check => (verdict' = "PASSED" <=> failed = 0)]_vars

\* "Maximum time is the result" (StackBenchmarks.h:21): of this round's jobs.
ReportsLongest == [][main = "Printout" /\ ~Check => max_time' = longest]_vars
=============================================================================
