------------------------ MODULE StackBenchmarkProofs ------------------------
(***************************************************************************)
(* The benchmark of the stack judges every round right, for any numbers of *)
(* threads, pushes and pops, whichever calls fail.                         *)
(***************************************************************************)
EXTENDS StackBenchmark, Induction, SequenceTheorems

Inv == TypeOK /\ RoundInv

-----------------------------------------------------------------------------
(***************************************************************************)
(* Numbers and sequences.                                                  *)
(***************************************************************************)
\* Rows of n numbers do not overlap.
LEMMA RowsApart ==
  ASSUME NEW n \in Nat, NEW a \in Nat, NEW b \in Nat, a < b
  PROVE  n * a + n <= n * b
<1>1. (b - a) - 1 \in Nat /\ n * ((b - a) - 1) \in Nat
  OBVIOUS
<1>2. n * b = n * a + n + n * ((b - a) - 1)
  OBVIOUS
<1>. QED
  BY <1>1, <1>2

\* A number is in one row, at one place.
LEMMA RowUnique ==
  ASSUME NEW n \in Nat, NEW a \in Nat, NEW b \in Nat, NEW c \in 0 .. n - 1,
         NEW d \in 0 .. n - 1, n * a + c = n * b + d
  PROVE  a = b /\ c = d
<1>1. n * a \in Nat /\ n * b \in Nat
  OBVIOUS
<1>2. ~ (a < b)
  BY <1>1, RowsApart
<1>3. ~ (b < a)
  BY <1>1, RowsApart
<1>4. a = b
  BY <1>2, <1>3
<1>. QED
  BY <1>1, <1>4

\* A new top moves the others down by one.
LEMMA PushSeq ==
  ASSUME NEW S, NEW s \in Seq(S), NEW v \in S
  PROVE  /\ <<v>> \o s \in Seq(S) /\ Len(<<v>> \o s) = Len(s) + 1
         /\ (<<v>> \o s)[1] = v
         /\ \A k \in 2 .. Len(s) + 1 : (<<v>> \o s)[k] = s[k - 1]
<1>1. <<v>> \in Seq(S) /\ Len(<<v>>) = 1 /\ <<v>>[1] = v
  OBVIOUS
<1>2. Len(s) \in Nat
  BY LenProperties
<1>. QED
  BY <1>1, <1>2, ConcatProperties

\* Without its top, the others move up by one.
LEMMA PopSeq ==
  ASSUME NEW S, NEW s \in Seq(S), s # <<>>
  PROVE  /\ Tail(s) \in Seq(S) /\ Len(s) \in Nat \ {0} /\ Len(Tail(s)) = Len(s) - 1
         /\ Head(s) = s[1] /\ Head(s) \in S
         /\ \A k \in 1 .. Len(s) - 1 : Tail(s)[k] = s[k + 1]
BY EmptySeq, HeadTailProperties
-----------------------------------------------------------------------------
(***************************************************************************)
(* Types.                                                                  *)
(***************************************************************************)
\* The parameters of a test, which no step changes.
LEMMA Parameters ==
  ASSUME TypeOK
  PROVE  /\ NumToPush \in Nat /\ NumToPop \in Nat /\ Check \in BOOLEAN
         /\ Check => NumToPush = NumToPop
BY TestsAssumption DEF TypeOK, NumToPush, NumToPop, Check

LEMMA SameParameters ==
  ASSUME [Next]_vars
  PROVE  args' = args /\ NumToPush' = NumToPush /\ NumToPop' = NumToPop /\ Check' = Check
<1>1. args' = args
  BY DEF Next, Rounds, Job, InitStack, InitHalfway, Prefill, Prefilled, Spawn,
         AllSpawned, Join, AllJoined, Printout, Fail, Push, PushValue, AllPushed,
         PushedEnough, Pop, PopNothing, MissUpTo, Log, Finish, vars, mainVars
<1>. QED
  BY <1>1 DEF NumToPush, NumToPop, Check

LEMMA InvInit == Init => Inv
<1> SUFFICES ASSUME Init PROVE Inv
  OBVIOUS
<1>1. NumToPush \in Nat /\ NumToPop \in Nat
  BY TestsAssumption DEF Init, NumToPush, NumToPop
<1>2. ThreadStep \in 1 .. MaxThreads + ThreadStep /\ ThreadStep <= MaxThreads
  BY ThreadsAssumption
<1>3. TypeOK
  <2>1. stk \in Seq(0 .. NumToPush * MaxThreads + NumToPop)
    BY DEF Init, Stack!Init
  <2>2. out \in [Index \cup {Main} -> Stack!Outcome]
    BY DEF Init, Stack!Init, Stack!Outcome
  <2>3. count \in [Index -> 0 .. IF NumToPush < NumToPop THEN NumToPop ELSE NumToPush]
    BY <1>1 DEF Init
  <2>. QED
    BY <1>1, <1>2, <2>1, <2>2, <2>3, BoundsAssumption, ThreadsAssumption DEF Init, TypeOK
<1>. QED
  BY <1>1, <1>2, <1>3 DEF Init, Inv, RoundInv, PhasesOK, PopsFindValues, InRound

\* Where a job that runs is: in a round.
LEMMA JobRuns ==
  ASSUME Inv, main # "Exit", NEW i \in Index, pc[i] # "None"
  PROVE  /\ main \in {"Spawn", "Join"} /\ InRound
         /\ num_threads \in 1 .. MaxThreads /\ i \in Spawned
<1>1. PhasesOK /\ thread_i \in Nat /\ num_threads \in Nat /\ num_threads >= 1
      /\ MaxThreads \in Nat
  BY ThreadsAssumption DEF Inv, RoundInv, TypeOK
<1>2. main \in {"Spawn", "Join"} /\ InRound
  BY <1>1 DEF PhasesOK, InRound
<1>3. thread_i <= num_threads /\ num_threads <= MaxThreads
  BY <1>1, <1>2 DEF PhasesOK
<1>4. i \in Nat /\ i < num_threads
  BY <1>1, <1>2, <1>3 DEF PhasesOK, Index
<1>. QED
  BY <1>1, <1>2, <1>3, <1>4 DEF Spawned

\* The threads of a round are among those of the benchmark.
LEMMA RoundThreads ==
  ASSUME TypeOK, PhasesOK, InRound \/ main = "Init"
  PROVE  num_threads \in 1 .. MaxThreads /\ Spawned \subseteq Index
BY ThreadsAssumption DEF TypeOK, PhasesOK, Spawned, Index

\* What job i pushes next is a place in the log.
LEMMA NextValue ==
  ASSUME TypeOK, NEW n \in 1 .. MaxThreads, NEW i \in 0 .. n - 1,
         NEW c \in 0 .. NumToPush - 1
  PROVE  /\ NumToPush * i + c \in Logged
         /\ NumToPush * i + c \in 0 .. n * NumToPush - 1
         /\ NumToPush * i + c \in 0 .. NumToPush * MaxThreads + NumToPop
<1>1. NumToPush \in Nat /\ NumToPop \in Nat /\ MaxThreads \in Nat
  BY Parameters, ThreadsAssumption
<1>2. /\ NumToPush * i + NumToPush <= NumToPush * n
      /\ NumToPush * i + NumToPush <= NumToPush * MaxThreads
  BY <1>1, RowsApart
<1>3. NumToPush * i \in Nat /\ NumToPush * n \in Nat /\ NumToPush * MaxThreads \in Nat
      /\ NumToPush * n = n * NumToPush
  BY <1>1
<1>. QED
  BY <1>1, <1>2, <1>3 DEF Logged

\* A job moves itself only.
LEMMA JobFrame ==
  ASSUME Inv, main # "Exit", NEW i \in Index, Job(i)
  PROVE  /\ pc[i] # "None" /\ pc'[i] # "None"
         /\ UNCHANGED mainVars
         /\ \A j \in Index : j # i => pc'[j] = pc[j] /\ count'[j] = count[j]
BY DEF Job, Push, PushValue, AllPushed, PushedEnough, Pop, PopNothing, MissUpTo, Log,
       Finish, Goto, Repeat, Inv, TypeOK

\* What a job can have in hand is a place in the log.
LEMMA HandLogged ==
  ASSUME Inv, main # "Exit", NEW i \in Index, pc[i] = "Log"
  PROVE  Check /\ ValuesOK /\ LogOK /\ i \in Logging /\ out[i] \in Tried
         /\ out[i] \in Logged
<1>1. Check /\ InRound /\ i \in Logging
  BY JobRuns DEF Inv, RoundInv, PhasesOK, Logging
<1>2. ValuesOK /\ LogOK
  BY <1>1 DEF Inv, RoundInv
<1>. QED
  BY <1>1, <1>2 DEF ValuesOK, Tried

\* A call of the stack keeps the types of its variables.
LEMMA PushType ==
  ASSUME TypeOK, NEW v, v \in 0 .. NumToPush * MaxThreads + NumToPop, CallPush(v)
  PROVE  /\ stk' \in Seq(0 .. NumToPush * MaxThreads + NumToPop)
         /\ failed' \in Nat /\ out' = out
<1> DEFINE S == 0 .. NumToPush * MaxThreads + NumToPop
<1>1. stk \in Seq(S) /\ v \in S /\ failed \in Nat
  BY DEF TypeOK
<1> HIDE DEF S
<1>2. <<v>> \o stk \in Seq(S)
  BY <1>1, PushSeq
<1>3. /\ stk' = <<v>> \o stk \/ stk' = stk
      /\ failed' = failed \/ failed' = failed + 1
      /\ out' = out
  BY DEF CallPush, Stack!Push
<1>4. stk' \in Seq(S)
  BY <1>1, <1>2, <1>3, Zenon
<1>5. failed' \in Nat
  BY <1>1, <1>3
<1>. QED
  BY <1>3, <1>4, <1>5 DEF S

LEMMA PopType ==
  ASSUME TypeOK, NEW t \in Index \cup {Main}, CallPop(t) \/ CallPopFails(t)
  PROVE  /\ stk' \in Seq(0 .. NumToPush * MaxThreads + NumToPop)
         /\ out' \in [Index \cup {Main} -> Stack!Outcome]
         /\ \A j \in Index \cup {Main} : j # t => out'[j] = out[j]
<1> DEFINE S == 0 .. NumToPush * MaxThreads + NumToPop
<1>1. stk \in Seq(S) /\ out \in [Index \cup {Main} -> Stack!Outcome] /\ S \subseteq Nat
  BY Parameters, ThreadsAssumption DEF TypeOK
<1> HIDE DEF S
<1>2. CASE CallPop(t)
  <2>1. Head(stk) \in Stack!Outcome /\ Tail(stk) \in Seq(S)
    BY <1>1, <1>2, PopSeq DEF CallPop, Stack!Pop, Stack!Outcome
  <2>. QED
    BY <1>1, <1>2, <2>1 DEF CallPop, Stack!Pop, S
<1>3. CASE CallPopFails(t)
  <2>1. Empty \in Stack!Outcome
    BY DEF Stack!Outcome
  <2>. QED
    BY <1>1, <1>3, <2>1 DEF CallPopFails, Stack!PopEmpty, S
<1>. QED
  BY <1>2, <1>3

\* A job keeps the types, for it pushes and logs only what is in the log's range.
LEMMA JobTypes ==
  ASSUME Inv, main # "Exit", NEW i \in Index, Job(i)
  PROVE  TypeOK'
<1> DEFINE Bound == IF NumToPush < NumToPop THEN NumToPop ELSE NumToPush
<1>1. /\ TypeOK /\ PhasesOK /\ pc[i] # "None" /\ UNCHANGED mainVars
      /\ NumToPush' = NumToPush /\ NumToPop' = NumToPop /\ Logged' = Logged
  <2>1. TypeOK /\ PhasesOK /\ pc[i] # "None" /\ UNCHANGED mainVars
    BY JobFrame DEF Inv, RoundInv
  <2>. QED
    BY <2>1 DEF mainVars, NumToPush, NumToPop, Logged
<1>2. NumToPush \in Nat /\ NumToPop \in Nat
  BY <1>1, Parameters
<1>3. /\ args' \in Tests
      /\ stack' \in {"none", "NULL", "ready"}
      /\ main' \in {"Init", "Prefill", "Spawn", "Join", "Printout", "Return", "Crash",
                    "Exit"}
      /\ num_threads' \in 1 .. MaxThreads + ThreadStep
      /\ to_push' \in 0 .. NumToPop
      /\ thread_i' \in 0 .. MaxThreads
      /\ verdict' \in {"NONE", "PASSED", "FAILED"}
      /\ max_time' \in 0 .. MaxTime
  BY <1>1 DEF TypeOK, mainVars
<1>4. pc' \in [Index -> {"None", "Push", "Pop", "Log", "Done"}]
  BY <1>1 DEF Job, Push, PushValue, AllPushed, PushedEnough, Pop, PopNothing, MissUpTo,
              Log, Finish, Goto, TypeOK
<1>5. count' \in [Index -> 0 .. Bound]
  <2>1. count \in [Index -> 0 .. Bound] /\ Bound \in Nat /\ 0 \in 0 .. Bound
    BY <1>1, <1>2 DEF TypeOK
  <2>2. CASE Push(i) \/ Pop(i) \/ PopNothing(i)
    <3>1. count' = [count EXCEPT ![i] = count[i] + 1]
      BY <2>2 DEF Push, PushValue, Pop, PopNothing, MissUpTo, Repeat
    <3>2. count[i] < Bound
      BY <1>2, <2>1, <2>2 DEF Push, PushValue, Pop, PopNothing, MissUpTo
    <3>3. count[i] + 1 \in 0 .. Bound
      BY <2>1, <3>2
    <3> HIDE DEF Bound
    <3>. QED
      BY <2>1, <3>1, <3>3
  <2>3. CASE AllPushed(i) \/ Log(i) \/ Finish(i)
    BY <2>1, <2>3 DEF AllPushed, PushedEnough, Log, Finish
  <2>. QED
    BY <2>2, <2>3 DEF Job
<1>6. /\ stk' \in Seq(0 .. NumToPush * MaxThreads + NumToPop)
      /\ out' \in [Index \cup {Main} -> Stack!Outcome]
      /\ failed' \in Nat
  <2>1. CASE Push(i)
    <3>1. i \in Spawned /\ num_threads \in 1 .. MaxThreads
      BY <1>1, JobRuns
    <3>2. count[i] \in 0 .. NumToPush - 1
      BY <1>1, <1>2, <2>1 DEF Push, PushValue, TypeOK
    <3>3. NumToPush * i + count[i] \in 0 .. NumToPush * MaxThreads + NumToPop
      BY <1>1, <3>1, <3>2, NextValue DEF Spawned
    <3>. QED
      BY <1>1, <2>1, <3>3, PushType DEF Push, PushValue, TypeOK
  <2>2. CASE Pop(i) \/ PopNothing(i)
    <3>1. CallPop(i) \/ CallPopFails(i)
      BY <2>2 DEF Pop, PopNothing, MissUpTo
    <3>2. failed' = failed
      BY <2>2 DEF Pop, PopNothing, MissUpTo, history
    <3>. QED
      BY <1>1, <3>1, <3>2, PopType DEF TypeOK
  <2>3. CASE AllPushed(i) \/ Log(i) \/ Finish(i)
    BY <1>1, <2>3 DEF AllPushed, PushedEnough, Log, Finish, history, TypeOK
  <2>. QED
    BY <2>1, <2>2, <2>3 DEF Job
<1>7. pop_log' \in [Logged -> Nat]
  <2>1. pop_log \in [Logged -> Nat]
    BY <1>1 DEF TypeOK
  <2>2. CASE Log(i)
    <3>1. out[i] \in Logged
      BY <2>2, HandLogged DEF Log, Goto
    <3>. QED
      BY <2>1, <2>2, <3>1 DEF Log
  <2>3. CASE ~ Log(i)
    BY <2>1, <2>3 DEF Job, Push, PushValue, AllPushed, PushedEnough, Pop, PopNothing,
                      MissUpTo, Finish
  <2>. QED
    BY <2>2, <2>3
<1>8. /\ execution_time' \in [Index -> 0 .. MaxTime]
      /\ missed' \in Nat /\ longest' \in 0 .. MaxTime
  <2>1. CASE Finish(i)
    BY <1>1, <2>1 DEF Finish, TypeOK
  <2>2. CASE PopNothing(i)
    BY <1>1, <2>2 DEF PopNothing, MissUpTo, TypeOK
  <2>3. CASE Push(i) \/ AllPushed(i) \/ Pop(i) \/ Log(i)
    BY <1>1, <2>3 DEF Push, PushValue, AllPushed, PushedEnough, Pop, Log, history, TypeOK
  <2>. QED
    BY <2>1, <2>2, <2>3 DEF Job
<1>. QED
  BY <1>1, <1>3, <1>4, <1>5, <1>6, <1>7, <1>8 DEF TypeOK

\* So does a step of run_test.
LEMMA RoundTypes ==
  ASSUME Inv, Rounds, args' = args
  PROVE  TypeOK'
<1> DEFINE Bound == IF NumToPush < NumToPop THEN NumToPop ELSE NumToPush
<1>1. /\ TypeOK /\ PhasesOK /\ NumToPush' = NumToPush /\ NumToPop' = NumToPop
      /\ Logged' = Logged /\ Check' = Check
  BY DEF Inv, RoundInv, NumToPush, NumToPop, Logged, Check
<1>2. NumToPush \in Nat /\ NumToPop \in Nat /\ Bound \in Nat
  BY <1>1, Parameters
<1>3. CASE InitStack
  <2>1. stk' = <<>> /\ out' = out
    BY <1>3 DEF InitStack, Stack!Renew
  <2>2. pop_log' \in [Logged -> Nat]
    BY <1>1, <1>3 DEF InitStack, TypeOK
  <2>3. /\ main' = "Prefill" /\ stack' \in {"ready", "NULL"}
        /\ to_push' = 0 /\ failed' = 0 /\ missed' = 0 /\ longest' = 0
        /\ UNCHANGED <<args, num_threads, thread_i, verdict, max_time, execution_time,
                       pc, count>>
    BY <1>3 DEF InitStack
  <2>. QED
    BY <1>1, <1>2, <2>1, <2>2, <2>3, EmptySeq, BoundsAssumption DEF TypeOK
<1>4. CASE Prefill
  <2>1. to_push \in 0 .. NumToPush * MaxThreads + NumToPop /\ to_push + 1 \in 0 .. NumToPop
    <3>1. to_push < NumToPop /\ to_push \in Nat
      BY <1>1, <1>2, <1>4 DEF Prefill, TypeOK
    <3>2. NumToPush * MaxThreads \in Nat
      BY <1>2, ThreadsAssumption
    <3>. QED
      BY <1>2, <3>1, <3>2
  <2>2. /\ stk' \in Seq(0 .. NumToPush * MaxThreads + NumToPop)
        /\ failed' \in Nat /\ out' = out
    BY <1>1, <1>4, <2>1, PushType DEF Prefill
  <2>. QED
    BY <1>1, <1>4, <2>1, <2>2 DEF Prefill, TypeOK
<1>5. CASE Spawn
  <2>1. thread_i \in Index /\ thread_i + 1 \in 0 .. MaxThreads
    <3>1. num_threads \in 1 .. MaxThreads /\ thread_i < num_threads
      BY <1>1, <1>5, RoundThreads DEF Spawn, InRound
    <3>2. thread_i \in Nat /\ MaxThreads \in Nat
      BY <1>1, ThreadsAssumption DEF TypeOK
    <3>. QED
      BY <3>1, <3>2 DEF Index
  <2>2. /\ pc' \in [Index -> {"None", "Push", "Pop", "Log", "Done"}]
        /\ count' \in [Index -> 0 .. Bound]
    <3>1. count \in [Index -> 0 .. Bound] /\ 0 \in 0 .. Bound
      BY <1>1, <1>2 DEF TypeOK
    <3> HIDE DEF Bound
    <3>. QED
      BY <1>1, <1>5, <2>1, <3>1 DEF Spawn, TypeOK
  <2>. QED
    BY <1>1, <1>5, <2>1, <2>2 DEF Spawn, TypeOK, history
<1>6. CASE Join
  <2>1. thread_i \in Index /\ thread_i + 1 \in 0 .. MaxThreads
    <3>1. num_threads \in 1 .. MaxThreads /\ thread_i < num_threads
      BY <1>1, <1>6, RoundThreads DEF Join, InRound
    <3>2. thread_i \in Nat /\ MaxThreads \in Nat
      BY <1>1, ThreadsAssumption DEF TypeOK
    <3>. QED
      BY <3>1, <3>2 DEF Index
  <2>. QED
    BY <1>1, <1>6, <2>1 DEF Join, TypeOK, history
<1>7. CASE Printout
  <2>1. num_threads + ThreadStep \in 1 .. MaxThreads + ThreadStep
    BY <1>1, <1>7, RoundThreads, ThreadsAssumption DEF Printout, InRound
  <2>2. /\ stk' \in Seq(0 .. NumToPush * MaxThreads + NumToPop)
        /\ out' \in [Index \cup {Main} -> Stack!Outcome]
        /\ verdict' \in {"NONE", "PASSED", "FAILED"}
        /\ max_time' \in 0 .. MaxTime
    <3>1. CASE CheckLog
      <4>1. CallPop(Main) \/ CallPopFails(Main)
        BY <3>1 DEF CheckLog
      <4>2. verdict' \in {"PASSED", "FAILED"} /\ max_time' = max_time
        BY <3>1 DEF CheckLog
      <4>. QED
        BY <1>1, <4>1, <4>2, PopType DEF TypeOK
    <3>2. CASE PrintMaximum
      <4>1. PICK i \in 0 .. num_threads - 1 : max_time' = execution_time[i]
        BY <3>2 DEF PrintMaximum
      <4>2. i \in Index
        BY <1>1, <1>7, RoundThreads DEF Printout, InRound, Spawned
      <4>. QED
        BY <1>1, <3>2, <4>1, <4>2 DEF PrintMaximum, TypeOK
    <3>. QED
      BY <1>7, <3>1, <3>2 DEF Printout
  <2>3. UNCHANGED <<args, pop_log, execution_time, to_push, thread_i, pc, count, failed,
                    missed, longest>>
    BY <1>7 DEF Printout, history
  <2>. QED
    BY <1>1, <1>7, <2>1, <2>2, <2>3 DEF Printout, TypeOK
<1>8. CASE InitHalfway \/ Prefilled \/ AllSpawned \/ AllJoined \/ Fail
  <2>1. /\ UNCHANGED <<stk, out, stack, pop_log, execution_time, num_threads, to_push,
                       verdict, max_time, pc, count, failed, missed, longest>>
        /\ main' \in {"Crash", "Spawn", "Join", "Printout", "Exit"}
        /\ thread_i' \in {thread_i, 0}
    BY <1>8 DEF InitHalfway, Prefilled, AllSpawned, AllJoined, Fail, history
  <2>2. thread_i' \in 0 .. MaxThreads
    BY <1>1, <2>1, ThreadsAssumption DEF TypeOK
  <2>. QED
    BY <1>1, <2>1, <2>2 DEF TypeOK
<1>. QED
  BY <1>3, <1>4, <1>5, <1>6, <1>7, <1>8 DEF Rounds
-----------------------------------------------------------------------------
(***************************************************************************)
(* The order of a round.                                                   *)
(***************************************************************************)
\* A NULL stack stays empty, for the calls return at once.
LEMMA NullStack ==
  ASSUME Inv, main # "Exit", NEW i \in Index, Job(i), stack = "NULL"
  PROVE  stk' = stk
BY DEF Job, Push, PushValue, AllPushed, PushedEnough, Pop, PopNothing, MissUpTo, Log,
       Finish, CallPush, CallPop, CallPopFails

LEMMA JobPhases ==
  ASSUME Inv, main # "Exit", NEW i \in Index, Job(i)
  PROVE  PhasesOK'
<1>1. /\ TypeOK /\ PhasesOK /\ pc[i] # "None" /\ pc'[i] # "None"
      /\ UNCHANGED <<args, main, num_threads, to_push, thread_i, stack>>
      /\ NumToPush' = NumToPush /\ NumToPop' = NumToPop /\ Check' = Check
      /\ \A j \in Index : j # i => pc'[j] = pc[j] /\ count'[j] = count[j]
  <2>1. TypeOK /\ PhasesOK /\ UNCHANGED mainVars
    BY JobFrame DEF Inv, RoundInv
  <2>. QED
    BY <2>1, JobFrame DEF mainVars, NumToPush, NumToPop, Check
<1>2. \A j \in Index : pc'[j] = "None" <=> pc[j] = "None"
  BY <1>1
<1>3. /\ pc'[i] = "Push" => count'[i] <= NumToPush
      /\ pc'[i] \in {"Pop", "Log", "Done"} => count'[i] <= NumToPop
      /\ pc'[i] = "Done" => count'[i] = NumToPop
      /\ pc'[i] = "Log" => Check
  <2> USE <1>1, Parameters DEF Goto, Repeat, TypeOK, PhasesOK
  <2>1. CASE Push(i)
    BY <2>1 DEF Push, PushValue
  <2>2. CASE AllPushed(i)
    BY <2>2 DEF AllPushed, PushedEnough
  <2>3. CASE Pop(i)
    BY <2>3 DEF Pop
  <2>4. CASE PopNothing(i)
    BY <2>4 DEF PopNothing, MissUpTo
  <2>5. CASE Log(i)
    BY <2>5 DEF Log
  <2>6. CASE Finish(i)
    BY <2>6 DEF Finish
  <2>. QED
    BY <2>1, <2>2, <2>3, <2>4, <2>5, <2>6 DEF Job
<1>4. \A j \in Index :
        /\ pc'[j] = "Push" => count'[j] <= NumToPush'
        /\ pc'[j] \in {"Pop", "Log", "Done"} => count'[j] <= NumToPop'
        /\ pc'[j] = "Done" => count'[j] = NumToPop'
        /\ pc'[j] = "Log" => Check'
  BY <1>1, <1>3 DEF PhasesOK
<1>5. stack = "NULL" => stk' = stk
  BY NullStack
<1>6. InRound' = InRound
  BY <1>1 DEF InRound
<1>. QED
  BY <1>1, <1>2, <1>4, <1>5, <1>6 DEF PhasesOK

LEMMA RoundPhases ==
  ASSUME Inv, TypeOK', Rounds, args' = args
  PROVE  PhasesOK'
<1>1. /\ TypeOK /\ PhasesOK
      /\ NumToPush' = NumToPush /\ NumToPop' = NumToPop /\ Check' = Check
      /\ NumToPush \in Nat /\ NumToPop \in Nat
  BY Parameters DEF Inv, RoundInv, NumToPush, NumToPop, Check
<1>2. CASE InitStack
  BY <1>1, <1>2 DEF InitStack, Stack!Renew, PhasesOK, InRound
<1>3. CASE InitHalfway
  BY <1>1, <1>3 DEF InitHalfway, PhasesOK, InRound
<1>4. CASE Prefill
  <2>1. stack = "NULL" => stk' = stk
    BY <1>4 DEF Prefill, CallPush
  <2>2. ~ (NumToPop <= NumToPush)
    BY <1>1, <1>4 DEF Prefill, TypeOK
  <2>. QED
    BY <1>1, <1>4, <2>1, <2>2 DEF Prefill, PhasesOK, InRound
<1>5. CASE Prefilled
  BY <1>1, <1>5 DEF Prefilled, PhasesOK, InRound, TypeOK, Index
<1>6. CASE Spawn
  <2>1. /\ thread_i \in Index /\ thread_i + 1 <= num_threads
        /\ num_threads \in Nat /\ thread_i \in Nat
    BY <1>1, <1>6, RoundThreads DEF Spawn, TypeOK, InRound, Spawned
  <2>2. /\ pc'[thread_i] = "Push" /\ count'[thread_i] = 0
        /\ \A j \in Index : j # thread_i => pc'[j] = pc[j] /\ count'[j] = count[j]
        /\ UNCHANGED <<main, stack, stk, to_push, num_threads>>
        /\ main = "Spawn" /\ thread_i' = thread_i + 1
    BY <1>1, <1>6, <2>1 DEF Spawn, TypeOK
  <2>3. \A j \in Index : thread_i' <= j <=> pc'[j] = "None"
    BY <1>1, <2>1, <2>2 DEF PhasesOK, Index
  <2>. QED
    BY <1>1, <2>1, <2>2, <2>3 DEF PhasesOK, InRound
<1>7. CASE AllSpawned
  BY <1>1, <1>7 DEF AllSpawned, PhasesOK, InRound, TypeOK, Index
<1>8. CASE Join
  <2>1. /\ thread_i \in Index /\ thread_i + 1 <= num_threads
        /\ num_threads \in Nat /\ thread_i \in Nat
    BY <1>1, <1>8, RoundThreads DEF Join, TypeOK, InRound, Spawned
  <2>2. /\ pc'[thread_i] = "None"
        /\ \A j \in Index : j # thread_i => pc'[j] = pc[j]
        /\ UNCHANGED <<main, stack, stk, to_push, num_threads, count>>
        /\ main = "Join" /\ thread_i' = thread_i + 1
    BY <1>1, <1>8, <2>1 DEF Join, TypeOK
  <2>3. \A j \in Index : j < thread_i' \/ num_threads' <= j <=> pc'[j] = "None"
    BY <1>1, <2>1, <2>2 DEF PhasesOK, Index
  <2>. QED
    BY <1>1, <2>1, <2>2, <2>3 DEF PhasesOK, InRound
<1>9. CASE AllJoined
  BY <1>1, <1>9 DEF AllJoined, PhasesOK, InRound, TypeOK, Index
<1>10. CASE Printout
  BY <1>1, <1>10, ThreadsAssumption DEF Printout, PhasesOK, InRound, TypeOK
<1>11. CASE Fail
  BY <1>1, <1>11 DEF Fail, PhasesOK, InRound
<1>. QED
  BY <1>2, <1>3, <1>4, <1>5, <1>6, <1>7, <1>8, <1>9, <1>10, <1>11 DEF Rounds
-----------------------------------------------------------------------------
(***************************************************************************)
(* The calls of a round.                                                   *)
(***************************************************************************)
\* The calls of a job are within its loops.
LEMMA CallsType ==
  ASSUME TypeOK, PhasesOK, NEW i \in Index
  PROVE  Pushes(i) \in 0 .. NumToPush /\ Pops(i) \in 0 .. NumToPop
<1>1. NumToPush \in Nat /\ NumToPop \in Nat /\ count[i] \in Nat
  BY Parameters DEF TypeOK
<1>. QED
  BY <1>1 DEF Pushes, Pops, PhasesOK

\* What a step of a job adds to its calls: a push succeeds or fails, a pop takes
\* the top or finds nothing.
LEMMA JobCalls ==
  ASSUME Inv, main # "Exit", NEW i \in Index, Job(i)
  PROVE  /\ \A j \in Index : j # i => Pushes(j)' = Pushes(j) /\ Pops(j)' = Pops(j)
         /\ Push(i) => /\ Pushes(i) = count[i] /\ Pushes(i) < NumToPush
                       /\ Pushes(i)' = Pushes(i) + 1 /\ Pops(i)' = Pops(i)
         /\ Pop(i) \/ PopNothing(i) =>
                       /\ Pushes(i) = NumToPush /\ Pops(i) < NumToPop
                       /\ Pushes(i)' = Pushes(i) /\ Pops(i)' = Pops(i) + 1
         /\ AllPushed(i) \/ Log(i) \/ Finish(i) =>
                       Pushes(i)' = Pushes(i) /\ Pops(i)' = Pops(i)
<1>1. /\ TypeOK /\ PhasesOK /\ pc[i] # "None" /\ pc'[i] # "None"
      /\ main' = main /\ NumToPush' = NumToPush /\ NumToPop' = NumToPop
      /\ \A j \in Index : j # i => pc'[j] = pc[j] /\ count'[j] = count[j]
  <2>1. TypeOK /\ PhasesOK /\ UNCHANGED mainVars
    BY JobFrame DEF Inv, RoundInv
  <2>. QED
    BY <2>1, JobFrame DEF mainVars, NumToPush, NumToPop
<1>2. NumToPush \in Nat /\ NumToPop \in Nat /\ count[i] \in Nat
  BY <1>1, Parameters DEF TypeOK
<1>3. \A j \in Index : j # i => Pushes(j)' = Pushes(j) /\ Pops(j)' = Pops(j)
  BY <1>1 DEF Pushes, Pops, Joined
<1>4. ~ Joined(i) /\ ~ Joined(i)'
  BY <1>1 DEF Joined
<1> USE <1>1, <1>2, <1>4 DEF Goto, Repeat, TypeOK, Pushes, Pops
<1>5. CASE Push(i)
  BY <1>3, <1>5 DEF Push, PushValue, AllPushed, PushedEnough, Pop, PopNothing, MissUpTo,
                    Log, Finish
<1>6. CASE AllPushed(i)
  BY <1>3, <1>6 DEF Push, PushValue, AllPushed, PushedEnough, Pop, PopNothing, MissUpTo,
                    Log, Finish
<1>7. CASE Pop(i) \/ PopNothing(i)
  BY <1>3, <1>7 DEF Push, PushValue, AllPushed, PushedEnough, Pop, PopNothing, MissUpTo,
                    Log, Finish
<1>8. CASE Log(i)
  BY <1>3, <1>8 DEF Push, PushValue, AllPushed, PushedEnough, Pop, PopNothing, MissUpTo,
                    Log, Finish
<1>9. CASE Finish(i)
  BY <1>3, <1>9 DEF Push, PushValue, AllPushed, PushedEnough, Pop, PopNothing, MissUpTo,
                    Log, Finish
<1>. QED
  BY <1>5, <1>6, <1>7, <1>8, <1>9 DEF Job

\* The main thread makes no call of a job: it finds none made when it starts a
\* round, and all made when it joins.
LEMMA MainCalls ==
  ASSUME Inv, Rounds, args' = args, InRound'
  PROVE  \/ /\ InitStack
            /\ \A i \in Index : Pushes(i)' = 0 /\ Pops(i)' = 0
         \/ /\ InRound /\ ~ InitStack
            /\ \A i \in Spawned : Pushes(i)' = Pushes(i) /\ Pops(i)' = Pops(i)
<1>1. /\ TypeOK /\ PhasesOK /\ NumToPush' = NumToPush /\ NumToPop' = NumToPop
      /\ NumToPush \in Nat /\ NumToPop \in Nat
  BY Parameters DEF Inv, RoundInv, NumToPush, NumToPop
<1>2. CASE InitStack
  BY <1>1, <1>2 DEF InitStack, PhasesOK, Pushes, Pops, Joined, InRound
<1>3. CASE ~ InitStack
  <2>1. InRound
    BY <1>3 DEF Rounds, InitHalfway, Prefill, Prefilled, Spawn, AllSpawned, Join,
                AllJoined, Printout, Fail, InRound
  <2>2. num_threads \in 1 .. MaxThreads /\ Spawned \subseteq Index
    BY <1>1, <2>1, RoundThreads
  <2> SUFFICES ASSUME NEW i \in Spawned
               PROVE  Pushes(i)' = Pushes(i) /\ Pops(i)' = Pops(i)
    BY <1>3, <2>1
  <2>3. i \in Index /\ i \in Nat /\ i < num_threads
    BY <2>2 DEF Spawned
  <2>4. CASE Prefill \/ Prefilled
    <3>1. UNCHANGED pc /\ pc[i] = "None" /\ main \in {"Prefill"}
          /\ main' \in {"Prefill", "Spawn"}
      BY <1>1, <2>3, <2>4 DEF Prefill, Prefilled, PhasesOK
    <3>. QED
      BY <3>1 DEF Pushes, Pops, Joined
  <2>5. CASE Spawn
    <3>1. CASE i = thread_i
      <4>1. pc[i] = "None" /\ main = "Spawn" /\ pc'[i] = "Push" /\ count'[i] = 0
        BY <1>1, <2>3, <2>5, <3>1 DEF Spawn, PhasesOK, TypeOK
      <4>. QED
        BY <4>1 DEF Pushes, Pops, Joined
    <3>2. CASE i # thread_i
      <4>1. pc'[i] = pc[i] /\ main' = main /\ count'[i] = count[i]
        BY <1>1, <2>3, <2>5, <3>2 DEF Spawn, TypeOK
      <4>. QED
        BY <1>1, <4>1 DEF Pushes, Pops, Joined
    <3>. QED
      BY <3>1, <3>2
  <2>6. CASE AllSpawned
    <3>1. pc[i] # "None" /\ UNCHANGED <<pc, count>>
      BY <1>1, <2>3, <2>2, <2>6 DEF AllSpawned, PhasesOK
    <3>. QED
      BY <1>1, <3>1 DEF Pushes, Pops, Joined
  <2>7. CASE Join
    <3>1. CASE i = thread_i
      <4>1. /\ pc[i] = "Done" /\ main' = "Join" /\ pc'[i] = "None"
            /\ count[i] = NumToPop
        BY <1>1, <2>3, <2>7, <3>1 DEF Join, PhasesOK, TypeOK
      <4>. QED
        BY <1>1, <4>1 DEF Pushes, Pops, Joined
    <3>2. CASE i # thread_i
      <4>1. pc'[i] = pc[i] /\ main' = main /\ count'[i] = count[i]
        BY <1>1, <2>3, <2>7, <3>2 DEF Join, TypeOK
      <4>. QED
        BY <1>1, <4>1 DEF Pushes, Pops, Joined
    <3>. QED
      BY <3>1, <3>2
  <2>8. CASE AllJoined
    <3>1. UNCHANGED <<pc, count>> /\ main = "Join" /\ main' = "Printout"
      BY <2>8 DEF AllJoined
    <3>. QED
      BY <1>1, <3>1 DEF Pushes, Pops, Joined
  <2>. QED
    BY <1>3, <2>4, <2>5, <2>6, <2>7, <2>8
    DEF Rounds, InitHalfway, Printout, Fail, InRound
<1>. QED
  BY <1>2, <1>3

\* The balance of the calls is a sum over the threads of the round.
LEMMA BalanceType ==
  ASSUME TypeOK, PhasesOK, InRound
  PROVE  [i \in Spawned |-> Balance(i)] \in [0 .. num_threads - 1 -> Int]
<1>1. ASSUME NEW i \in Spawned PROVE Balance(i) \in Int
  <2>1. i \in Index /\ NumToPush \in Nat /\ NumToPop \in Nat
    BY RoundThreads, Parameters
  <2>. QED
    BY <2>1, CallsType DEF Balance
<1>. QED
  BY <1>1 DEF Spawned

\* A job has popped only when it has pushed all.
LEMMA BalanceBounds ==
  ASSUME TypeOK, PhasesOK, NEW i \in Index, NumToPop <= NumToPush
  PROVE  Balance(i) >= 0
<1>1. NumToPush \in Nat /\ NumToPop \in Nat
  BY Parameters
<1>2. Pushes(i) \in 0 .. NumToPush /\ Pops(i) \in 0 .. NumToPop
  BY CallsType
<1>3. Pops(i) = 0 \/ Pushes(i) = NumToPush
  BY DEF Pushes, Pops
<1>. QED
  BY <1>1, <1>2, <1>3 DEF Balance

\* Each call of a job moves the stack, or counts as failed or missed.
LEMMA JobCount ==
  ASSUME Inv, TypeOK', PhasesOK', main # "Exit", NEW i \in Index, Job(i)
  PROVE  CountOK' /\ PopsFindValues'
<1> DEFINE f == [j \in Spawned |-> Balance(j)]
           d == Balance(i)' - Balance(i)
<1>1. /\ TypeOK /\ PhasesOK /\ CountOK /\ PopsFindValues /\ InRound /\ InRound'
      /\ num_threads \in Nat /\ i \in Spawned /\ Spawned' = Spawned
      /\ UNCHANGED <<args, num_threads, to_push>> /\ Spawned \subseteq Index
  <2>1. pc[i] # "None" /\ UNCHANGED mainVars
    BY JobFrame
  <2>2. InRound /\ num_threads \in 1 .. MaxThreads /\ i \in Spawned
    BY <2>1, JobRuns
  <2>. QED
    BY <2>1, <2>2, RoundThreads DEF mainVars, Inv, RoundInv, InRound, Spawned
<1>2. NumToPush \in Nat /\ NumToPop \in Nat /\ NumToPush' = NumToPush /\ NumToPop' = NumToPop
  BY <1>1, Parameters DEF NumToPush, NumToPop
<1>3. Pushes(i) \in Int /\ Pops(i) \in Int /\ Pushes(i)' \in Int /\ Pops(i)' \in Int
  <2>1. Pushes(i) \in Int /\ Pops(i) \in Int
    BY <1>1, <1>2, CallsType
  <2>. QED
    BY <2>1, JobCalls DEF Job
<1>4. d \in Int /\ Balance(i)' = Balance(i) + d
  BY <1>3 DEF Balance
<1>5. \A j \in Spawned : j # i => Balance(j)' = Balance(j)
  BY <1>1, JobCalls DEF Balance
<1>6. f \in [0 .. num_threads - 1 -> Int]
  BY <1>1, BalanceType
<1>7. f' \in [0 .. num_threads - 1 -> Int]
  <2>1. \A j \in Spawned : Balance(j)' \in Int
    <3>1. \A j \in Spawned : Balance(j) \in Int
      BY <1>6
    <3>. QED
      BY <1>1, <1>4, <1>5, <3>1
  <2>. QED
    BY <1>1, <2>1 DEF Spawned
<1>8. f'[i] = f[i] + d /\ \A j \in 0 .. num_threads - 1 : j # i => f'[j] = f[j]
  BY <1>1, <1>4, <1>5 DEF Spawned
<1>9. Len(stk) + failed - missed = to_push + Total(f, num_threads)
  BY <1>1 DEF CountOK
<1>10. i \in 0 .. num_threads - 1
  BY <1>1 DEF Spawned
<1> HIDE DEF f
<1>11. Total(f', num_threads) = Total(f, num_threads) + d /\ Total(f, num_threads) \in Int
  <2> HIDE DEF d
  <2>. QED
    BY <1>1, <1>4, <1>6, <1>7, <1>8, <1>10, TotalUpdate, TotalType
<1>12. /\ failed \in Nat /\ missed \in Nat /\ to_push \in Int /\ Len(stk) \in Nat
       /\ stk \in Seq(Nat)
  <2>1. stk \in Seq(Nat)
    <3>1. 0 .. NumToPush * MaxThreads + NumToPop \subseteq Nat
      BY <1>2, ThreadsAssumption
    <3>. QED
      BY <1>1, <3>1, SeqMonotonic DEF TypeOK
  <2>. QED
    BY <1>1, <1>2, <2>1, LenProperties DEF TypeOK
<1>13. Len(stk') + failed' - missed' = Len(stk) + failed - missed + d
  <2>1. CASE Push(i)
    <3>1. d = 1 /\ missed' = missed
      BY <1>3, <2>1, JobCalls DEF Push, PushValue, Balance
    <3>2. PICK v \in Nat : CallPush(v)
      <4>1. count[i] \in Nat /\ i \in Nat
        <5>1. count[i] = Pushes(i) /\ Pushes(i) \in 0 .. NumToPush
          BY <1>1, <2>1, JobCalls, CallsType
        <5>. QED
          BY <1>2, <5>1 DEF Index
      <4>2. NumToPush * i + count[i] \in Nat
        BY <1>2, <4>1
      <4>. QED
        BY <2>1, <4>2 DEF Push, PushValue
    <3>3. CASE stk' = <<v>> \o stk /\ failed' = failed
      <4>1. Len(stk') = Len(stk) + 1
        BY <1>12, <3>3, PushSeq
      <4>. QED
        BY <1>12, <3>1, <3>3, <4>1
    <3>4. CASE stk' = stk /\ failed' = failed + 1
      BY <1>12, <3>1, <3>4
    <3>. QED
      BY <3>2, <3>3, <3>4 DEF CallPush, Stack!Push
  <2>2. CASE Pop(i)
    <3>1. d = -1 /\ missed' = missed /\ failed' = failed
      BY <1>3, <2>2, JobCalls DEF Pop, Balance, history
    <3>2. stk' = Tail(stk) /\ stk # <<>>
      BY <2>2 DEF Pop, CallPop, Stack!Pop
    <3>3. Len(stk') = Len(stk) - 1
      BY <1>12, <3>2, PopSeq
    <3>. QED
      BY <1>12, <3>1, <3>3
  <2>3. CASE PopNothing(i)
    <3>1. d = -1 /\ missed' = missed + 1 /\ failed' = failed
      BY <1>3, <2>3, JobCalls DEF PopNothing, MissUpTo, Balance
    <3>2. stk' = stk
      BY <2>3 DEF PopNothing, MissUpTo, CallPopFails, Stack!PopEmpty
    <3>. QED
      BY <1>12, <3>1, <3>2
  <2>4. CASE AllPushed(i) \/ Log(i) \/ Finish(i)
    <3>1. d = 0
      BY <1>3, <2>4, JobCalls DEF Balance
    <3>2. missed' = missed /\ failed' = failed /\ stk' = stk
      BY <2>4 DEF AllPushed, PushedEnough, Log, Finish, history
    <3>. QED
      BY <1>12, <3>1, <3>2
  <2>. QED
    BY <2>1, <2>2, <2>3, <2>4 DEF Job
<1>14. CountOK'
  <2>1. Len(stk') + failed' - missed' = to_push + Total(f', num_threads)
    <3> HIDE DEF d
    <3>. QED
      BY <1>4, <1>9, <1>11, <1>12, <1>13
  <2>. QED
    BY <1>1, <2>1 DEF CountOK, f
<1>15. PopsFindValues'
  <2> SUFFICES ASSUME NumToPop <= NumToPush PROVE missed' <= failed'
    BY <1>2 DEF PopsFindValues
  <2>1. missed <= failed
    BY <1>1 DEF PopsFindValues
  <2>2. CASE PopNothing(i)
    <3>1. missed' = missed + 1 /\ failed' = failed
      BY <2>2 DEF PopNothing, MissUpTo
    <3>2. to_push = 0 /\ stk = <<>> /\ Len(stk) = 0
      BY <1>1, <2>2 DEF PopNothing, MissUpTo, CallPopFails, Stack!PopEmpty, PhasesOK
    <3>3. \A j \in 0 .. num_threads - 1 : f[j] >= 0
      BY <1>1, BalanceBounds DEF f, Spawned
    <3>4. f[i] >= 1
      <4>1. Pushes(i) = NumToPush /\ Pops(i) < NumToPop
        BY <2>2, JobCalls
      <4>2. f[i] = Balance(i)
        BY <1>1 DEF f
      <4>. QED
        BY <1>2, <1>3, <4>1, <4>2 DEF Balance
    <3>5. f[i] <= Total(f, num_threads)
      BY <1>1, <1>6, <1>10, <3>3, TotalBounds
    <3>6. f[i] \in Int
      BY <1>6, <1>10
    <3>. QED
      BY <1>9, <1>11, <1>12, <3>1, <3>2, <3>4, <3>5, <3>6
  <2>3. CASE ~ PopNothing(i)
    <3>1. missed' = missed /\ (failed' = failed \/ failed' = failed + 1)
      BY <2>3 DEF Job, Push, PushValue, AllPushed, PushedEnough, Pop, Log, Finish, history,
                  CallPush
    <3>. QED
      BY <1>12, <2>1, <3>1
  <2>. QED
    BY <2>2, <2>3
<1>. QED
  BY <1>14, <1>15

\* The main thread's pushes are counted in to_push, or fail.
LEMMA MainCount ==
  ASSUME Inv, TypeOK', PhasesOK', Rounds, args' = args
  PROVE  (InRound' => CountOK') /\ PopsFindValues'
<1>1. TypeOK /\ PhasesOK /\ PopsFindValues
  BY DEF Inv, RoundInv
<1>2. /\ NumToPush \in Nat /\ NumToPop \in Nat /\ failed \in Nat /\ missed \in Nat
      /\ NumToPush' = NumToPush /\ NumToPop' = NumToPop /\ to_push \in Nat
  <2>1. NumToPush \in Nat /\ NumToPop \in Nat
    BY <1>1, Parameters
  <2>2. failed \in Nat /\ missed \in Nat /\ to_push \in Nat
    BY <1>1, <2>1 DEF TypeOK
  <2>. QED
    BY <2>1, <2>2 DEF NumToPush, NumToPop
<1>3. PopsFindValues'
  <2>1. CASE InitStack
    BY <2>1 DEF InitStack, PopsFindValues
  <2>2. CASE ~ InitStack
    <3>1. missed' = missed /\ (failed' = failed \/ failed' = failed + 1)
      BY <2>2 DEF Rounds, InitHalfway, Prefill, Prefilled, Spawn, AllSpawned, Join,
                  AllJoined, Printout, Fail, history, CallPush
    <3>. QED
      BY <1>1, <1>2, <3>1 DEF PopsFindValues
  <2>. QED
    BY <2>1, <2>2
<1>4. ASSUME InRound' PROVE CountOK'
  <2> DEFINE f == [j \in Spawned |-> Balance(j)]
  <2>1. num_threads' = num_threads /\ Spawned' = Spawned
    BY <1>4 DEF Rounds, InitStack, InitHalfway, Prefill, Prefilled, Spawn, AllSpawned,
                Join, AllJoined, Printout, Fail, InRound, Spawned
  <2>2. CASE InitStack
    <3>1. \A i \in Index : Balance(i)' = 0
      BY <1>4, <2>2, MainCalls DEF Balance
    <3>2. num_threads \in 1 .. MaxThreads /\ Spawned \subseteq Index
      BY <1>1, <2>2, RoundThreads DEF InitStack
    <3>3. f' \in [0 .. num_threads - 1 -> Int] /\ \A j \in 0 .. num_threads - 1 : f'[j] = 0
      BY <2>1, <3>1, <3>2 DEF Spawned
    <3> HIDE DEF f
    <3>4. Total(f', num_threads) = num_threads * 0
      BY <3>2, <3>3, TotalConstant
    <3>5. Total(f', num_threads) = 0
      BY <3>2, <3>4
    <3>6. Len(stk') = 0 /\ failed' = 0 /\ missed' = 0 /\ to_push' = 0
      BY <2>2, EmptySeq DEF InitStack, Stack!Renew
    <3>. QED
      BY <2>1, <3>5, <3>6 DEF CountOK, f
  <2>3. CASE ~ InitStack
    <3>1. InRound /\ \A i \in Spawned : Balance(i)' = Balance(i)
      BY <1>4, <2>3, MainCalls DEF Balance
    <3>2. f' = f
      BY <2>1, <3>1
    <3>3. Len(stk) + failed - missed = to_push + Total(f, num_threads)
      BY <3>1 DEF Inv, RoundInv, CountOK
    <3>4. f \in [0 .. num_threads - 1 -> Int] /\ num_threads \in Nat
      BY <1>1, <3>1, BalanceType, RoundThreads
    <3> HIDE DEF f
    <3>5. Total(f, num_threads) \in Int
      BY <3>4, TotalType
    <3>6. Len(stk) \in Nat
      BY <1>1, LenProperties DEF TypeOK
    <3>7. Len(stk') + failed' - missed' = to_push' + Total(f, num_threads)
      <4>1. CASE Prefill
        <5>1. to_push' = to_push + 1 /\ missed' = missed /\ CallPush(to_push)
          BY <4>1 DEF Prefill
        <5>2. CASE stk' = <<to_push>> \o stk /\ failed' = failed
          <6>1. 0 .. NumToPush * MaxThreads + NumToPop \subseteq Nat
            BY <1>2, ThreadsAssumption
          <6>2. stk \in Seq(Nat)
            BY <1>1, <6>1, SeqMonotonic DEF TypeOK
          <6>3. Len(stk') = Len(stk) + 1
            BY <1>2, <5>2, <6>2, PushSeq
          <6>4. failed' = failed
            BY <5>2
          <6>. QED
            BY <1>2, <3>3, <3>5, <3>6, <5>1, <6>3, <6>4
        <5>3. CASE stk' = stk /\ failed' = failed + 1
          BY <1>2, <3>3, <3>5, <3>6, <5>1, <5>3
        <5>. QED
          BY <5>1, <5>2, <5>3 DEF CallPush, Stack!Push
      <4>2. CASE ~ Prefill
        <5>1. UNCHANGED <<stk, failed, missed, to_push>>
          BY <1>4, <2>3, <4>2
          DEF Rounds, InitHalfway, Prefilled, Spawn, AllSpawned, Join, AllJoined,
              Printout, Fail, history, InRound
        <5>. QED
          BY <3>3, <5>1
      <4>. QED
        BY <4>1, <4>2
    <3>8. Len(stk') + failed' - missed' = to_push' + Total(f', num_threads')
      BY <2>1, <3>2, <3>7
    <3>. QED
      BY <2>1, <3>8 DEF CountOK, f
  <2>. QED
    BY <2>2, <2>3
<1>. QED
  BY <1>3, <1>4
-----------------------------------------------------------------------------
(***************************************************************************)
(* The times of a round.                                                   *)
(***************************************************************************)
\* A job that ends takes part in the maximum of the times.
LEMMA JobTimes ==
  ASSUME Inv, main # "Exit", NEW i \in Index, Job(i)
  PROVE  TimesOK'
<1>1. /\ TypeOK /\ TimesOK /\ i \in Spawned /\ Spawned' = Spawned /\ Spawned \subseteq Index
      /\ main' = main /\ pc[i] # "None" /\ pc'[i] # "None"
      /\ \A j \in Index : j # i => pc'[j] = pc[j]
  <2>1. pc[i] # "None" /\ UNCHANGED mainVars
    BY JobFrame
  <2>2. TypeOK /\ PhasesOK /\ InRound /\ TimesOK /\ i \in Spawned
    BY <2>1, JobRuns DEF Inv, RoundInv
  <2>. QED
    BY <2>1, <2>2, JobFrame, RoundThreads DEF mainVars, Spawned
<1>2. CASE Finish(i)
  <2>1. PICK d \in 0 .. MaxTime :
          /\ execution_time' = [execution_time EXCEPT ![i] = d]
          /\ longest' = IF longest < d THEN d ELSE longest
    BY <1>2 DEF Finish
  <2>2. /\ execution_time'[i] = d
        /\ \A j \in Index : j # i => execution_time'[j] = execution_time[j]
        /\ longest \in Nat
    BY <1>1, <2>1 DEF TypeOK
  <2>3. d <= longest' /\ longest <= longest' /\ (longest' = d \/ longest' = longest)
    BY <2>1, <2>2
  <2>4. pc[i] = "Pop" /\ pc'[i] = "Done"
    BY <1>1, <1>2 DEF Finish, Goto, TypeOK
  <2>5. Ended' = Ended \cup {i} /\ i \notin Ended
    BY <1>1, <2>4 DEF Ended, Joined
  <2>6. \A j \in Ended' : execution_time'[j] <= longest'
    <3> SUFFICES ASSUME NEW j \in Ended' PROVE execution_time'[j] <= longest'
      OBVIOUS
    <3>1. CASE j = i
      BY <2>2, <2>3, <3>1
    <3>2. CASE j # i
      <4>1. j \in Ended /\ j \in Index
        BY <1>1, <2>5, <3>2 DEF Ended
      <4>2. execution_time'[j] = execution_time[j] /\ execution_time[j] <= longest
        BY <1>1, <2>2, <3>2, <4>1 DEF TimesOK
      <4>3. execution_time[j] \in Nat /\ longest' \in Int
        BY <1>1, <2>1, <2>2, <4>1 DEF TypeOK
      <4>. QED
        BY <2>2, <2>3, <4>2, <4>3
    <3>. QED
      BY <3>1, <3>2
  <2>7. longest' = 0 \/ \E j \in Ended' : execution_time'[j] = longest'
    <3>1. CASE longest' = d
      BY <2>2, <2>5, <3>1
    <3>2. CASE longest' = longest
      BY <1>1, <2>2, <2>5, <3>2 DEF TimesOK, Ended
    <3>. QED
      BY <2>3, <3>1, <3>2
  <2>. QED
    BY <2>6, <2>7 DEF TimesOK
<1>3. CASE ~ Finish(i)
  <2>1. /\ UNCHANGED <<execution_time, longest>>
        /\ pc[i] # "Done" /\ pc'[i] # "Done"
    BY <1>1, <1>3 DEF Job, Push, PushValue, AllPushed, PushedEnough, Pop, PopNothing,
                      MissUpTo, Log, Goto, TypeOK, history
  <2>2. Ended' = Ended
    BY <1>1, <2>1 DEF Ended, Joined
  <2>. QED
    BY <1>1, <2>1, <2>2 DEF TimesOK
<1>. QED
  BY <1>2, <1>3

LEMMA MainTimes ==
  ASSUME Inv, Rounds, InRound'
  PROVE  TimesOK'
<1>1. TypeOK /\ PhasesOK
  BY DEF Inv, RoundInv
<1>2. CASE InitStack
  <2>1. \A i \in Index : pc'[i] = "None"
    BY <1>1, <1>2 DEF InitStack, PhasesOK
  <2>2. Spawned \subseteq Index /\ Spawned' = Spawned /\ main' = "Prefill" /\ longest' = 0
    BY <1>1, <1>2, RoundThreads DEF InitStack, Spawned
  <2>3. Ended' = {}
    BY <2>1, <2>2 DEF Ended, Joined
  <2>. QED
    BY <2>2, <2>3 DEF TimesOK
<1>3. CASE ~ InitStack
  <2>1. /\ InRound /\ main # "Printout"
        /\ UNCHANGED <<num_threads, longest, execution_time>>
    BY <1>3 DEF Rounds, InitHalfway, Prefill, Prefilled, Spawn, AllSpawned, Join,
                AllJoined, Printout, Fail, InRound, history
  <2>2. TimesOK /\ Spawned' = Spawned /\ Spawned \subseteq Index
        /\ num_threads \in Nat
    BY <1>1, <2>1, RoundThreads DEF Inv, RoundInv, Spawned
  <2>3. Ended' = Ended
    <3> SUFFICES ASSUME NEW i \in Spawned
                 PROVE  (pc'[i] = "Done" \/ Joined(i)') <=> (pc[i] = "Done" \/ Joined(i))
      BY <2>2 DEF Ended
    <3>1. i \in Index /\ i \in Nat /\ i < num_threads
      BY <2>2 DEF Spawned
    <3>2. CASE Prefill \/ Prefilled
      BY <1>1, <3>1, <3>2 DEF Prefill, Prefilled, PhasesOK, Joined
    <3>3. CASE Spawn
      BY <1>1, <3>1, <3>3 DEF Spawn, PhasesOK, TypeOK, Joined
    <3>4. CASE AllSpawned
      BY <1>1, <2>2, <3>1, <3>4 DEF AllSpawned, PhasesOK, Joined
    <3>5. CASE Join
      BY <1>1, <3>1, <3>5 DEF Join, PhasesOK, TypeOK, Joined
    <3>6. CASE AllJoined
      BY <3>6 DEF AllJoined, Joined
    <3>. QED
      BY <1>3, <3>2, <3>3, <3>4, <3>5, <3>6
      DEF Rounds, InitHalfway, Printout, Fail, InRound
  <2>. QED
    BY <2>1, <2>2, <2>3 DEF TimesOK
<1>. QED
  BY <1>2, <1>3
-----------------------------------------------------------------------------
(***************************************************************************)
(* The values of a checked round.                                          *)
(***************************************************************************)
Size == num_threads * NumToPush

\* The values that are tried have a place in the part of the log that is checked.
LEMMA TriedPlaces ==
  ASSUME TypeOK, PhasesOK, InRound
  PROVE  /\ Size \in Nat /\ 0 .. Size - 1 \subseteq Logged /\ Tried \subseteq 0 .. Size - 1
         /\ pop_log \in [Logged -> Nat]
<1>1. /\ num_threads \in 1 .. MaxThreads /\ Spawned \subseteq Index
      /\ NumToPush \in Nat /\ MaxThreads \in Nat
  BY RoundThreads, Parameters, ThreadsAssumption
<1>2. Size \in Nat /\ 0 .. Size - 1 \subseteq Logged
  <2>1. NumToPush * (MaxThreads - num_threads) \in Nat
    BY <1>1
  <2>2. NumToPush * MaxThreads = Size + NumToPush * (MaxThreads - num_threads)
    BY <1>1 DEF Size
  <2>3. Size \in Nat
    BY <1>1 DEF Size
  <2>. QED
    BY <2>1, <2>2, <2>3 DEF Logged
<1>3. ASSUME NEW v \in Tried PROVE v \in 0 .. Size - 1
  <2>1. PICK i \in Spawned, c \in Nat :
            c \in 0 .. Pushes(i) - 1 /\ v = NumToPush * i + c
    BY DEF Tried
  <2>2. i \in Index /\ Pushes(i) \in 0 .. NumToPush
    BY <1>1, CallsType
  <2>3. i \in 0 .. num_threads - 1 /\ c \in 0 .. NumToPush - 1
    BY <1>1, <2>1, <2>2 DEF Spawned
  <2>. QED
    BY <1>1, <2>1, <2>3, NextValue DEF Size
<1>. QED
  BY <1>2, <1>3 DEF TypeOK

\* The values are where they were, if the stack, the log and the hands are.
LEMMA ValuesKeep ==
  ASSUME ValuesOK, UNCHANGED <<stk, pop_log, num_threads, NumToPush>>,
         Logging' = Logging, \A j \in Logging : out'[j] = out[j], Tried \subseteq Tried'
  PROVE  ValuesOK'
BY DEF ValuesOK

\* The values tried are tried for ever, and with a push one more.
LEMMA TriedGrows ==
  ASSUME Inv, main # "Exit", NEW i \in Index, Job(i)
  PROVE  /\ Tried \subseteq Tried'
         /\ Push(i) => NumToPush * i + count[i] \in Tried' \ Tried
<1>1. /\ TypeOK /\ PhasesOK /\ InRound /\ num_threads \in 1 .. MaxThreads /\ i \in Spawned
      /\ Spawned \subseteq Index /\ Spawned' = Spawned
      /\ NumToPush' = NumToPush /\ Logged' = Logged /\ NumToPush \in Nat
  <2>1. pc[i] # "None" /\ UNCHANGED mainVars /\ TypeOK /\ PhasesOK
    BY JobFrame DEF Inv, RoundInv
  <2>. QED
    BY <2>1, JobRuns, RoundThreads, Parameters DEF mainVars, Spawned, NumToPush, Logged
<1>2. \A j \in Spawned : Pushes(j) \in Nat /\ Pushes(j) <= NumToPush
  BY <1>1, CallsType
<1>3. \A j \in Spawned : Pushes(j)' = Pushes(j) \/ Pushes(j)' = Pushes(j) + 1
  BY <1>1, JobCalls DEF Job
<1>4. Tried \subseteq Tried'
  <2>1. ASSUME NEW v \in Tried PROVE v \in Tried'
    <3>1. PICK j \in Spawned, c \in Nat :
            c \in 0 .. Pushes(j) - 1 /\ v = NumToPush * j + c
      BY DEF Tried
    <3>2. c \in 0 .. Pushes(j)' - 1
      BY <1>2, <1>3, <3>1
    <3>. QED
      BY <1>1, <3>1, <3>2 DEF Tried
  <2>. QED
    BY <2>1
<1>5. ASSUME Push(i) PROVE NumToPush * i + count[i] \in Tried' \ Tried
  <2>1. /\ count[i] = Pushes(i) /\ Pushes(i) < NumToPush /\ Pushes(i)' = Pushes(i) + 1
        /\ Pushes(i) \in Nat
    BY <1>1, <1>2, <1>5, JobCalls
  <2>2. count[i] \in 0 .. NumToPush - 1 /\ count[i] \in 0 .. Pushes(i)' - 1
    BY <1>1, <2>1
  <2>3. NumToPush * i + count[i] \in Logged
    BY <1>1, <2>2, NextValue DEF Spawned
  <2>4. NumToPush * i + count[i] \in Tried'
    BY <1>1, <2>2, <2>3 DEF Tried
  <2>5. ASSUME NumToPush * i + count[i] \in Tried PROVE FALSE
    <3>1. PICK j \in Spawned, c \in Nat :
            c \in 0 .. Pushes(j) - 1 /\ NumToPush * i + count[i] = NumToPush * j + c
      BY <2>5 DEF Tried
    <3>2. c \in 0 .. NumToPush - 1 /\ i \in Nat /\ j \in Nat
      BY <1>1, <1>2, <3>1 DEF Spawned
    <3>3. i = j /\ count[i] = c
      BY <1>1, <2>2, <3>1, <3>2, RowUnique
    <3>. QED
      BY <1>2, <2>1, <3>1, <3>3
  <2>. QED
    BY <2>4, <2>5
<1>. QED
  BY <1>4, <1>5

LEMMA JobValues ==
  ASSUME Inv, main # "Exit", NEW i \in Index, Job(i), Check
  PROVE  ValuesOK'
<1>1. /\ TypeOK /\ PhasesOK /\ InRound /\ ValuesOK
      /\ UNCHANGED <<num_threads, NumToPush>> /\ Size' = Size
      /\ \A j \in Index : j # i => pc'[j] = pc[j]
  <2>1. pc[i] # "None" /\ UNCHANGED mainVars /\ TypeOK /\ PhasesOK
    BY JobFrame DEF Inv, RoundInv
  <2>2. InRound
    BY <2>1, JobRuns
  <2>. QED
    BY <2>1, <2>2, JobFrame DEF mainVars, NumToPush, Size, Inv, RoundInv
<1>2. /\ Tried \subseteq Tried' /\ Tried \subseteq 0 .. Size - 1 /\ Size \in Nat
      /\ 0 .. Size - 1 \subseteq Logged /\ pop_log \in [Logged -> Nat]
  BY <1>1, TriedGrows, TriedPlaces
<1>3. /\ stk \in Seq(Nat) /\ Len(stk) \in Nat
      /\ out \in [Index \cup {Main} -> Stack!Outcome]
  <2>1. 0 .. NumToPush * MaxThreads + NumToPop \subseteq Nat
    BY <1>1, Parameters, ThreadsAssumption
  <2>2. stk \in Seq(Nat)
    BY <1>1, <2>1, SeqMonotonic DEF TypeOK
  <2>. QED
    BY <1>1, <2>2, LenProperties DEF TypeOK
<1>4. CASE Push(i)
  <2> DEFINE v == NumToPush * i + count[i]
  <2>1. UNCHANGED <<pop_log, out>> /\ Logging' = Logging
    BY <1>1, <1>4 DEF Push, PushValue, Goto, CallPush, Stack!Push, Logging, TypeOK
  <2>2. CASE stk' = stk
    BY <1>1, <1>2, <2>1, <2>2, ValuesKeep
  <2>3. CASE stk' = <<v>> \o stk
    <3>1. v \in Tried' /\ v \notin Tried /\ v \in Nat /\ v \in 0 .. Size - 1
      <4>1. v \in Tried' \ Tried
        BY <1>4, TriedGrows
      <4>2. num_threads \in 1 .. MaxThreads /\ i \in 0 .. num_threads - 1
        BY <1>4, <1>1, JobRuns DEF Push, PushValue, Goto, Spawned
      <4>3. count[i] \in 0 .. NumToPush - 1
        BY <1>1, <1>4, Parameters DEF Push, PushValue, TypeOK
      <4>4. v \in 0 .. Size - 1
        BY <1>1, <4>2, <4>3, NextValue DEF Size
      <4>. QED
        BY <4>1, <4>4
    <3> HIDE DEF v
    <3>2. /\ Len(stk') = Len(stk) + 1 /\ stk'[1] = v
          /\ \A k \in 2 .. Len(stk) + 1 : stk'[k] = stk[k - 1]
      BY <1>3, <2>3, <3>1, PushSeq
    <3>3. \A k \in 1 .. Len(stk') : (k = 1 /\ stk'[k] = v)
                \/ (k \in 2 .. Len(stk) + 1 /\ k - 1 \in 1 .. Len(stk) /\ stk'[k] = stk[k - 1])
      BY <1>3, <3>2
    <3>4. pop_log[v] = 0
      BY <1>1, <3>1 DEF ValuesOK, Size
    <3>5. /\ \A k \in 1 .. Len(stk) : stk[k] \in Tried /\ pop_log[stk[k]] = 0
          /\ \A k, l \in 1 .. Len(stk) : stk[k] = stk[l] => k = l
          /\ \A j \in Logging : out[j] \in Tried /\ pop_log[out[j]] = 0
          /\ \A j \in Logging : \A k \in 1 .. Len(stk) : stk[k] # out[j]
      BY <1>1 DEF ValuesOK
    <3>6. \A k \in 1 .. Len(stk') : stk'[k] \in Tried' /\ pop_log[stk'[k]] = 0
      <4> SUFFICES ASSUME NEW k \in 1 .. Len(stk')
                   PROVE  stk'[k] \in Tried' /\ pop_log[stk'[k]] = 0
        OBVIOUS
      <4>1. CASE stk'[k] = v
        BY <3>1, <3>4, <4>1
      <4>2. CASE k - 1 \in 1 .. Len(stk) /\ stk'[k] = stk[k - 1]
        <5>1. stk[k - 1] \in Tried /\ pop_log[stk[k - 1]] = 0
          BY <3>5, <4>2
        <5>. QED
          BY <1>2, <4>2, <5>1
      <4>. QED
        BY <3>3, <4>1, <4>2
    <3>7. \A k, l \in 1 .. Len(stk') : stk'[k] = stk'[l] => k = l
      <4> SUFFICES ASSUME NEW k \in 1 .. Len(stk'), NEW l \in 1 .. Len(stk'),
                          stk'[k] = stk'[l]
                   PROVE  k = l
        OBVIOUS
      <4>1. CASE k = 1
        BY <3>1, <3>3, <3>5, <4>1
      <4>2. CASE l = 1
        BY <3>1, <3>3, <3>5, <4>2
      <4>3. CASE k # 1 /\ l # 1
        <5>1. k - 1 = l - 1
          BY <3>3, <3>5, <4>3
        <5>. QED
          BY <1>3, <3>2, <5>1
      <4>. QED
        BY <4>1, <4>2, <4>3
    <3>8. \A j \in Logging : \A k \in 1 .. Len(stk') : stk'[k] # out[j]
      BY <3>1, <3>3, <3>5
    <3>. QED
      BY <1>1, <1>2, <2>1, <3>6, <3>7, <3>8 DEF ValuesOK
  <2>. QED
    BY <1>4, <2>2, <2>3 DEF Push, PushValue, CallPush, Stack!Push
<1>5. CASE Pop(i)
  <2>1. /\ Logging' = Logging \cup {i} /\ i \notin Logging /\ pop_log' = pop_log
        /\ stk # <<>> /\ stk' = Tail(stk) /\ out'[i] = Head(stk)
        /\ \A j \in Logging : out'[j] = out[j]
    <3>1. pc[i] = "Pop" /\ pc'[i] = "Log" /\ pop_log' = pop_log /\ CallPop(i)
      BY <1>1, <1>5 DEF Pop, Goto, TypeOK
    <3>2. Logging' = Logging \cup {i} /\ i \notin Logging
      BY <1>1, <3>1 DEF Logging
    <3>. QED
      BY <1>3, <3>1, <3>2 DEF CallPop, Stack!Pop, Logging
  <2>2. /\ Len(stk) \in Nat \ {0} /\ Len(stk') = Len(stk) - 1 /\ out'[i] = stk[1]
        /\ \A k \in 1 .. Len(stk) - 1 : stk'[k] = stk[k + 1]
    BY <1>3, <2>1, PopSeq
  <2>3. \A k \in 1 .. Len(stk') : stk'[k] = stk[k + 1] /\ k + 1 \in 1 .. Len(stk) /\ k + 1 # 1
    BY <2>2
  <2>4. 1 \in 1 .. Len(stk)
    BY <2>2
  <2>5. /\ \A k \in 1 .. Len(stk) : stk[k] \in Tried /\ pop_log[stk[k]] = 0
        /\ \A k, l \in 1 .. Len(stk) : stk[k] = stk[l] => k = l
        /\ \A j \in Logging : out[j] \in Tried /\ pop_log[out[j]] = 0
        /\ \A j, k \in Logging : out[j] = out[k] => j = k
        /\ \A j \in Logging : \A k \in 1 .. Len(stk) : stk[k] # out[j]
    BY <1>1 DEF ValuesOK
  <2>6. \A k \in 1 .. Len(stk') : stk'[k] \in Tried' /\ pop_log[stk'[k]] = 0
    <3> SUFFICES ASSUME NEW k \in 1 .. Len(stk')
                 PROVE  stk'[k] \in Tried' /\ pop_log[stk'[k]] = 0
      OBVIOUS
    <3>1. stk'[k] = stk[k + 1] /\ k + 1 \in 1 .. Len(stk)
      BY <2>3
    <3>2. stk[k + 1] \in Tried /\ pop_log[stk[k + 1]] = 0
      BY <2>5, <3>1
    <3>. QED
      BY <1>2, <3>1, <3>2
  <2>7. \A k, l \in 1 .. Len(stk') : stk'[k] = stk'[l] => k = l
    <3> SUFFICES ASSUME NEW k \in 1 .. Len(stk'), NEW l \in 1 .. Len(stk'),
                        stk'[k] = stk'[l]
                 PROVE  k = l
      OBVIOUS
    <3>1. k + 1 = l + 1
      BY <2>3, <2>5
    <3>. QED
      BY <2>2, <3>1
  <2>8. \A j \in Logging' : out'[j] \in Tried' /\ pop_log[out'[j]] = 0
    <3> SUFFICES ASSUME NEW j \in Logging'
                 PROVE  out'[j] \in Tried' /\ pop_log[out'[j]] = 0
      OBVIOUS
    <3>1. CASE j = i
      <4>1. stk[1] \in Tried /\ pop_log[stk[1]] = 0
        BY <2>4, <2>5
      <4>. QED
        BY <1>2, <2>2, <3>1, <4>1
    <3>2. CASE j \in Logging
      <4>1. out[j] \in Tried /\ pop_log[out[j]] = 0
        BY <2>5, <3>2
      <4>. QED
        BY <1>2, <2>1, <3>2, <4>1
    <3>. QED
      BY <2>1, <3>1, <3>2
  <2>9. \A j, k \in Logging' : out'[j] = out'[k] => j = k
    BY <2>1, <2>2, <2>4, <2>5
  <2>10. \A j \in Logging' : \A k \in 1 .. Len(stk') : stk'[k] # out'[j]
    BY <2>1, <2>2, <2>3, <2>4, <2>5
  <2>. QED
    BY <1>1, <1>2, <2>1, <2>6, <2>7, <2>8, <2>9, <2>10 DEF ValuesOK
<1>6. CASE Log(i)
  <2>1. /\ Logging' = Logging \ {i} /\ i \in Logging /\ UNCHANGED <<stk, out>>
        /\ pop_log' = [pop_log EXCEPT ![out[i]] = @ + 1]
    BY <1>1, <1>6 DEF Log, Goto, Logging, TypeOK
  <2>2. out[i] \in Tried /\ pop_log[out[i]] = 0 /\ out[i] \in Logged
    BY <1>1, <1>2, <2>1 DEF ValuesOK
  <2>3. /\ pop_log'[out[i]] = 1
        /\ \A v \in Logged : v # out[i] => pop_log'[v] = pop_log[v]
    BY <1>2, <2>1, <2>2
  <2>4. \A k \in 1 .. Len(stk) : stk[k] \in Logged /\ stk[k] # out[i]
    BY <1>1, <1>2, <2>1 DEF ValuesOK
  <2>5. \A j \in Logging' : out[j] \in Logged /\ out[j] # out[i]
    BY <1>1, <1>2, <2>1 DEF ValuesOK
  <2>6. \A v \in 0 .. Size - 1 : pop_log'[v] = 0 \/ (pop_log'[v] = 1 /\ v \in Tried')
    BY <1>1, <1>2, <2>2, <2>3 DEF ValuesOK, Size
  <2>7. /\ \A k \in 1 .. Len(stk) : stk[k] \in Tried /\ pop_log[stk[k]] = 0
        /\ \A k, l \in 1 .. Len(stk) : stk[k] = stk[l] => k = l
        /\ \A j \in Logging : out[j] \in Tried /\ pop_log[out[j]] = 0
        /\ \A j, k \in Logging : out[j] = out[k] => j = k
        /\ \A j \in Logging : \A k \in 1 .. Len(stk) : stk[k] # out[j]
    BY <1>1 DEF ValuesOK
  <2>8. \A k \in 1 .. Len(stk) : stk[k] \in Tried' /\ pop_log'[stk[k]] = 0
    <3> SUFFICES ASSUME NEW k \in 1 .. Len(stk)
                 PROVE  stk[k] \in Tried' /\ pop_log'[stk[k]] = 0
      OBVIOUS
    <3>1. stk[k] \in Tried /\ pop_log[stk[k]] = 0
      BY <2>7
    <3>2. pop_log'[stk[k]] = pop_log[stk[k]]
      BY <2>3, <2>4
    <3>. QED
      BY <1>2, <3>1, <3>2
  <2>9. \A j \in Logging' : out[j] \in Tried' /\ pop_log'[out[j]] = 0
    <3> SUFFICES ASSUME NEW j \in Logging'
                 PROVE  out[j] \in Tried' /\ pop_log'[out[j]] = 0
      OBVIOUS
    <3>1. out[j] \in Tried /\ pop_log[out[j]] = 0
      BY <2>1, <2>7
    <3>2. pop_log'[out[j]] = pop_log[out[j]]
      BY <2>3, <2>5
    <3>. QED
      BY <1>2, <3>1, <3>2
  <2>. QED
    BY <1>1, <2>1, <2>6, <2>7, <2>8, <2>9 DEF ValuesOK, Size
<1>7. CASE AllPushed(i) \/ PopNothing(i) \/ Finish(i)
  <2>1. Logging' = Logging /\ i \notin Logging /\ UNCHANGED <<stk, pop_log>>
    BY <1>1, <1>7 DEF AllPushed, PushedEnough, PopNothing, MissUpTo, Finish, CallPopFails,
                      Stack!PopEmpty, Goto, Logging, TypeOK
  <2>2. \A j \in Logging : out'[j] = out[j]
    BY <1>3, <1>7, <2>1 DEF AllPushed, PushedEnough, PopNothing, MissUpTo, Finish,
                            CallPopFails, Stack!PopEmpty, Logging
  <2>. QED
    BY <1>1, <1>2, <2>1, <2>2, ValuesKeep
<1>. QED
  BY <1>4, <1>5, <1>6, <1>7 DEF Job

\* What the jobs have settled is a sum over the threads of the round, as the log is
\* over its places.
RoundTyping ==
  /\ num_threads \in 1 .. MaxThreads /\ Spawned \subseteq Index
  /\ Size \in Nat /\ 0 .. Size - 1 \subseteq Logged
  /\ [j \in Spawned |-> Settled(j)] \in [0 .. num_threads - 1 -> Int]
  /\ [v \in 0 .. Size - 1 |-> pop_log[v]] \in [0 .. Size - 1 -> Int]

LEMMA LogType == TypeOK /\ PhasesOK /\ InRound => RoundTyping
<1> SUFFICES ASSUME TypeOK, PhasesOK, InRound PROVE RoundTyping
  OBVIOUS
<1>1. ASSUME NEW i \in Spawned PROVE Settled(i) \in Int
  <2>1. i \in Index /\ NumToPop \in Nat
    BY RoundThreads, Parameters
  <2>. QED
    BY <2>1, CallsType DEF Settled
<1>2. [j \in Spawned |-> Settled(j)] \in [0 .. num_threads - 1 -> Int]
  BY <1>1 DEF Spawned
<1>3. [v \in 0 .. Size - 1 |-> pop_log[v]] \in [0 .. Size - 1 -> Int]
  BY TriedPlaces
<1>. QED
  BY <1>2, <1>3, RoundThreads, TriedPlaces DEF RoundTyping

\* The main thread has nothing to do with the hands of the jobs.
LEMMA MainHands ==
  ASSUME Inv, Rounds
  PROVE  Logging' = Logging
<1>1. TypeOK /\ PhasesOK
  BY DEF Inv, RoundInv
<1>2. \A j \in Index : \/ pc'[j] = pc[j]
                       \/ pc[j] \in {"None", "Done"} /\ pc'[j] \in {"None", "Push"}
  <2>1. CASE Spawn
    <3>1. thread_i \in Index => pc[thread_i] = "None"
      BY <1>1, <2>1 DEF Spawn, PhasesOK, TypeOK
    <3>. QED
      BY <1>1, <2>1, <3>1 DEF Spawn, TypeOK
  <2>2. CASE Join
    BY <1>1, <2>2 DEF Join, TypeOK
  <2>3. CASE ~ Spawn /\ ~ Join
    BY <2>3 DEF Rounds, InitStack, InitHalfway, Prefill, Prefilled, AllSpawned, AllJoined,
                Printout, Fail
  <2>. QED
    BY <2>1, <2>2, <2>3
<1>. QED
  BY <1>2 DEF Logging

\* The main thread starts a checked round with an empty stack and a clear log, and
\* pushes nothing itself.
LEMMA MainValues ==
  ASSUME Inv, TypeOK', PhasesOK', Rounds, args' = args, InRound', Check
  PROVE  ValuesOK'
<1>1. /\ TypeOK /\ PhasesOK /\ NumToPush' = NumToPush /\ NumToPush = NumToPop
      /\ NumToPush \in Nat /\ Logged' = Logged
  BY Parameters DEF Inv, RoundInv, NumToPush, Logged
<1>2. CASE InitStack
  <2>1. /\ stk' = <<>> /\ num_threads' = num_threads /\ Size' = Size
        /\ \A i \in Index : pc'[i] = "None"
    BY <1>1, <1>2 DEF InitStack, Stack!Renew, PhasesOK, Size
  <2>2. Len(stk') = 0 /\ Logging' = {}
    BY <2>1, EmptySeq DEF Logging
  <2>3. num_threads \in Nat /\ 0 .. Size - 1 \subseteq Logged
    <3>1. RoundTyping'
      BY LogType, PTL
    <3>. QED
      BY <1>1, <2>1, <3>1, ThreadsAssumption DEF RoundTyping
  <2>4. ASSUME NEW v \in 0 .. Size - 1 PROVE pop_log'[v] = 0
    <3>1. v \in Logged /\ v < NumToPush * num_threads
      BY <1>1, <2>3 DEF Size
    <3>. QED
      BY <1>2, <3>1 DEF InitStack
  <2>. QED
    BY <1>1, <2>1, <2>2, <2>4 DEF ValuesOK, Size
<1>3. CASE ~ InitStack
  <2>1. /\ InRound /\ \A i \in Spawned : Pushes(i)' = Pushes(i)
    BY <1>3, MainCalls
  <2>2. ~ Prefill
    BY <1>1 DEF Prefill, TypeOK
  <2>3. UNCHANGED <<stk, out, pop_log, num_threads>>
    BY <1>3, <2>2 DEF Rounds, InitHalfway, Prefilled, Spawn, AllSpawned, Join, AllJoined,
                      Printout, Fail, InRound
  <2>4. Logging' = Logging
    BY MainHands
  <2>5. Tried' = Tried
    BY <1>1, <2>1, <2>3 DEF Tried, Spawned
  <2>. QED
    BY <1>1, <2>1, <2>3, <2>4, <2>5, ValuesKeep DEF Inv, RoundInv
<1>. QED
  BY <1>2, <1>3

\* A pop is settled when it is logged, or finds nothing.
LEMMA JobLog ==
  ASSUME Inv, TypeOK', PhasesOK', main # "Exit", NEW i \in Index, Job(i), Check
  PROVE  LogOK'
<1> DEFINE f == [v \in 0 .. Size - 1 |-> pop_log[v]]
           g == [j \in Spawned |-> Settled(j)]
           d == Settled(i)' - Settled(i)
<1>1. /\ TypeOK /\ PhasesOK /\ InRound /\ InRound' /\ LogOK /\ ValuesOK
      /\ num_threads \in Nat /\ i \in Spawned /\ Spawned' = Spawned /\ Size' = Size
      /\ num_threads' = num_threads /\ Spawned \subseteq Index
      /\ \A j \in Index : j # i => pc'[j] = pc[j]
  <2>1. pc[i] # "None" /\ UNCHANGED mainVars
    BY JobFrame
  <2>2. InRound /\ num_threads \in 1 .. MaxThreads /\ i \in Spawned
    BY <2>1, JobRuns
  <2>. QED
    BY <2>1, <2>2, JobFrame, RoundThreads
    DEF mainVars, Inv, RoundInv, InRound, Spawned, Size, NumToPush
<1>2. /\ f \in [0 .. Size - 1 -> Int] /\ f' \in [0 .. Size' - 1 -> Int]
      /\ g \in [0 .. num_threads - 1 -> Int] /\ g' \in [0 .. num_threads' - 1 -> Int]
      /\ Size \in Nat
  <2>1. RoundTyping /\ RoundTyping'
    BY <1>1, LogType, PTL
  <2>. QED
    BY <2>1 DEF RoundTyping
<1>3. \A j \in Spawned : j # i => Settled(j)' = Settled(j)
  BY <1>1, JobCalls DEF Settled, Logging
<1>4. /\ Settled(i) \in Int /\ Settled(i)' \in Int /\ Pops(i) \in Int /\ Pops(i)' \in Int
  <2>1. NumToPop \in Nat /\ Pops(i) \in 0 .. NumToPop
    BY <1>1, Parameters, CallsType
  <2>2. Pops(i)' = Pops(i) \/ Pops(i)' = Pops(i) + 1
    BY JobCalls DEF Job
  <2>. QED
    BY <2>1, <2>2 DEF Settled
<1>5. d \in Int /\ i \in 0 .. num_threads - 1 /\ g'[i] = g[i] + d
      /\ \A j \in 0 .. num_threads - 1 : j # i => g'[j] = g[j]
  BY <1>1, <1>3, <1>4 DEF Spawned
<1>6. Total(f, Size) + missed = Total(g, num_threads)
  BY <1>1 DEF LogOK, Size
<1> HIDE DEF f, g, d
<1>7. /\ Total(g', num_threads) = Total(g, num_threads) + d
      /\ Total(g, num_threads) \in Int /\ Total(f, Size) \in Int /\ missed \in Int
  <2>1. missed \in Int
    BY <1>1 DEF TypeOK
  <2>2. g' \in [0 .. num_threads - 1 -> Int]
    BY <1>1, <1>2
  <2>3. Total(g', num_threads) = Total(g, num_threads) + d
    BY <1>1, <1>2, <1>5, <2>2, TotalUpdate
  <2>. QED
    BY <1>1, <1>2, <2>1, <2>3, TotalType
<1>8. Total(f', Size) + missed' = Total(f, Size) + missed + d
  <2>1. CASE Log(i)
    <3>1. /\ out[i] \in Tried /\ missed' = missed /\ i \in Logging /\ i \notin Logging'
          /\ pop_log' = [pop_log EXCEPT ![out[i]] = @ + 1]
      BY <1>1, <2>1, HandLogged DEF Log, Goto, Logging, TypeOK, history
    <3>2. d = 1
      BY <1>4, <2>1, <3>1, JobCalls DEF d, Settled
    <3>3. /\ out[i] \in 0 .. Size - 1 /\ pop_log \in [Logged -> Nat]
          /\ 0 .. Size - 1 \subseteq Logged
      BY <1>1, <3>1, TriedPlaces
    <3>4. /\ f'[out[i]] = f[out[i]] + 1
          /\ \A v \in 0 .. Size - 1 : v # out[i] => f'[v] = f[v]
      BY <1>1, <3>1, <3>3 DEF f
    <3>5. Total(f', Size) = Total(f, Size) + 1
      <4>1. f' \in [0 .. Size - 1 -> Int] /\ 1 \in Int
        BY <1>1, <1>2
      <4>. QED
        BY <1>2, <3>3, <3>4, <4>1, TotalUpdate
    <3>. QED
      BY <1>7, <3>1, <3>2, <3>5
  <2>2. CASE ~ Log(i)
    <3>1. f' = f
      BY <1>1, <2>2 DEF f, Job, Push, PushValue, AllPushed, PushedEnough, Pop, PopNothing,
                        MissUpTo, Finish
    <3>2. missed' = missed + d
      <4>1. CASE PopNothing(i)
        <5>1. missed' = missed + 1 /\ i \notin Logging /\ i \notin Logging'
          BY <1>1, <4>1 DEF PopNothing, MissUpTo, Goto, Logging, TypeOK
        <5>. QED
          BY <1>4, <4>1, <5>1, JobCalls DEF d, Settled
      <4>2. CASE Pop(i)
        <5>1. missed' = missed /\ i \notin Logging /\ i \in Logging'
          BY <1>1, <4>2 DEF Pop, Goto, Logging, TypeOK, history
        <5>. QED
          BY <1>4, <1>7, <4>2, <5>1, JobCalls DEF d, Settled
      <4>3. CASE Push(i) \/ AllPushed(i) \/ Finish(i)
        <5>1. missed' = missed /\ i \notin Logging /\ i \notin Logging'
          BY <1>1, <4>3 DEF Push, PushValue, AllPushed, PushedEnough, Finish, Goto,
                            Logging, TypeOK, history
        <5>2. Pops(i)' = Pops(i)
          BY <4>3, JobCalls
        <5>. QED
          BY <1>4, <1>7, <5>1, <5>2 DEF d, Settled
      <4>. QED
        BY <2>2, <4>1, <4>2, <4>3 DEF Job
    <3>. QED
      BY <1>5, <1>7, <3>1, <3>2
  <2>. QED
    BY <2>1, <2>2
<1>9. Total(f', Size') + missed' = Total(g', num_threads')
  BY <1>1, <1>6, <1>7, <1>8
<1>. QED
  BY <1>9 DEF LogOK, Size, f, g

LEMMA MainLog ==
  ASSUME Inv, TypeOK', PhasesOK', ValuesOK', Rounds, args' = args, InRound', Check
  PROVE  LogOK'
<1> DEFINE f == [v \in 0 .. Size - 1 |-> pop_log[v]]
           g == [j \in Spawned |-> Settled(j)]
<1>1. /\ TypeOK /\ PhasesOK /\ NumToPush' = NumToPush
      /\ NumToPush = NumToPop /\ NumToPush \in Nat
  BY Parameters DEF Inv, RoundInv, NumToPush
<1>2. num_threads' = num_threads /\ Spawned' = Spawned /\ Size' = Size
  <2>1. num_threads' = num_threads
    BY DEF Rounds, InitStack, InitHalfway, Prefill, Prefilled, Spawn, AllSpawned, Join,
           AllJoined, Printout, Fail, InRound
  <2>. QED
    BY <1>1, <2>1 DEF Spawned, Size
<1>3. /\ f' \in [0 .. Size' - 1 -> Int] /\ g' \in [0 .. num_threads' - 1 -> Int]
      /\ Size' \in Nat /\ num_threads' \in 1 .. MaxThreads
  <2>1. RoundTyping'
    BY LogType, PTL
  <2>. QED
    BY <2>1 DEF RoundTyping
<1>4. num_threads \in Nat /\ Size \in Nat
  BY <1>2, <1>3, ThreadsAssumption
<1>5. CASE InitStack
  <2>1. Logging' = {} /\ missed' = 0
    BY <1>1, <1>5 DEF InitStack, PhasesOK, Logging
  <2>2. \A j \in 0 .. num_threads - 1 : g'[j] = 0
    <3>1. Spawned \subseteq Index
      BY <1>1, <1>5, RoundThreads DEF InitStack
    <3>2. \A j \in Index : Pops(j)' = 0
      BY <1>5, MainCalls DEF InitStack
    <3>. QED
      BY <1>2, <2>1, <3>1, <3>2 DEF Settled, Spawned
  <2>3. \A v \in 0 .. Size - 1 : f'[v] = 0
    <3>1. Tried' = {}
      <4>1. \A j \in Spawned' : Pushes(j)' = 0
        BY <1>1, <1>2, <1>5, MainCalls, RoundThreads DEF InitStack
      <4>. QED
        BY <4>1 DEF Tried
    <3>. QED
      BY <1>2, <3>1 DEF ValuesOK, Size
  <2> HIDE DEF f, g
  <2>4. Total(g', num_threads) = num_threads * 0
    BY <1>2, <1>3, <1>4, <2>2, TotalConstant
  <2>5. Total(f', Size) = Size * 0
    BY <1>2, <1>3, <1>4, <2>3, TotalConstant
  <2>6. Total(f', Size') + missed' = Total(g', num_threads')
    BY <1>2, <1>4, <2>1, <2>4, <2>5
  <2>. QED
    BY <2>6 DEF LogOK, Size, f, g
<1>6. CASE ~ InitStack
  <2>1. InRound /\ ~ Prefill /\ \A i \in Spawned : Pops(i)' = Pops(i)
    BY <1>1, <1>6, MainCalls DEF Prefill, TypeOK
  <2>2. UNCHANGED <<pop_log, missed>>
    BY <1>6, <2>1 DEF Rounds, InitHalfway, Prefilled, Spawn, AllSpawned, Join, AllJoined,
                      Printout, Fail, InRound, history
  <2>3. Logging' = Logging
    BY MainHands
  <2>4. f' = f /\ g' = g
    BY <1>2, <2>1, <2>2, <2>3 DEF Settled
  <2>5. Total(f, Size) + missed = Total(g, num_threads)
    BY <2>1 DEF Inv, RoundInv, LogOK, Size
  <2> HIDE DEF f, g
  <2>6. Total(f', Size') + missed' = Total(g', num_threads')
    BY <1>2, <2>2, <2>4, <2>5
  <2>. QED
    BY <2>6 DEF LogOK, Size, f, g
<1>. QED
  BY <1>5, <1>6
-----------------------------------------------------------------------------
(***************************************************************************)
(* The invariant and what follows from it.                                 *)
(***************************************************************************)
LEMMA InvStep == Inv /\ [Next]_vars => Inv'
<1> SUFFICES ASSUME Inv, [Next]_vars PROVE Inv'
  OBVIOUS
<1>1. args' = args /\ Check' = Check
  BY SameParameters
<1>2. ASSUME main # "Exit", NEW i \in Index, Job(i) PROVE Inv'
  <2>1. TypeOK' /\ PhasesOK'
    BY <1>2, JobTypes, JobPhases
  <2>2. CountOK' /\ PopsFindValues' /\ TimesOK'
    BY <1>2, <2>1, JobCount, JobTimes
  <2>3. Check => ValuesOK' /\ LogOK'
    BY <1>2, <2>1, JobValues, JobLog
  <2>. QED
    BY <1>1, <2>1, <2>2, <2>3 DEF Inv, RoundInv
<1>3. CASE Rounds
  <2>1. TypeOK' /\ PhasesOK'
    BY <1>1, <1>3, RoundTypes, RoundPhases
  <2>2. (InRound' => CountOK' /\ TimesOK') /\ PopsFindValues'
    BY <1>1, <1>3, <2>1, MainCount, MainTimes
  <2>3. InRound' /\ Check => ValuesOK' /\ LogOK'
    BY <1>1, <1>3, <2>1, MainValues, MainLog
  <2>. QED
    BY <1>1, <2>1, <2>2, <2>3 DEF Inv, RoundInv
<1>4. CASE UNCHANGED vars
  <2> USE <1>4 DEF vars, mainVars, history
  <2>1. /\ NumToPush' = NumToPush /\ NumToPop' = NumToPop /\ Check' = Check
        /\ Logged' = Logged /\ InRound' = InRound /\ Spawned' = Spawned
        /\ Logging' = Logging
    BY DEF NumToPush, NumToPop, Check, Logged, InRound, Spawned, Logging
  <2>2. \A i : Joined(i)' = Joined(i)
    BY DEF Joined
  <2>3. \A i : Pushes(i)' = Pushes(i) /\ Pops(i)' = Pops(i)
    BY <2>1, <2>2 DEF Pushes, Pops
  <2>4. TypeOK'
    BY <2>1 DEF Inv, TypeOK
  <2>5. PhasesOK' /\ PopsFindValues'
    BY <2>1 DEF Inv, RoundInv, PhasesOK, PopsFindValues
  <2>6. CountOK => CountOK'
    BY <2>1, <2>3 DEF CountOK, Balance
  <2>7. TimesOK => TimesOK'
    BY <2>1, <2>2 DEF TimesOK, Ended
  <2>8. Tried' = Tried
    BY <2>1, <2>3 DEF Tried
  <2>9. ValuesOK => ValuesOK'
    BY <2>1, <2>8, ValuesKeep
  <2>10. LogOK => LogOK'
    BY <2>1, <2>3 DEF LogOK, Settled
  <2>. QED
    BY <2>1, <2>4, <2>5, <2>6, <2>7, <2>9, <2>10 DEF Inv, RoundInv
<1>. QED
  BY <1>2, <1>3, <1>4 DEF Next

\* The values stay in their domains: no more values than the rounds can push, no
\* loop past its end, no place outside the log.
THEOREM TypeCorrect == Spec => []TypeOK
<1>1. Inv => TypeOK
  BY DEF Inv
<1>. QED
  BY <1>1, InvInit, InvStep, PTL DEF Spec

\* Whatever a round leaves in the stack, in the log and in the array of times comes
\* from its own jobs, and is complete.
THEOREM RoundInvariant == Spec => []RoundInv
<1>1. Inv => RoundInv
  BY DEF Inv
<1>. QED
  BY <1>1, InvInit, InvStep, PTL DEF Spec

\* A thread that pushes before it pops finds a value, unless a push failed.
THEOREM PopsFind == Spec => []PopsFindValues
<1>1. RoundInv => PopsFindValues
  BY DEF RoundInv
<1>. QED
  BY <1>1, RoundInvariant, PTL

\* What all the jobs of a round have done when they are joined.
LEMMA AllDone ==
  ASSUME Inv, main = "Printout"
  PROVE  /\ num_threads \in 1 .. MaxThreads /\ Spawned \subseteq Index
         /\ \A i \in Index : /\ Pushes(i) = NumToPush /\ Pops(i) = NumToPop
                             /\ pc[i] = "None" /\ i \notin Logging
         /\ CountOK /\ TimesOK /\ (Check => ValuesOK /\ LogOK)
         /\ Len(stk) + failed - missed = to_push + num_threads * (NumToPush - NumToPop)
<1> DEFINE f == [i \in Spawned |-> Balance(i)]
           c == NumToPush - NumToPop
<1>1. /\ TypeOK /\ PhasesOK /\ InRound /\ CountOK /\ TimesOK
      /\ Check => ValuesOK /\ LogOK
  BY DEF Inv, RoundInv, InRound
<1>2. num_threads \in 1 .. MaxThreads /\ Spawned \subseteq Index
  BY <1>1, RoundThreads
<1>3. \A i \in Index : /\ Pushes(i) = NumToPush /\ Pops(i) = NumToPop
                       /\ pc[i] = "None" /\ i \notin Logging
  BY <1>1 DEF PhasesOK, Pushes, Pops, Joined, Logging
<1>4. f \in [0 .. num_threads - 1 -> Int] /\ c \in Int
  BY <1>1, BalanceType, Parameters
<1>5. \A i \in 0 .. num_threads - 1 : f[i] = c
  BY <1>2, <1>3 DEF Balance, Spawned
<1>6. Len(stk) + failed - missed = to_push + Total(f, num_threads)
  BY <1>1 DEF CountOK
<1> HIDE DEF f, c
<1>7. Total(f, num_threads) = num_threads * c
  BY <1>2, <1>4, <1>5, TotalConstant
<1>. QED
  BY <1>1, <1>2, <1>3, <1>6, <1>7 DEF c

\* Every call of a round is accounted for when it is over.
THEOREM CallsAccounted == Spec => []CallsConserved
<1>1. Inv => CallsConserved
  <2> SUFFICES ASSUME Inv, main = "Printout"
               PROVE  Len(stk) + num_threads * NumToPop - missed
                        = num_threads * NumToPush + to_push - failed
    BY DEF CallsConserved
  <2>1. TypeOK
    BY DEF Inv
  <2>2. /\ Len(stk) + failed - missed = to_push + num_threads * (NumToPush - NumToPop)
        /\ num_threads \in Nat
    BY AllDone
  <2>3. NumToPush \in Nat /\ NumToPop \in Nat
    BY <2>1, Parameters
  <2>4. /\ num_threads * (NumToPush - NumToPop)
             = num_threads * NumToPush - num_threads * NumToPop
        /\ num_threads * NumToPush \in Int /\ num_threads * NumToPop \in Int
    BY <2>2, <2>3
  <2>5. Len(stk) \in Int /\ failed \in Int /\ missed \in Int /\ to_push \in Int
    BY <2>1, <2>3, LenProperties DEF TypeOK
  <2>. QED
    BY <2>2, <2>4, <2>5
<1>. QED
  BY <1>1, InvInit, InvStep, PTL DEF Spec

\* At the printout of a checked round the stack is empty, and its log is complete
\* if and only if no push failed.
LEMMA LogComplete ==
  ASSUME Inv, main = "Printout", Check
  PROVE  /\ stk = <<>>
         /\ failed = 0 <=> \A v \in 0 .. num_threads * NumToPush - 1 : pop_log[v] = 1
<1> DEFINE f == [v \in 0 .. Size - 1 |-> pop_log[v]]
           g == [j \in Spawned |-> Settled(j)]
<1>1. /\ TypeOK /\ PhasesOK /\ InRound /\ ValuesOK /\ LogOK /\ PopsFindValues
      /\ NumToPush = NumToPop /\ NumToPush \in Nat
      /\ failed \in Nat /\ missed \in Nat
  BY AllDone, Parameters DEF Inv, RoundInv, InRound, TypeOK
<1>2. RoundTyping
  BY <1>1, LogType
<1>3. /\ f \in [0 .. Size - 1 -> Int] /\ g \in [0 .. num_threads - 1 -> Int]
      /\ Size \in Nat /\ num_threads \in Nat
  BY <1>2, ThreadsAssumption DEF RoundTyping
<1>4. Len(stk) \in Nat /\ (Len(stk) = 0 => stk = <<>>)
  <2>1. Len(stk) \in Nat
    BY <1>1, LenProperties DEF TypeOK
  <2>2. stk # <<>> => Len(stk) # 0
    BY <1>1, EmptySeq DEF TypeOK
  <2>. QED
    BY <2>1, <2>2
<1>5. Len(stk) = 0 /\ missed = failed
  <2>1. Len(stk) + failed - missed = to_push + num_threads * (NumToPush - NumToPop)
    BY AllDone
  <2>2. to_push = 0 /\ num_threads * (NumToPush - NumToPop) = 0 /\ missed <= failed
    BY <1>1, <1>3 DEF PhasesOK, PopsFindValues
  <2>3. Len(stk) + failed - missed = 0
    BY <2>1, <2>2
  <2>. QED
    BY <1>1, <1>4, <2>2, <2>3
<1>6. \A j \in 0 .. num_threads - 1 : g[j] = NumToPush
  BY <1>1, AllDone DEF Settled, Spawned
<1>7. \A v \in 0 .. Size - 1 : f[v] = 0 \/ f[v] = 1
  BY <1>1 DEF ValuesOK, Size
<1>8. Total(f, Size) + missed = Total(g, num_threads)
  BY <1>1 DEF LogOK, Size
<1>9. \A v \in 0 .. Size - 1 : f[v] = pop_log[v]
  OBVIOUS
<1> HIDE DEF f, g
<1>10. Total(g, num_threads) = Size
  <2>1. Total(g, num_threads) = num_threads * NumToPush
    BY <1>1, <1>3, <1>6, TotalConstant
  <2>. QED
    BY <2>1 DEF Size
<1>11. Total(f, Size) \in Int
  BY <1>3, TotalType
<1>12. ASSUME \A v \in 0 .. Size - 1 : f[v] = 1 PROVE failed = 0
  <2>1. Total(f, Size) = Size * 1
    BY <1>3, <1>12, TotalConstant
  <2>. QED
    BY <1>1, <1>3, <1>5, <1>8, <1>10, <2>1
<1>13. ASSUME failed = 0, NEW v \in 0 .. Size - 1, f[v] # 1 PROVE FALSE
  <2> DEFINE h == [f EXCEPT ![v] = 1]
  <2>1. /\ h \in [0 .. Size - 1 -> Int] /\ h[v] = f[v] + 1
        /\ \A w \in 0 .. Size - 1 : w # v => h[w] = f[w]
    BY <1>3, <1>7, <1>13
  <2>2. \A w \in 0 .. Size - 1 : h[w] <= 1
    BY <1>3, <1>7
  <2> HIDE DEF h
  <2>3. Total(h, Size) = Total(f, Size) + 1
    <3>1. 1 \in Int /\ v \in 0 .. Size - 1
      OBVIOUS
    <3>. QED
      BY <1>3, <2>1, <3>1, TotalUpdate
  <2>4. Total(h, Size) <= Size * 1
    <3>1. 1 \in Int
      OBVIOUS
    <3>. QED
      BY <1>3, <2>1, <2>2, <3>1, TotalAtMost
  <2>. QED
    BY <1>1, <1>3, <1>5, <1>8, <1>10, <1>11, <1>13, <2>3, <2>4
<1>. QED
  BY <1>4, <1>5, <1>9, <1>12, <1>13 DEF Size

\* The main thread finds nothing else to do after a round than to print.
LEMMA OnlyPrintout ==
  ASSUME Inv, [Next]_vars, vars' # vars, main = "Printout"
  PROVE  Printout
<1>1. \A i \in Index : pc[i] = "None"
  BY DEF Inv, RoundInv, PhasesOK
<1>. QED
  BY <1>1 DEF Next, Rounds, Job, Push, PushValue, AllPushed, PushedEnough, Pop, PopNothing,
              MissUpTo, Log, Finish, Goto, InitStack, InitHalfway, Prefill, Prefilled,
              Spawn, AllSpawned, Join, AllJoined, Fail

\* The correctness test passes if and only if no push has failed, in every round.
THEOREM VerdictsRight == Spec => VerdictRight
<1> DEFINE Right == main = "Printout" /\ Check => (verdict' = "PASSED" <=> failed = 0)
<1>1. Inv /\ [Next]_vars => [Right]_vars
  <2> SUFFICES ASSUME Inv, [Next]_vars, vars' # vars, main = "Printout", Check
               PROVE  verdict' = "PASSED" <=> failed = 0
    OBVIOUS
  <2>1. CheckLog
    BY OnlyPrintout DEF Printout, PrintMaximum
  <2>2. ~ CallPop(Main)
    BY LogComplete DEF CallPop, Stack!Pop
  <2>. QED
    BY <2>1, <2>2, LogComplete DEF CheckLog
<1>. QED
  BY <1>1, InvInit, InvStep, PTL DEF Spec, VerdictRight

\* The largest time that is printed is that of a job of this round.
THEOREM LongestReported == Spec => ReportsLongest
<1> DEFINE Right == main = "Printout" /\ ~ Check => max_time' = longest
<1>1. Inv /\ [Next]_vars => [Right]_vars
  <2> SUFFICES ASSUME Inv, [Next]_vars, vars' # vars, main = "Printout", ~ Check
               PROVE  max_time' = longest
    OBVIOUS
  <2>1. PrintMaximum
    BY OnlyPrintout DEF Printout, CheckLog
  <2>2. /\ TypeOK /\ TimesOK /\ Ended = Spawned /\ num_threads \in 1 .. MaxThreads
        /\ Spawned \subseteq Index
    BY AllDone DEF Inv, Ended, Joined
  <2>3. PICK i \in Spawned : /\ max_time' = execution_time[i]
                             /\ \A j \in Spawned : execution_time[j] <= max_time'
    BY <2>1 DEF PrintMaximum, Spawned
  <2>4. (\A j \in Spawned : execution_time[j] \in Nat) /\ longest \in Nat
    BY <2>2 DEF TypeOK
  <2>5. max_time' <= longest
    BY <2>2, <2>3 DEF TimesOK
  <2>6. longest <= max_time'
    BY <2>2, <2>3, <2>4 DEF TimesOK
  <2>. QED
    BY <2>3, <2>4, <2>5, <2>6
<1>. QED
  BY <1>1, InvInit, InvStep, PTL DEF Spec, ReportsLongest
=============================================================================
