------------------------ MODULE LockBenchmarkProofs ------------------------
(***************************************************************************)
(* The benchmark of the spin locks loses no update, for any numbers of     *)
(* threads, runs, acquisitions and cycles.                                 *)
(***************************************************************************)
EXTENDS LockBenchmark, Induction

Inv == TypeOK /\ JobsInv

\* The first round starts with no job and a free lock.
LEMMA InvInit == Init => Inv
BY ThreadsAssumption, LoopsAssumption
DEF Init, Inv, TypeOK, JobsInv, PhasesOK, NeverWrong, Busy, Lock!Init, Index

\* The larger of two durations is one of them.
LEMMA LargerType ==
  ASSUME NEW a \in 0 .. MaxTime, NEW b \in 0 .. MaxTime
  PROVE  Larger(a, b) \in 0 .. MaxTime
BY DEF Larger

\* Every step keeps the types, in the states of the invariant.
LEMMA TypeStep == Inv /\ [Next]_vars => TypeOK'
<1> SUFFICES ASSUME Inv, [Next]_vars PROVE TypeOK'
  OBVIOUS
<1> USE ThreadsAssumption, LoopsAssumption
    DEF Inv, JobsInv, TypeOK, Goto, mainVars, jobVars, timeVars
<1>1. ASSUME NEW i \in Index, Start(i) PROVE TypeOK'
  BY <1>1 DEF Start
<1>2. ASSUME NEW i \in Index, Load(i) PROVE TypeOK'
  BY <1>2 DEF Load
<1>3. ASSUME NEW i \in Index, Store(i) PROVE TypeOK'
  BY <1>3 DEF Store, PhasesOK
<1>4. ASSUME NEW i \in Index, Release(i) PROVE TypeOK'
  BY <1>4 DEF Release, Lock!Release, PhasesOK, Busy
<1>5. ASSUME NEW i \in Index, Finish(i) PROVE TypeOK'
  <2>1. PICK d \in 0 .. MaxTime :
          /\ execution_time' = [execution_time EXCEPT ![i] = Larger(@, d)]
          /\ longest' = Larger(longest, d)
    BY <1>5 DEF Finish
  <2>2. Larger(execution_time[i], d) \in 0 .. MaxTime
    BY <1>5, LargerType
  <2>3. Larger(longest, d) \in 0 .. MaxTime
    BY LargerType
  <2>4. QED
    BY <1>5, <2>1, <2>2, <2>3 DEF Finish
<1>6. ASSUME NEW i \in Index, Acquire(i) PROVE TypeOK'
  BY <1>6 DEF Acquire, Lock!Acquire
<1>7. CASE Main
  <2>1. CASE Reset
    BY <2>1 DEF Reset
  <2>2. CASE Spawn
    <3>1. thread_i \in Index /\ thread_i + 1 \in 0 .. MaxThreads
      BY <2>2, <1>7 DEF Spawn, PhasesOK, Main, Running, Index
    <3>2. QED
      BY <2>2, <3>1 DEF Spawn
  <2>3. CASE AllSpawned
    BY <2>3 DEF AllSpawned
  <2>4. CASE Join
    <3>1. thread_i \in Index /\ thread_i + 1 \in 0 .. MaxThreads
      BY <2>4, <1>7 DEF Join, PhasesOK, Main, Running, Index
    <3>2. QED
      BY <2>4, <3>1 DEF Join
  <2>5. CASE AllJoined
    BY <2>5 DEF AllJoined, PhasesOK
  <2>6. CASE Printout
    BY <2>6, <1>7 DEF Printout, PhasesOK, Main, Running
  <2>7. QED
    BY <1>7, <2>1, <2>2, <2>3, <2>4, <2>5, <2>6 DEF Main
<1>8. CASE Fail
  BY <1>8 DEF Fail
<1>9. CASE UNCHANGED vars
  BY <1>9 DEF vars
<1>10. QED
  BY <1>1, <1>2, <1>3, <1>4, <1>5, <1>6, <1>7, <1>8, <1>9
  DEF Next, Work, Enter

\* A step of a job changes its own pc; only the holder reaches the number.
LEMMA WorkStep ==
  ASSUME Inv, NEW i \in Index, Work(i)
  PROVE  PhasesOK'
<1> USE DEF Inv, JobsInv, TypeOK, Goto, mainVars, jobVars, timeVars
<1>1. /\ UNCHANGED <<main, run, num_threads, thread_i>>
      /\ pc[i] # "None"
      /\ \A j \in Index : j # i => pc'[j] = pc[j] /\ cycle'[j] = cycle[j]
                                   /\ acquisition'[j] = acquisition[j]
                                   /\ loaded'[j] = loaded[j]
  BY DEF Work, Start, Load, Store, Release, Finish
<1>2. \A j \in Index : pc'[j] = "None" <=> pc[j] = "None"
  BY <1>1 DEF Work, Start, Load, Store, Release, Finish
<1>3. /\ holders' = Busy'
      /\ \A j, k \in Busy' : j = k
  <2>1. CASE UNCHANGED holders
    <3>1. Busy' = Busy
      BY <1>1, <2>1 DEF Work, Start, Load, Store, Release, Finish, Busy,
                        Lock!Release
    <3>2. QED
      BY <2>1, <3>1 DEF PhasesOK
  <2>2. CASE Release(i)
    <3>1. Busy' = {}
      BY <1>1, <2>2 DEF Release, Lock!Release, Busy, PhasesOK
    <3>2. QED
      BY <2>2, <3>1 DEF Release, Lock!Release
  <2>3. QED
    BY <2>1, <2>2 DEF Work, Start, Load, Store, Finish
<1>4. \A j \in Index : pc'[j] = "Store" => loaded'[j] = number_to_increment'
  BY <1>1 DEF Work, Start, Load, Store, Release, Finish, PhasesOK, Busy
<1>5. \A j \in Index : pc'[j] = "Store" => cycle'[j] < NumCycles
  BY <1>1 DEF Work, Start, Load, Store, Release, Finish, PhasesOK, Busy
<1>6. \A j \in Busy' : acquisition'[j] < NumAcquisitions
  BY <1>1 DEF Work, Start, Load, Store, Release, Finish, PhasesOK, Busy
<1>7. \A j \in Index : pc'[j] = "Done" => acquisition'[j] = NumAcquisitions
  BY <1>1 DEF Work, Start, Load, Store, Release, Finish, PhasesOK
<1>8. QED
  BY <1>1, <1>2, <1>3, <1>4, <1>5, <1>6, <1>7 DEF PhasesOK

\* A thread enters when nobody is inside.
LEMMA EnterStep ==
  ASSUME Inv, NEW i \in Index, Enter(i)
  PROVE  PhasesOK'
<1> USE DEF Inv, JobsInv, TypeOK, Goto, mainVars, timeVars
<1>1. Busy = {} /\ holders' = {i}
  BY DEF Enter, Acquire, Lock!Acquire, PhasesOK
<1>2. Busy' = {i}
  BY <1>1 DEF Enter, Acquire, Busy
<1>3. QED
  BY <1>1, <1>2 DEF Enter, Acquire, PhasesOK, Busy

\* The main thread touches the jobs only when it creates and joins them.
LEMMA MainStep ==
  ASSUME Inv, Main \/ Fail
  PROVE  PhasesOK'
<1> USE ThreadsAssumption, LoopsAssumption
    DEF Inv, JobsInv, TypeOK, mainVars, jobVars, timeVars, Index
<1>1. /\ UNCHANGED <<holders, acquisition, cycle, loaded>>
      /\ Busy' = Busy
  <2>1. UNCHANGED <<holders, acquisition, cycle, loaded>>
    BY DEF Main, Fail, Reset, Spawn, AllSpawned, Join, AllJoined, Printout
  <2>2. \A i \in Index :
          \/ pc'[i] = pc[i]
          \/ pc[i] \in {"None", "Done"} /\ pc'[i] \in {"None", "Start"}
    <3>1. CASE Spawn
      BY <3>1 DEF Spawn, PhasesOK
    <3>2. CASE Join
      BY <3>2 DEF Join
    <3>3. CASE ~Spawn /\ ~Join
      BY <3>3 DEF Main, Fail, Reset, AllSpawned, AllJoined, Printout
    <3>4. QED
      BY <3>1, <3>2, <3>3
  <2>3. QED
    BY <2>1, <2>2 DEF Busy
<1>2. CASE Reset
  BY <1>1, <1>2 DEF Reset, PhasesOK
<1>3. CASE Spawn
  BY <1>1, <1>3 DEF Spawn, PhasesOK
<1>4. CASE AllSpawned
  BY <1>1, <1>4 DEF AllSpawned, PhasesOK
<1>5. CASE Join
  BY <1>1, <1>5 DEF Join, PhasesOK
<1>6. CASE AllJoined
  BY <1>1, <1>6 DEF AllJoined, PhasesOK
<1>7. CASE Printout
  BY <1>1, <1>7 DEF Printout, PhasesOK
<1>8. CASE Fail
  BY <1>1, <1>8 DEF Fail, PhasesOK
<1>9. QED
  BY <1>2, <1>3, <1>4, <1>5, <1>6, <1>7, <1>8 DEF Main

\* Where a thread that is not at rest can be: in a run.
LEMMA InRun ==
  ASSUME Inv, Running, NEW i \in Index, pc[i] # "None"
  PROVE  main \in {"Spawn", "Join"} /\ i \in Spawned
BY DEF Inv, JobsInv, TypeOK, PhasesOK, Running, Spawned, Index

\* What the number counts, as a sum over the threads of the run.
LEMMA SharesType ==
  ASSUME TypeOK, num_threads < MaxThreads
  PROVE  /\ num_threads \in Nat /\ Spawned \subseteq Index
         /\ [i \in Spawned |-> Share(i)] \in [0 .. num_threads - 1 -> Int]
<1>1. num_threads \in Nat /\ Spawned \subseteq Index
  BY ThreadsAssumption DEF TypeOK, Spawned, Index
<1>2. ASSUME NEW i \in Spawned PROVE Share(i) \in Int
  BY <1>1, LoopsAssumption DEF Share, TypeOK
<1>. QED
  BY <1>1, <1>2 DEF Spawned

\* The number grows with the share of one thread.
LEMMA CountStep ==
  ASSUME TypeOK, TypeOK', CountOK, num_threads < MaxThreads,
         UNCHANGED num_threads, NEW i \in Spawned,
         Share(i)' - Share(i) = number_to_increment' - number_to_increment,
         \A j \in Spawned : j # i => Share(j)' = Share(j)
  PROVE  CountOK'
<1> DEFINE f == [j \in Spawned |-> Share(j)]
           d == number_to_increment' - number_to_increment
<1>1. num_threads \in Nat /\ Spawned' = Spawned /\ Spawned = 0 .. num_threads - 1
  BY SharesType DEF Spawned
<1>2. f \in [0 .. num_threads - 1 -> Int] /\ f' \in [0 .. num_threads - 1 -> Int]
  <2>1. f \in [0 .. num_threads - 1 -> Int] /\ Spawned \subseteq Index
    BY SharesType
  <2>2. ASSUME NEW j \in Spawned PROVE Share(j)' \in Int
    <3>1. acquisition'[j] \in Nat /\ cycle'[j] \in Nat
      BY <2>1, LoopsAssumption DEF TypeOK
    <3>2. NumAcquisitions * NumCycles \in Nat /\ acquisition'[j] * NumCycles \in Nat
      BY <3>1, LoopsAssumption
    <3>. QED
      BY <3>1, <3>2 DEF Share
  <2>. QED
    BY <1>1, <2>1, <2>2
<1>3. d \in Int /\ number_to_increment \in Int /\ number_to_increment' \in Int
  BY DEF TypeOK
<1>4. f'[i] = f[i] + d /\ \A j \in 0 .. num_threads - 1 : j # i => f'[j] = f[j]
  <2>1. Share(i) \in Int /\ Share(i)' \in Int
    BY <1>1, <1>2
  <2>. QED
    BY <1>1, <1>3, <2>1
<1>5. number_to_increment = Total(f, num_threads)
  BY DEF CountOK
<1> HIDE DEF f, d
<1>6. Total(f', num_threads) = Total(f, num_threads) + d
  BY <1>1, <1>2, <1>3, <1>4, TotalUpdate
<1>7. number_to_increment' = Total(f', num_threads)
  BY <1>3, <1>5, <1>6 DEF d
<1>. QED
  BY <1>7 DEF CountOK, f

\* A step of a job moves the number by what it moves the share of the job.
LEMMA WorkCount ==
  ASSUME Inv, TypeOK', NEW i \in Index, Work(i) \/ Enter(i)
  PROVE  main \in {"Spawn", "Join"} /\ CountOK'
<1>1. /\ pc[i] # "None" /\ Running
      /\ UNCHANGED <<main, num_threads>>
      /\ \A j \in Index : j # i => pc'[j] = pc[j] /\ cycle'[j] = cycle[j]
                                   /\ acquisition'[j] = acquisition[j]
  BY DEF Work, Enter, Start, Load, Store, Release, Finish, Acquire, Goto, Inv, TypeOK,
         mainVars, jobVars
<1>2. main \in {"Spawn", "Join"} /\ i \in Spawned
  BY <1>1, InRun
<1>3. TypeOK /\ CountOK /\ num_threads < MaxThreads
  BY <1>1, <1>2 DEF Inv, JobsInv, PhasesOK, Running
<1>4. \A j \in Spawned : j # i => Share(j)' = Share(j)
  BY <1>1, <1>3, SharesType DEF Share, Busy
<1>5. /\ acquisition[i] \in Nat /\ cycle[i] \in Nat /\ NumCycles \in Nat
      /\ NumAcquisitions \in Nat /\ number_to_increment \in Nat
  BY LoopsAssumption DEF Inv, TypeOK
<1>6. (acquisition[i] + 1) * NumCycles = acquisition[i] * NumCycles + NumCycles
      /\ acquisition[i] * NumCycles \in Nat
  BY <1>5
<1>7. Share(i)' - Share(i) = number_to_increment' - number_to_increment
  <2> USE <1>3, <1>5 DEF Share, Busy, Goto, TypeOK
  <2>1. CASE Start(i)
    BY <2>1, <1>6 DEF Start
  <2>2. CASE Load(i)
    BY <2>2, <1>6 DEF Load, jobVars
  <2>3. CASE Store(i)
    BY <2>3, <1>6 DEF Store, jobVars, Inv, JobsInv, PhasesOK
  <2>4. CASE Release(i)
    BY <2>4, <1>6 DEF Release
  <2>5. CASE Finish(i)
    BY <2>5, <1>6 DEF Finish, jobVars
  <2>6. CASE Acquire(i)
    BY <2>6, <1>6 DEF Acquire
  <2>. QED
    BY <2>1, <2>2, <2>3, <2>4, <2>5, <2>6 DEF Work, Enter
<1>. QED
  BY <1>1, <1>2, <1>3, <1>4, <1>7, CountStep

\* The main thread starts a run with the number and all shares 0, and joins jobs
\* that have made all their increments.
LEMMA MainCount ==
  ASSUME Inv, TypeOK', Main \/ Fail, main' \in {"Spawn", "Join", "Printout"}
  PROVE  CountOK'
<1> DEFINE f == [i \in Spawned |-> Share(i)]
<1>1. num_threads < MaxThreads /\ TypeOK
  BY DEF Main, Fail, Running, Inv, JobsInv, PhasesOK
<1>2. /\ num_threads \in Nat /\ Spawned \subseteq Index
      /\ Spawned = 0 .. num_threads - 1
      /\ f \in [0 .. num_threads - 1 -> Int]
  BY <1>1, SharesType DEF Spawned
<1>3. CASE Reset
  <2>1. /\ UNCHANGED <<num_threads, pc>> /\ main' = "Spawn"
        /\ \A i \in Index : pc[i] = "None"
        /\ number_to_increment' = 0
    BY <1>3 DEF Reset, Inv, JobsInv, PhasesOK
  <2>2. \A i \in Spawned : Share(i)' = 0
    BY <1>2, <2>1 DEF Share
  <2>3. Spawned' = Spawned /\ f' = [i \in 0 .. num_threads - 1 |-> 0]
    BY <1>2, <2>1, <2>2 DEF Spawned
  <2>4. Total(f', num_threads) = num_threads * 0
    <3> DEFINE g == [i \in 0 .. num_threads - 1 |-> 0]
    <3>1. g \in [0 .. num_threads - 1 -> Int] /\ \A j \in 0 .. num_threads - 1 : g[j] = 0
      OBVIOUS
    <3> HIDE DEF g
    <3>2. Total(g, num_threads) = num_threads * 0
      BY <1>2, <3>1, TotalConstant
    <3>. QED
      BY <2>3, <3>2 DEF g
  <2>. QED
    BY <1>2, <2>1, <2>4 DEF CountOK
<1>4. CASE ~ Reset
  <2>1. /\ UNCHANGED <<num_threads, number_to_increment, acquisition, cycle>>
        /\ CountOK
    BY <1>4 DEF Main, Fail, Spawn, AllSpawned, Join, AllJoined, Printout, jobVars,
                Inv, JobsInv
  <2>2. \A i \in Spawned : Share(i)' = Share(i)
    <3> SUFFICES ASSUME NEW i \in Spawned PROVE Share(i)' = Share(i)
      OBVIOUS
    <3>1. i \in Index /\ PhasesOK /\ NumAcquisitions * NumCycles \in Int
      BY <1>2, LoopsAssumption DEF Inv, JobsInv
    <3>2. CASE Spawn
      <4>1. CASE i = thread_i
        BY <3>1, <3>2, <4>1, <1>1 DEF Spawn, Share, PhasesOK, TypeOK
      <4>2. CASE i # thread_i
        <5>1. pc'[i] = pc[i] /\ main' = main
          BY <3>2, <4>2, <1>1, <3>1 DEF Spawn, TypeOK
        <5>. QED
          BY <2>1, <3>1, <5>1 DEF Share, Busy
      <4>. QED
        BY <4>1, <4>2
    <3>3. CASE AllSpawned
      BY <2>1, <3>1, <3>3, <1>2 DEF AllSpawned, Share, Busy, PhasesOK
    <3>4. CASE Join
      <4>1. CASE i = thread_i
        <5>1. /\ pc[i] = "Done" /\ pc'[i] = "None" /\ main' = "Join"
              /\ acquisition[i] = NumAcquisitions /\ i \notin Busy
          BY <3>1, <3>4, <4>1, <1>1 DEF Join, PhasesOK, TypeOK, Busy
        <5>. QED
          BY <3>1, <5>1 DEF Share
      <4>2. CASE i # thread_i
        <5>1. pc'[i] = pc[i] /\ main' = main
          BY <3>4, <4>2, <1>1, <3>1 DEF Join, TypeOK
        <5>. QED
          BY <2>1, <3>1, <5>1 DEF Share, Busy
      <4>. QED
        BY <4>1, <4>2
    <3>5. CASE AllJoined
      BY <2>1, <3>1, <3>5, <1>2 DEF AllJoined, Share, Busy, PhasesOK
    <3>. QED
      BY <1>4, <3>2, <3>3, <3>4, <3>5 DEF Main, Fail, Printout
  <2>3. f' = f
    BY <2>1, <2>2 DEF Spawned
  <2>. QED
    BY <2>1, <2>3 DEF CountOK
<1>. QED
  BY <1>3, <1>4

\* A job that ends with a longer time than the others before it is the longest.
LEMMA WorkTimes ==
  ASSUME Inv, NEW i \in Index, Work(i) \/ Enter(i)
  PROVE  TimesOK'
<1>1. /\ pc[i] \notin {"None", "Done"} /\ pc'[i] # "None" /\ Running
      /\ UNCHANGED <<main, num_threads>>
      /\ \A j \in Index : j # i => pc'[j] = pc[j]
  BY DEF Work, Enter, Start, Load, Store, Release, Finish, Acquire, Goto, Inv, TypeOK,
         mainVars
<1>2. i \in Spawned /\ Spawned' = Spawned /\ TimesOK /\ TypeOK /\ Spawned \subseteq Index
  BY <1>1, InRun, SharesType DEF Inv, JobsInv, PhasesOK, Spawned, Running
<1>3. CASE Finish(i)
  <2>1. PICK d \in 0 .. MaxTime :
          /\ execution_time' = [execution_time EXCEPT ![i] = Larger(@, d)]
          /\ longest' = Larger(longest, d)
    BY <1>3 DEF Finish
  <2>2. execution_time[i] = 0 /\ longest \in Nat
    BY <1>1, <1>2 DEF TimesOK, TypeOK
  <2>3. /\ execution_time'[i] = d
        /\ \A j \in Index : j # i => execution_time'[j] = execution_time[j]
    BY <1>2, <2>1, <2>2 DEF Larger, TypeOK
  <2>4. d <= longest' /\ longest <= longest' /\ (longest' = d \/ longest' = longest)
    BY <2>1, <2>2 DEF Larger
  <2>5. pc'[i] = "Done" /\ Ended' = Ended \cup {i} /\ i \notin Ended
    BY <1>1, <1>2, <1>3 DEF Finish, Goto, Ended, TypeOK
  <2>6. \A j \in Ended' : execution_time'[j] <= longest'
    <3> SUFFICES ASSUME NEW j \in Ended' PROVE execution_time'[j] <= longest'
      OBVIOUS
    <3>1. CASE j = i
      BY <2>3, <2>4, <3>1
    <3>2. CASE j # i
      <4>1. j \in Ended /\ j \in Index
        BY <1>2, <2>5, <3>2 DEF Ended
      <4>2. execution_time'[j] = execution_time[j] /\ execution_time[j] <= longest
        BY <1>2, <2>3, <3>2, <4>1 DEF TimesOK
      <4>3. execution_time[j] \in Nat /\ longest' \in Int
        BY <1>2, <2>1, <2>2, <4>1 DEF TypeOK, Larger
      <4>. QED
        BY <2>2, <2>4, <4>2, <4>3
    <3>. QED
      BY <3>1, <3>2
  <2>7. longest' = 0 \/ \E j \in Ended' : execution_time'[j] = longest'
    <3>1. CASE longest' = d
      BY <2>3, <2>5, <3>1
    <3>2. CASE longest' = longest
      BY <1>2, <2>3, <2>5, <3>2 DEF TimesOK, Ended
    <3>. QED
      BY <2>4, <3>1, <3>2
  <2>8. \A j \in Index : pc'[j] \notin {"None", "Done"} => execution_time'[j] = 0
    BY <1>1, <1>2, <2>3, <2>5 DEF TimesOK
  <2>. QED
    BY <2>6, <2>7, <2>8 DEF TimesOK
<1>4. CASE ~ Finish(i)
  <2>1. UNCHANGED <<execution_time, longest>> /\ pc'[i] # "Done"
    BY <1>4 DEF Work, Enter, Start, Load, Store, Release, Acquire, Goto, Inv, TypeOK,
                timeVars
  <2>2. Ended' = Ended
    BY <1>1, <1>2, <2>1 DEF Ended
  <2>. QED
    BY <1>1, <1>2, <2>1, <2>2 DEF TimesOK
<1>. QED
  BY <1>3, <1>4

\* The main thread takes the time of a thread back before it starts its job, and
\* a job that it joins had ended.
LEMMA MainTimes ==
  ASSUME Inv, Main \/ Fail, main' \in {"Spawn", "Join", "Printout"}
  PROVE  TimesOK'
<1>1. TypeOK /\ PhasesOK /\ num_threads < MaxThreads /\ Spawned \subseteq Index
  BY SharesType DEF Main, Fail, Running, Inv, JobsInv, PhasesOK
<1>2. CASE Reset
  <2>1. longest' = 0 /\ main' = "Spawn" /\ \A i \in Index : pc'[i] = "None"
    BY <1>1, <1>2 DEF Reset, PhasesOK
  <2>2. Spawned' = Spawned
    BY <1>2 DEF Reset, Spawned
  <2>3. Ended' = {}
    BY <1>1, <2>1, <2>2 DEF Ended
  <2>. QED
    BY <2>1, <2>3 DEF TimesOK
<1>3. CASE ~ Reset
  <2>1. UNCHANGED <<num_threads, longest>> /\ TimesOK /\ Spawned' = Spawned
    BY <1>3 DEF Main, Fail, Spawn, AllSpawned, Join, AllJoined, Printout, timeVars,
                Inv, JobsInv, Spawned
  <2>2. CASE Spawn
    <3>1. /\ thread_i \in Spawned /\ pc[thread_i] = "None" /\ main = "Spawn"
          /\ pc'[thread_i] = "Start" /\ execution_time'[thread_i] = 0 /\ main' = main
          /\ \A i \in Index : i # thread_i => pc'[i] = pc[i]
                                              /\ execution_time'[i] = execution_time[i]
      BY <1>1, <2>2 DEF Spawn, PhasesOK, TypeOK, Spawned
    <3>2. Ended' = Ended /\ thread_i \notin Ended
      BY <1>1, <2>1, <3>1 DEF Ended
    <3>. QED
      BY <1>1, <2>1, <3>1, <3>2 DEF TimesOK, Ended
  <2>3. CASE AllSpawned
    <3>1. \A i \in Spawned : pc[i] # "None"
      BY <1>1, <2>3 DEF AllSpawned, PhasesOK, TypeOK, Spawned
    <3>2. Ended' = Ended /\ UNCHANGED <<pc, execution_time>>
      BY <2>1, <2>3, <3>1 DEF AllSpawned, Ended, timeVars
    <3>. QED
      BY <2>1, <3>2 DEF TimesOK
  <2>4. CASE Join
    <3>1. /\ pc[thread_i] = "Done" /\ thread_i \in Spawned
          /\ pc'[thread_i] = "None" /\ main = "Join" /\ main' = "Join"
          /\ execution_time' = execution_time
          /\ \A i \in Index : i # thread_i => pc'[i] = pc[i]
      BY <1>1, <2>4 DEF Join, TypeOK, timeVars, Spawned
    <3>2. Ended' = Ended
      BY <1>1, <2>1, <3>1 DEF Ended
    <3>. QED
      BY <1>1, <2>1, <3>1, <3>2 DEF TimesOK
  <2>5. CASE AllJoined
    <3>1. Ended' = Ended /\ UNCHANGED <<pc, execution_time>>
      BY <2>1, <2>5 DEF AllJoined, Ended, timeVars
    <3>. QED
      BY <2>1, <3>1 DEF TimesOK
  <2>. QED
    BY <1>3, <2>2, <2>3, <2>4, <2>5 DEF Main, Fail, Printout
<1>. QED
  BY <1>2, <1>3

\* When all are joined the number is the product that the printout compares.
LEMMA PrintoutCount ==
  ASSUME Inv, Printout
  PROVE  number_to_increment = num_threads * NumAcquisitions * NumCycles
<1> DEFINE f == [i \in Spawned |-> Share(i)]
           c == NumAcquisitions * NumCycles
<1>1. /\ TypeOK /\ CountOK /\ num_threads < MaxThreads
      /\ \A i \in Index : Share(i) = c
  BY DEF Printout, Inv, JobsInv, PhasesOK, Share
<1>2. /\ num_threads \in Nat /\ Spawned \subseteq Index /\ c \in Int
      /\ f \in [0 .. num_threads - 1 -> Int] /\ Spawned = 0 .. num_threads - 1
  BY <1>1, SharesType, LoopsAssumption DEF Spawned
<1>3. \A i \in 0 .. num_threads - 1 : f[i] = c
  BY <1>1, <1>2
<1>4. number_to_increment = Total(f, num_threads)
  BY <1>1 DEF CountOK
<1> HIDE DEF f, c
<1>5. Total(f, num_threads) = num_threads * c
  BY <1>2, <1>3, TotalConstant
<1>6. num_threads * c = num_threads * NumAcquisitions * NumCycles
  BY <1>2, LoopsAssumption DEF c
<1>. QED
  BY <1>4, <1>5, <1>6

\* A step keeps the invariant.
LEMMA InvStep == Inv /\ [Next]_vars => Inv'
<1> SUFFICES ASSUME Inv, [Next]_vars PROVE JobsInv'
  BY TypeStep DEF Inv
<1>1. TypeOK'
  BY TypeStep
<1>2. ASSUME NEW i \in Index, Work(i) \/ Enter(i) PROVE JobsInv'
  <2>1. verdict' = verdict
    BY <1>2 DEF Work, Enter, Start, Load, Store, Release, Finish, Acquire, mainVars
  <2>2. PhasesOK' /\ CountOK' /\ TimesOK'
    BY <1>1, <1>2, WorkStep, EnterStep, WorkCount, WorkTimes
  <2>. QED
    BY <2>1, <2>2 DEF JobsInv, NeverWrong, Inv
<1>3. CASE Main \/ Fail
  <2>1. NeverWrong'
    <3>1. CASE Printout
      BY <3>1, PrintoutCount DEF Printout, NeverWrong
    <3>2. CASE ~ Printout
      BY <1>3, <3>2 DEF Main, Fail, Reset, Spawn, AllSpawned, Join, AllJoined,
                        NeverWrong, Inv, JobsInv
    <3>. QED
      BY <3>1, <3>2
  <2>. QED
    BY <1>1, <1>3, <2>1, MainStep, MainCount, MainTimes DEF JobsInv
<1>4. CASE UNCHANGED vars
  <2>1. PhasesOK'
    BY <1>4 DEF vars, mainVars, jobVars, timeVars, Inv, JobsInv, PhasesOK, Busy
  <2>2. CountOK => CountOK'
    BY <1>4 DEF vars, mainVars, jobVars, CountOK, Share, Busy, Spawned
  <2>3. TimesOK => TimesOK'
    BY <1>4 DEF vars, mainVars, timeVars, TimesOK, Ended, Spawned
  <2>. QED
    BY <1>4, <2>1, <2>2, <2>3 DEF vars, mainVars, Inv, JobsInv, NeverWrong
<1>. QED
  BY <1>2, <1>3, <1>4 DEF Next

\* The values stay in their domains, loaded and the number unbounded.
THEOREM TypeCorrect == Spec => []TypeOK
<1>1. Inv => TypeOK
  BY DEF Inv
<1>. QED
  BY <1>1, InvInit, InvStep, PTL DEF Spec

\* The jobs and the lock agree, rounds do not overlap, and the number and the
\* times are those of the jobs of the run.
THEOREM JobsInvariant == Spec => []JobsInv
<1>1. Inv => JobsInv
  BY DEF Inv
<1>. QED
  BY <1>1, InvInit, InvStep, PTL DEF Spec

\* The printout finds the product of the loops' bounds in the number.
THEOREM CountsRight == Spec => []NeverWrong
<1>1. JobsInv => NeverWrong
  BY DEF JobsInv
<1>. QED
  BY <1>1, JobsInvariant, PTL

\* No write of number_to_increment loses another thread's.
THEOREM NoUpdateIsLost == Spec => NoLostUpdate
<1> DEFINE Right == number_to_increment' = IF main = "Reset" THEN 0
                                           ELSE number_to_increment + 1
<1>1. PhasesOK /\ [Next]_vars => [Right]_number_to_increment
  <2> SUFFICES ASSUME PhasesOK, [Next]_vars,
                      number_to_increment' # number_to_increment
               PROVE  Right
    OBVIOUS
  <2> USE DEF mainVars, jobVars, timeVars
  <2>1. (\E i \in Index : Store(i)) \/ Reset
    BY DEF Next, vars, Work, Start, Load, Release, Finish, Enter, Acquire,
           Main, Spawn, AllSpawned, Join, AllJoined, Printout, Fail
  <2>2. CASE Reset
    BY <2>2 DEF Reset
  <2>3. ASSUME NEW i \in Index, Store(i) PROVE Right
    <3>1. pc[i] = "Store" /\ main # "Reset"
      BY <2>3 DEF Store, Goto, PhasesOK
    <3>. QED
      BY <2>3, <3>1 DEF Store, PhasesOK
  <2>. QED
    BY <2>1, <2>2, <2>3
<1>2. JobsInv => PhasesOK
  BY DEF JobsInv
<1>3. QED
  BY <1>1, <1>2, JobsInvariant, PTL DEF Spec, NoLostUpdate

\* The largest time that is printed is that of a job of the last run.
THEOREM LastRunReported == Spec => ReportsLastRun
<1> DEFINE Right == main = "Printout" /\ main' # "Exit" => max_time' = longest
<1>1. Inv /\ [Next]_vars => [Right]_vars
  <2> SUFFICES ASSUME Inv, [Next]_vars, vars' # vars, main = "Printout", main' # "Exit"
               PROVE  max_time' = longest
    OBVIOUS
  <2>1. Printout
    <3>1. \A i \in Index : pc[i] = "None"
      BY DEF Inv, JobsInv, PhasesOK
    <3>. QED
      BY <3>1 DEF Next, Work, Enter, Start, Load, Store, Release, Finish, Acquire, Goto,
                  Main, Fail, Reset, Spawn, AllSpawned, Join, AllJoined
  <2>2. TypeOK /\ TimesOK /\ Spawned \subseteq Index /\ Ended = Spawned
    <3>1. TypeOK /\ TimesOK /\ num_threads < MaxThreads
      BY DEF Inv, JobsInv, PhasesOK
    <3>2. \A i \in Index : pc[i] = "None"
      BY DEF Inv, JobsInv, PhasesOK
    <3>. QED
      BY <3>1, <3>2, SharesType DEF Ended
  <2>3. PICK m \in 0 .. MaxTime : Maximum(m) /\ max_time' = m
    BY <2>1 DEF Printout
  <2>4. /\ m = 0 \/ \E i \in Spawned : m = execution_time[i]
        /\ \A i \in Spawned : execution_time[i] <= m
    BY <2>3 DEF Maximum, Spawned
  <2>5. \A i \in Spawned : execution_time[i] \in Nat
    BY <2>2 DEF TypeOK
  <2>6. longest \in Nat /\ m \in Nat
    BY <2>2 DEF TypeOK
  <2>7. m <= longest
    BY <2>2, <2>4, <2>5, <2>6 DEF TimesOK
  <2>8. longest <= m
    BY <2>2, <2>4, <2>5, <2>6 DEF TimesOK
  <2>. QED
    BY <2>3, <2>6, <2>7, <2>8
<1>. QED
  BY <1>1, InvInit, InvStep, PTL DEF Spec, ReportsLastRun
=============================================================================
