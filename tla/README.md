# A TLA+ model of the locks, the stack and the skip list

The repository is a set of four laboratory works on multithreaded programming
in C and C++: a matrix multiplication (lab1), spin locks with their benchmark
(lab2), a stack without locks with its benchmark (lab3), and a skip list
without locks with its benchmark (lab4). The modules here model the concurrent
parts, access to shared memory by access to shared memory; TLC checks them on
small instances, and TLAPS proves the most important facts for every value of
the constants.

`PROJECT.json` lists the runs, the modelled lines of every definition, the
hazards of the code, the findings and the theorems. This file says how they
hang together.

## 1. The system

| Part | State | Operations | Who calls it |
|---|---|---|---|
| Spin locks, `lab2/SpinLocks.c` | one byte (TAS, TTAS) or two 16-bit counters (ticket lock) | acquire, release | the jobs of the lock benchmark, through two function pointers |
| Lock benchmark, `lab2/SpinLockBenchmarks.c` | a number shared by all jobs, an execution time for each job | `run_test`: reset, spawn, join, print; the jobs: acquire, increment, release, measure | `spin_lock_test.c` |
| Stack, `lab3/Stack.c` | head, nodes, an array of hazard pointers, the list of popped nodes and a counter, a thread-local slot for each thread | push, pop, init, free; the destructor of the thread-local slot when a thread ends | the jobs and the main thread of the stack benchmark |
| Stack benchmark, `lab3/StackBenchmark.c` | a stack for each round, a log of popped values, an execution time for each job | `run_test`: init, prefill, spawn, join, print, free; the jobs: push, pop, log, measure | `stack_test.c` |
| Epoch-based reclamation, `lab4/SkipList.c:226-339` | global epoch, table of local epochs, a list of removed towers for each epoch, a try-lock, a thread-local cell for each thread | `epoch_init`, `enter_epoch`, `leave_epoch`, `add_to_reclaim_list`, `reclaim_nodes` | the operations of the skip list |
| Skip list, `lab4/SkipList.c` | a linked list of towers on each level, marks in the pointers, `max_level` | insert, remove, search, init, free | the jobs of the skip list benchmark |
| Skip list benchmark, `lab4/SkipListBenchmarks.c` | as the stack benchmark | the jobs insert, remove and search keys, disjoint or shared | `skiplist_test.c` |
| Matrix multiplication, `lab1` | two input matrices, one output | a static partition of the rows | its `main` |

Threads interact through shared memory only. Nothing is persisted and there are
no messages, so crashes with recovery and message loss do not occur; what makes
this code hard is

* the interleaving of atomic accesses, with retries (ABA, lost updates, a
  pointer used after its node was freed);
* memory ordering: the hazard pointer is published by a relaxed store;
* compare-and-swaps that write the value they found over their expected value;
* limits: 64 hazard slots, 256 epoch cells, 16-bit tickets that wrap around;
* errors that callers ignore (`malloc`, `pthread_setspecific`, `stack_init`);
* pointers with a mark in them: a removal in several steps, which other threads
  meet half done and help along;
* liveness of spinning, backoff, restarted searches and joins;
* per-round data of the benchmarks that is reset while threads could still use
  it.

What makes each part correct:

* a lock excludes, does not deadlock, and, for the ticket lock, serves in the
  order of arrival without starvation, also when the counters wrap;
* the lock benchmark loses no increment under any lock that excludes, and ends;
* the stack is linearizable, frees no node that a pop relies on, loses none,
  bounds the list of nodes waiting to be freed, and always makes progress;
* the stack benchmark reports PASSED exactly when every push succeeded;
* every removed tower is in exactly one reclaim list, once, and nothing is freed
  while the list is in use;
* the skip list is a linearizable map; its levels stay sorted sublists of one
  another, a mark is final, a removed tower is handed over by one thread and
  never reachable again, and searches that restart let each other through;
* the skip list benchmark reports PASSED exactly when every insertion succeeded,
  and skiplist_free frees every tower once.

## 2. The modules

| Module | What it is |
|---|---|
| `AbstractStack` | specification: push and pop in one step each |
| `Stack` | `lab3/Stack.c`; properties, refinement of `AbstractStack`, inductive invariant |
| `MCStack` | `Stack` with symmetry and a view for TLC |
| `StackProofs` | types; hazard pointers protect; no node is lost; `Stack` implements `AbstractStack` |
| `AbstractLock`, `FifoLock` | specifications: exclusion; exclusion in order of arrival |
| `SpinLock`, `TASLock`, `TTASLock` | the test-and-set locks of `lab2/SpinLocks.c`, and what they share |
| `SpinLocks` | either of them, chosen by the initial state |
| `TicketLock` | the ticket lock |
| `SpinLockProofs`, `TicketLockProofs` | the three locks implement `AbstractLock`, the ticket lock `FifoLock`; the sleeps are bounded |
| `LockBenchmark`, `LockBenchmarkProofs` | `run_test` of lab2, composed with `AbstractLock` |
| `StackBenchmark`, `MCStackBenchmark`, `StackBenchmarkProofs` | `run_test` of lab3, composed with `AbstractStack`; the tests for TLC; the proofs |
| `Epoch`, `MCEpoch`, `EpochProofs` | the reclamation of lab4 |
| `AbstractMap` | specification: an insertion or removal takes effect in one step, a search reports what was there during the call |
| `SkipList` | the towers of `lab4/SkipList.c`; properties, refinement of `AbstractMap` |
| `MCSkipList` | the calls of two threads, for TLC |
| `SkipListBenchmark` | `run_test` of lab4, built on `SkipList` itself |
| `SkipListBenchmarkBooks` | the parts of its inductive invariant: what each thread has ahead, and the books of a round |
| `MCSkipListBenchmark` | the benchmark with the calls of its jobs, for TLC |
| `SkipListProofs` | types, marks, the retirement of towers and the shape of the levels; `SkipList` implements `AbstractMap`; the benchmark of the skip list |
| `Sums`, `Induction` | the sum of a row of numbers; induction, iteration, sums, quotients and remainders, for the proofs |

The benchmarks of lab2 and lab3 are built on the abstract lock and the abstract
stack, so that what is shown of them holds for every implementation of these; the
locks and the stack are shown to be implementations. The benchmark of lab4 is
built on the skip list itself (`SkipListBenchmark` EXTENDS `SkipList`), because it
reaches states that no abstract map has (a tower linked and retired), because
`skiplist_free` is about towers, and because its termination depends on the
searches that start over.

### Conventions

Names are those of the source. A variable of the code that belongs to a thread
is a function of `Thread`; `pc` says where a thread is, named for what it does
next. One action is one access to shared memory together with the private
computation up to the next one; each error path has an action of its own. Where
a local variable is dead, actions reset it, which merges states and loses
nothing. Operators headed *Fault* are variants of the definition that follows
with a plausible bug; no specification uses them: they show that each property
can fail. A compare-and-swap is a test and an update; where the update alone has a
name (`PushPublish`, `PopSwap`, `PutOnList`, `HpTake`, `AddStore`, `Overwrite`), it
is also the fault of a store that does not compare.

### Stack

`status` and `owner` record where a node is in its life. They are history,
except for one thing the code depends on: whether the memory is allocated.
`LoadNext` uses it to let a load from freed memory return anything. The
compare-and-swap of `add_to_reclaim_list` takes `&node->next` as its expected
value and overwrites it when it fails (`RecRetry`). A pop reads
`old_head->next` before its compare-and-swap, so these are two actions. The
thread-local slot `tls` outlives the call and is given back by the destructor
when a thread ends (`ExitClearPointer`, `ExitClearId`), after which the model
lets the same thread identifier start anew. `stack_free` and the next
`stack_init` are one action, because the benchmark calls them after it has
joined all the threads ("Assumption: calling thread has exclusive access to
the stack", Stack.c:240).

*Memory model.* With `StoreBuffer = 0` memory is sequentially consistent. With a
positive value each thread has a FIFO store buffer for its hazard stores, as on
x86: that is the machine the code is built for, and the only stores that a later
load of the same thread may overtake are those of hazard pointers. Every other
plain store is followed by a locked instruction before the next load that
matters. Weaker machines are not modelled.

### Locks

`lock_taken` and the ticket counters are read and written by single atomic
instructions. Randomness of the sleep is left out: it has no effect but a delay.
The ticket lock spins `TTAS_CYCLES_TO_SPIN` times; `TICKET_CYCLES_TO_SPIN` is
defined and never read. `TicketLock` needs at most as many threads as tickets
(`ThreadAssumption`); the benchmark starts at most 100 and there are 2^16.

### Benchmarks

`main` is where the main thread is, `pc` where each job is. Clocks advance by any
amount up to `MaxTime`. `longest` is a history variable: the largest duration
measured, to compare with what is printed. `failed` and `missed` count pushes
that failed and pops that found nothing. `number_to_increment += 1` is a load
and a store, which is what the unoptimised build of the Makefile makes of it.
The loops `num_threads < MAX_THREADS` (lab2) and `num_threads <= MAX_THREADS`
(lab3) are kept as they are: lab2 never tests 100 threads.

### Epoch

An operation of the skip list is reduced to entering the epoch, perhaps
unlinking a tower and adding it to the reclaim list, and leaving. `Garbage` is
what the cells that `skiplist_init` does not set may hold. Two statements of the
code have no action: the branch of `reclaim_nodes` that frees a list and moves
the epoch (SkipList.c:317-335), and the store of `leave_epoch` (273). Both are
dead, which `EpochStuck` states and `EpochProofs` proves: a thread that looks
for a cell finds an epoch in cell 0 unless it claims it, the failed
compare-and-swap makes that epoch the value expected of cell 1, cell 1 holds -1,
and so cell 1 is never claimed; but `reclaim_nodes` moves the epoch only if all
256 cells hold the global epoch. No removed tower is freed before
`skiplist_free`.

### Skip list

`Header` (-1) is below every tower, `NULL` is 0, and the towers are numbered in the
order in which `malloc` returns them. A forward pointer is a record of the tower
it leads to and its mark. `th[t]` holds what thread `t` keeps to itself: the call,
the variables of `fill_tables` (`from` and `to` are its arguments `max_level` and
`min_level`) and the two tables. `fill_tables` is three actions: `Load` reads the
first pointer of a level, `Look` reads the pointer after the next tower and
decides, `Unlink` is the compare-and-swap that takes a marked tower out, which
restarts the search when it fails. `Filled` says where each caller goes on; an
insertion comes back to its level, a removal to `add_to_reclaim_list`. The mark of
an upper level is a compare-and-swap with the value just read, marked or not; on
the bottom level the expected value is unmarked, and the thread that succeeds is
the one that retires the tower.

Towers are never freed and never handed out again, because `EpochStuck` holds; that
is the interface between `SkipList` and `Epoch`, which models the rest of each
call. The error number is left out: the outcome of a call determines it.
`generate_level` is any level. `results` is a history variable: what the call may
return so far, as `AbstractMap` has it.

*Exclusive.* With `Exclusive = TRUE` a thread does not start an insertion while
another thread inserts or removes the same key. The tests of the benchmark that
are checked for correct results keep to that: their keys are `thread_i` modulo
the number of threads. Removals of one key by several threads, updates and
searches are never kept apart. Without it the list is not a map: two threads
that insert a key at once both link a tower (`skiplist_aggressive`), and an
inserter that stores the forward pointer of a level (SkipList.c:400, 408) may
overwrite the mark that a removal of its half-linked tower has set there, so that
the tower is linked again after it was retired. `Spec` with `Exclusive = FALSE` has
both behaviours; the proofs say what is left of the properties then.

### Skip list benchmark

The jobs are sequences of calls (`todo`); the loops of the macros are the operator
`Loop`. `StartCall`, `StepCall` and `EndCall` are the three kinds of step of
`SkipList`, with the job's next call as the call and with what the job does with
the result (`Report`). `Calls` and `Exclusive` of `SkipList` keep nothing apart here:
every thread may make every call (`JobsAssumption`), and `Exclusive` is `FALSE` in both
runs; it is the jobs that keep their keys apart, or do not. `Elements` is the number
of keys of a thread in every test, `Reads` is READS, `Cycles` HALF_TO_HALF_TEST, and
`Batch` stands for the 50 insertions of a cycle of the aggressive job. The main thread prefills the list for the tests of removals
and searches. The stores of `skiplist_init` happen before any thread starts and are
one step. The time between two readings of the clock is left out.

## 3. The runs

| Run | Instance | Distinct states | Shows |
|---|---|---|---|
| `stack_one_slot` | 2 threads, 3 nodes, 2 values, 1 slot; failing TLS, weak CAS | 159 096 | types, no leak or double free, exclusive slots, linearizability |
| `stack_two_slots` | 2 threads, 4 nodes, 2 slots; weak CAS | 204 991 | no free under a hazard, bounded retired list, the inductive invariant, linearizability |
| `stack_lockfree` | 2 threads, 2 nodes, 2 slots, store buffers of 1, fair | 522 712 | linearizability with store buffers; some operation always completes |
| `spin_locks` | 3 threads, 2 cycles, backoff 1 to 4, either lock | 64 396 | exclusion, bounded backoff, deadlock freedom |
| `ticket_lock` | 3 threads, 3 tickets | 7 132 | exclusion, first-in first-out, no starvation |
| `lock_benchmark` | rounds of 1 to 3 threads, 2 runs, 2 acquisitions of 2 cycles; failing system calls | 203 839 | no lost update, verdict, printed maximum, termination |
| `stack_benchmark` | rounds of 1 to 3 threads; the tests (1 push, 1 pop), (1, 0) and (0, 2); failing calls | 407 276 | the verdict, every call accounted for, the maximum time |
| `epoch` | 3 threads, 2 towers, 6 cells, 4 epochs | 710 914 | each retired tower in one list, the epoch is stuck |
| `skiplist` | 2 threads, 2 keys, 2 values, 3 towers of 1 or 2 levels, keys kept apart | 618 593 | linearizability, no removed tower reachable, the shape of the levels, marks are final, one thread retires |
| `skiplist_benchmark` | rounds of 1 and 2 threads, 1 key each, 2 towers of 1 or 2 levels, the five tests with keys of their own, failing calls | 367 816 | the verdict, the contents at the end, every tower freed once, termination |

Two more runs end in a violation, and each is a finding:

| Run | What happens |
|---|---|
| `stack_tso_free` | with a store buffer of one entry a node is freed between the second look at the head and the read of its successor |
| `skiplist_aggressive` | two threads insert one key and link two towers; a removal marks the second, its search stops at the first, and `skiplist_free` frees the second tower twice |

Two more places where the code and its headers disagree need no run to be seen.
The fairness benchmark of the locks prints the maximum time of its last run,
because every run clears the times (SpinLockBenchmarks.c:153), where the header
says "Maximum lock acquisition time Tm is computed" (SpinLockBenchmarks.h:18);
`ReportsLastRun` states what is printed. The pop tests of the stack prefill
`num_to_pop - num_to_push` values (StackBenchmark.c:187) and not "N*P values"
(StackBenchmarks.h:11), so that all threads but one find it empty;
`RoundInv` and `CallsConserved` count the calls with the prefill as it is, and so say
nothing against it.

Three defects are in the models without a run of their own. A pop that gets no
hazard slot, because more threads pop than there are slots, stores through a null
pointer at Stack.c:361, where Stack.c:421 has the message "[Error] Stack can't
handle more threads" for that case (`live = "crashed"` in `Stack`, and the instance
`stack_one_slot` reaches it). `epoch_init` may give one cell to two threads, although it is to
"Allocate the cell in the local epoch list" (SkipList.c:232): a thread whose
expected value was overwritten with the epoch of one cell claims the next cell
that holds the same epoch (SkipList.c:235; `ClaimCell` after `NextCell`). It does no
harm only because the epoch never moves. And an insertion may overwrite the mark of a
removal of the same key (SkipList.c:400): with `Exclusive = FALSE` on the instance
`skiplist`, TLC finds `MarksFinal` violated, in 15 states: the inserter has linked the
bottom level, the removal marks the level above, and `LinkStore` of that level stores an
unmarked pointer. `RetiredUnlinked` is violated as well: the insertion links a level of
the tower that the search of the removal has come past already, and the removal
retires the tower. The code does not say that keys are kept
apart, and does not promise the opposite; the aggressive test is the only caller
that shares keys.

### Why the bounds are enough

*Stack.* Two threads make every race of two operations; a third role, the scan, is
played by whichever thread has popped last. With one slot the threshold is two
pops, so a run goes through several reclamations, reuse of nodes under an
unfinished operation (ABA), exhaustion of the slots and hand-over by exit. What that run
does not reach, because a thread needs the only slot to pop, is a scan that meets the
hazard of another thread and two scans at once; these are for `stack_two_slots`,
whose `StackInv` and `Linearizable` cover them, and for the proofs. With
two slots the threshold is four: four nodes are needed for a scan to happen
while another thread holds a hazard. `RetiredBounded` allows
`MaxHazard * MaxHazard div 2` nodes beyond the counter: a scan puts back at most
the nodes that are hazards, and the two threads of the run can scan at once; the
expression is right for that run (two slots), and is not claimed for others.
`stack_lockfree` has two nodes, of which no scan is due with two slots: what it
checks with store buffers is the rest of the algorithm, with both threads
popping at once. `stack_tso_free` has the four nodes that a scan takes.

*Locks.* Three threads: one inside, one between test and test-and-set, one asleep.
Three tickets for three threads is the tightest ratio the assumption allows, and
both counters wrap.

*Benchmarks.* Two runs and up to three threads are enough for leftovers of one run
to reach the next. `MaxTime = 1` distinguishes longer from shorter.

*Epoch.* Six cells are the four that are initialised and two that are not; three
threads suffice for cells 0, 2 and a third that meets both.

*Skip list.* Two levels are the smallest list in which a tower is linked on one
level and not yet on the next, and in which a mark goes from the top down. Three
towers are two of one key after the other, with a neighbour of the other key on
either level. `Left` inserts and removes key 1, `Right` removes and searches key 1
while it inserts and updates key 2 next to it: two removals of one tower race for
its bottom level, a search helps to unlink, an insertion finds its predecessor
marked. With two levels `max_level` only goes up; that it may go down, with three
levels or more and the separate test and store of SkipList.c:392, is covered by the
proof of `MapLinearizable`, which holds for any number of levels.
`Inv`, `Shape` and `History`, the invariants of the proofs, were checked on
this instance too; `Inv` also without keys kept apart (1 439 676 states).

*Skip list benchmark.* One key for each thread and two threads: every key has a
neighbour of the other thread. `Batch = 3` is the smallest batch that overlaps the
first key of a neighbour in a round of two threads.

### Fairness

*Locks.* Weak fairness of each thread that is not idle: the operating system
schedules every thread, `nanosleep` and `sched_yield` return, and critical
sections end. No fairness makes a thread ask for the lock. TAS and TTAS are only
deadlock free (a thread may be overtaken for ever), the ticket lock is
starvation free.

*Lock benchmark.* Weak fairness of the main thread and of each job; of the lock only
that *some* waiting thread gets in when it is free, which is what the weakest of
the three locks gives.

*Skip list benchmark.* Weak fairness of the main thread and of every other
thread. A search that starts over does so because another thread has changed the
list, and the jobs are finite: with keys of their own they all end. With shared
keys, where a retired tower can be linked again, a search may restart for ever,
and nothing is claimed.

*Stack.* The machine does not stop for good while an operation is in progress, and
store buffers empty by themselves. A single thread may be suspended for ever.

`CHECK_DEADLOCK FALSE` is set where the system stops: the process crashes (`epoch`,
a thread without a cell), returns or exits (the benchmarks), or all the memory
of the instance is in the hands of threads that wait for it (`stack_one_slot`,
`stack_lockfree`).

## 4. The proofs

| Theorem | Statement |
|---|---|
| `StackProofs!TypeCorrect` | `Spec => []TypeOK`, any store buffer |
| `StackProofs!SafeInvariant` | `StoreBuffer = 0 /\ Spec => []SafeInv` |
| `StackProofs!SlotsExclusiveCorrect` | `StoreBuffer = 0 /\ Spec => []SlotsExclusive` |
| `StackProofs!HazardPointersProtect` | `StoreBuffer = 0 /\ Spec => NoFreeWhileProtected` |
| `StackProofs!StackInvariant` | `StoreBuffer = 0 /\ Spec => []StackInv` |
| `StackProofs!NothingLeaks` | `StoreBuffer = 0 /\ Spec => []NothingLeaked` |
| `StackProofs!StackLinearizable` | `StoreBuffer = 0 /\ Spec => Linearizable`: `Stack` implements `AbstractStack` |
| `SpinLockProofs!TypeCorrect`, `LockInvariant` | `Spec => []TypeOK`, `Spec => []LockInv` |
| `SpinLockProofs!BackoffCorrect` | `Spec => []BackoffBounded` |
| `SpinLockProofs!LocksExclude`, `TicketLockProofs!TicketImplements` | `Spec => Excludes`: the locks implement `AbstractLock` |
| `TicketLockProofs!TicketInvariant` | `Spec => [](TypeOK /\ TicketInv)` |
| `TicketLockProofs!TicketIsFifo` | `Spec => FirstInFirstOut` |
| `LockBenchmarkProofs!TypeCorrect`, `JobsInvariant` | `Spec => []TypeOK`, `Spec => []JobsInv` |
| `LockBenchmarkProofs!CountsRight` | `Spec => []NeverWrong` |
| `LockBenchmarkProofs!NoUpdateIsLost` | `Spec => NoLostUpdate` |
| `LockBenchmarkProofs!LastRunReported` | `Spec => ReportsLastRun` |
| `StackBenchmarkProofs!TypeCorrect`, `RoundInvariant` | `Spec => []TypeOK`, `Spec => []RoundInv` |
| `StackBenchmarkProofs!PopsFind` | `Spec => []PopsFindValues` |
| `StackBenchmarkProofs!CallsAccounted` | `Spec => []CallsConserved` |
| `StackBenchmarkProofs!VerdictsRight` | `Spec => VerdictRight` |
| `StackBenchmarkProofs!LongestReported` | `Spec => ReportsLongest` |
| `EpochProofs!EpochNeverMoves` | `Spec => []EpochStuck` |
| `EpochProofs!RetiredInOneList` | `Spec => []RetiredOnce` |
| `SkipListProofs!TypeCorrect` | `Spec => []TypeOK` |
| `SkipListProofs!RetiredAtMostOnce` | `Spec => RetiredOnce`, whatever keys are shared |
| `SkipListProofs!MarksAreFinal` | `Exclusive /\ Spec => MarksFinal` |
| `SkipListProofs!BottomMarksFinal` | the same for the bottom level, whatever keys are shared |
| `SkipListProofs!ShapeInvariant` | `Exclusive /\ Spec => []Shape` |
| `SkipListProofs!RetiredOutOfReach` | `Exclusive /\ Spec => []RetiredUnlinked` |
| `SkipListProofs!ListWellFormed` | `Exclusive /\ Spec => []ListShape` |
| `SkipListProofs!MapLinearizable` | `Exclusive /\ Spec => Linearizable`: `SkipList` implements `AbstractMap` |
| `SkipListProofs!RunInvariant` | `RunSpec => []RunInv`, without the aggressive test |
| `SkipListProofs!RunFreesEachTowerOnce` | `RunSpec => []FreesEachTowerOnce`, without the aggressive test |
| `SkipListProofs!RunFinalContents` | `RunSpec => []FinalContents`, without the aggressive test |
| `SkipListProofs!RunVerdictRight` | `RunSpec => VerdictRight`, without the aggressive test |

They hold for any number of threads, nodes, slots, tickets, cells, epochs, towers,
levels, keys, runs, pushes, pops and elements under the named assumptions of the
modules. The last four also assume that `Absent` is not among the values that the
list may hold.

*Induction.* The library's theorems on induction take a predicate as a parameter,
which no installed prover can instantiate. `Induction` states the principle for sets
of numbers, where it follows from `NatLessThanWellFounded`: a set of numbers that
has 0 and the successor of each of its members is `Nat`. From it come
the two facts the proofs need, that a function can be iterated for ever and that a
recursive sum exists; and from the second what a sum is when one of its terms
changes, when all are equal, and what bounds it.

*Hazard pointers.* `NoFreeWhileProtected` says that no step frees a node that a pop
has confirmed. It is not inductive. A scan decides slot by slot, so the
invariant has to say that a confirmed hazard sits in its slot and that a scan
of that node has not passed the slot (`HazardsOK`). That is preserved because a
node under scan is in the hands of its scanner (`PrivateOK`), so that it is not
the head, and a pop can confirm only the head (`ListsOK`); and because nobody
else writes the slot (`SlotsOK`). The step that needs it is `PopConfirm`: here the
second look at the head is what makes the hazard valid. The assumption
`StoreBuffer = 0` is needed: `stack_tso_free` refutes the theorem without it.

*Lists of the stack.* `SafeInv` says what the walks of the lists do not meet. That
no node is lost says more: the walk from `head` meets exactly the nodes that are
in the stack, each once, and ends; so does the walk from `to_reclaim` with the
retired nodes, and that of a scan with the nodes it has grabbed and not yet
decided on (`CompleteOK`). Every other allocated node is in the hands of a thread
(`InHandOK`). A walk is a recursive function, which iteration shows to exist; a
list is described by its sequence of nodes (`IsList`), and the proof shows that this
sequence is the walk. A step then puts a node in front of a list, takes the first
one off it, moves a whole list, or writes only nodes that are on no list. The step
that needs `SafeInv` is `PopSwap`: the compare-and-swap succeeds, and the `next` that it
installs was read long before, but the node is still the head and a hazard has
protected it all along, so that `next` has not changed in between (no ABA).
`NothingLeaked` is what `StackInv` says when no operation is in progress.

*The stack implements the atomic one.* The abstract stack is the data of the walk from
`head` on. By `StackInv` the abstract push is the compare-and-swap that publishes, and
the abstract pop the one that succeeds, or the second look at the head when it
finds NULL; calls and returns map to those of `AbstractStack`, and every other step
leaves the walk from `head`, its data and the outcomes alone.

*Types of the stack.* A load of `old_head->next` is well typed only if `old_head` is
not NULL, hence the conjunct `Dereferenceable`.

*Test-and-set locks.* `LockInv` says that the byte is set exactly while a thread is
inside, and that there is one at most. The bound of the sleeps needs that the
maximum is a doubling of the minimum (`BackoffAssumption`): the doublings of the
minimum up to it are closed under "double what is below the maximum" (`Doubling`),
where a maximum of another form would be passed by the last doubling.

*Ticket lock.* `TicketInv` says that the tickets in use are the
`Cardinality(Queued)` ones from `now_serving` on, in the arithmetic of the
counter; the proof needs the cardinality of a set to change by one when a thread
arrives or leaves, which is taken from `FiniteSetTheorems`. That the lock is a queue
needs one fact more, `FullInv`: no ticket of that window is missing. The queue of the
refinement mapping (`Line`, the thread at distance i - 1 in place i) then holds
every waiting thread once: `Acquire` appends to it, because the new ticket is the
end of the window; `Release` drops its head, because every distance shrinks by one
when `now_serving` moves; the other steps leave it alone (`LineSteps`).

*Lock benchmark.* `JobsInv` ties the holders of the abstract lock to the jobs in
their critical section, says that what a job has loaded is still current, and
that no job is left when the main thread resets the number (`PhasesOK`). The number
is the sum of what the jobs have added so far (`CountOK`), so it is
threads times acquisitions times cycles when all are joined, or a job was not
started, which is what `NeverWrong` says of the verdict. `TimesOK` says that the array
of times holds times of this run only, the longest of which is `longest`.

*Stack benchmark.* What is in the stack, with the failed pushes and without the missed
pops, is the prefill and the sum over the jobs of pushes minus pops (`CountOK`). If every
job pushes at least what it pops, no term of the sum is negative, and that of a job
that is about to pop is positive: a pop that finds the stack empty finds more pushes
failed than pops have missed so far, hence `PopsFindValues`. For the verdict, a value that was tried is in the stack, in the hands
of a job or in the log, and in one place at most (`ValuesOK`); the log has as many
ones as there are pops that found a value (`LogOK`). So the log is full exactly if
as many values were popped as there are, which by `CountOK` is exactly if no push
failed: `VerdictRight`, for any numbers of threads, pushes and pops.

*Epoch.* The argument of section 2, as the invariant `StuckInv`: what a thread expects
of cell 1 is never -1. `RetiredOnce` needs more (`AddInv`, `ListInv`): a tower on its
way to a list is in the hands of one thread, its `reclaim_next` is the head that
thread expects, and what a list starts with follows no retired tower. A walk is
the smallest set closed under `reclaim_next` (`Reachable`), not a recursive function,
so that "the walk from the new head is the new head and the old walk"
(`ReachableFrom`) has a proof without induction.

*Skip list, towers and marks.* The inductive invariant is `Inv` of `SkipListProofs`. `PrivateInv` says that
a tower that is not yet linked on the bottom level is known to its inserter only:
no pointer leads to it, no table of another thread holds it, nobody has marked
it. So whoever searches, marks or unlinks meets linked towers, and an inserter's
first store into its tower destroys no mark. `RetireInv` says that a removal on its way
to `add_to_reclaim_list` is the only one with its tower, that the tower is marked on
the bottom level and not retired yet; the step that needs it is `MarkCas` on the
bottom level, which succeeds only on an unmarked pointer, and a marked one stays
marked (`BottomMarksFinal`). `ApartInv` holds if keys are kept apart: no level that an
inserter has still to link is marked; without it `LinkStore` overwrites marks of
upper levels, which is why `MarksAreFinal` assumes `Exclusive`. `LocalInv` ties the
position of a search to the caller that waits for it. Most steps follow from two
lemmas: `Preserved` and `Quiet` reduce a step of one thread to what it moves
(`Moves`) and what it writes (`Writes`).

*Skip list, shape of the levels.* `Shape` is about where the pointers lead. The way
from a node along a level is the least set that has the node and is closed under the
pointers of the level (`Way`), so that a step which changes one pointer changes the
ways by an argument about sets; `ChainWay` shows that the walk of the model, a
recursive function, computes it, because keys increase and the towers are finitely
many. `Joined[l]` is the set of towers that an insertion has linked on level l, now or
before: it only grows. Pointers lead to joined towers with larger keys (`LinkInv`), every
joined tower that is not marked on a level is on the way from the header (`LinkedInv`),
towers are marked from the top down by a thread that goes on to the bottom (`MarkInv`),
a tower marked on the bottom is retired or in the hands of its remover (`HandInv`), and
what is retired is on no way from the header (`GoneInv`). For each thread, `Tracks` says
what it has come past: the node a search is at is joined and its key is smaller
(`CurInv`), the tables hold towers between which the key belongs (`TableInv`), and if a
live tower holds the key of the call, or the tower that a removal has marked is still
linked on a level, the search is on the way to it (`FindInv`). That last conjunct is
why a removal that comes to `add_to_reclaim_list` has unlinked its tower: the search
stops only past it, on every level (SkipList.c:472). A search may stand on towers that
were unlinked meanwhile; it is enough that joined towers still lead to where they are
needed. A step of one thread disturbs the others only in ways that `Frame` lists: marked pointers
stay, joined towers stay joined, the way from a joined tower to what is still in the list
stays a way. `OthersTrack` shows once that this keeps `Tracks` of every other thread, so
that each action has to show `Frame`, its own `Tracks` and `ListInv`; the
two compare-and-swaps that change a level (`Unlink` and `LinkCas`) and the `LinkStore`
that prepares one go through `WayWithout` and `WayWith`, what moving one pointer does to
the ways. `Exclusive` is needed: with shared keys `LinkStore` overwrites marks, two towers
may have one key, and a retired tower stays linked, as `skiplist_aggressive` shows.

*The skip list implements the abstract map.* The abstract map has, for each key, the value
of the tower that holds it and is not marked on the bottom level (`Held`); `Shape` says
that there is one at most. The step that takes effect is the compare-and-swap that
links the bottom level (`LinkCas` on level 0), the store of a value (`UpdateValue`),
or the mark of the bottom level (`MarkCas` on level 0); in the same step every search
of the key may report the new value. A removal that finds no element takes effect there,
because the key is still not in the list: nobody may have inserted it meanwhile
(`KeyGone`). A search settles what it reports when it reads a value or finds no element.
`SeenInv` says that it may report what the key has now, and `FoundInv` that it may
report the value of the tower it has come to, which may have been removed since;
if it has found none although the key is in the list now, then by `FindInv` the key
was out of the list at some moment of the call (`Missed`).
Beginnings and returns map to those of `AbstractMap`; every other step leaves the map
and the calls as they are (`MapStays`), among them all unlinking and all marks and links
of the upper levels.

*The benchmark of the skip list.* No assumption keeps the calls of the jobs apart; their
keys do, because thread `i` of `n` inserts and removes only keys that are `i` modulo `n`
(SkipListBenchmarks.c:86, 97), and the main thread inserts before there are others. So
`Sound`, which is `Inv`, `Apart` (no two calls under way conflict), `Shape` and `History`
together, is shown to be kept by a call that begins (`SoundBegin`, if it conflicts
with none), by each step of a call (`SoundWork`) and by its return (`SoundReturn`), where the
theorems on `Spec` get `Apart` from `Exclusive` and those on `RunSpec` get it from the
jobs. `RunInv` is `Sound` with three layers about `run_test`:

* *plans* (`PlanInv`). `Ahead[t]` is the job that thread `t` will be given, or what is left of
  it from the call it is in. It says of each call there what else must be ahead:
  keys belong to the thread; calls for one key come in the order insertion, search,
  removal, search for what is gone; what is inserted in a test that removes is removed
  later; what the correctness test inserts is looked for before that. Each job is such a
  plan, and the rest of a plan is one.
* *calls* (`WayInv`). The call under way, as `AbstractMap` has it, is the head of what is ahead,
  and a search may report only what its key has now, because nobody else changes a
  key of this thread.
* *books* (`BooksInv`). A key has its value in the map exactly if its insertion is neither
  pending nor failed and, in a test that removes, its removal is still pending
  (`Contents`); `missing` are keys whose insertion is over (`MissingOK`); and a thread of the
  correctness test still holds its test for good just if all its missing keys have
  their search for what was inserted still ahead (`VerdictOK`). A call is pending until
  it has taken effect in `AbstractMap`, not until it returns: a step that takes effect
  changes the map and the pending calls at once, every other step changes neither.

What is not yet at work or has been joined has nothing left to do (`PhaseInv`), so after the
last join nothing is pending. `FinalContents` is then `Contents`; `VerdictRight` is `VerdictOK`
with nothing ahead, and that each key belongs to one of the threads; and
`FreesEachTowerOnce` is `Shape` when no thread is in a call: what is marked on the bottom level
is retired, what is retired is on no way from the header, every other tower is on
it. The invariant is needed because none of the three is inductive: they speak of
the end of a round, and what is in the list then is a matter of what each thread had
still to do all along. The three layers were checked by TLC before they were proved,
with the instance of `skiplist_benchmark` and with two elements for each thread,
four towers and one level (369 028 states).

The assumptions are those the code meets: the aggressive test shares keys, and
`skiplist_aggressive` refutes `FreesEachTowerOnce` with it; in the code a search that
finds nothing returns -1 and writes no value.

Only model-checked: liveness under fairness, which is out of the prover's reach
(`LockFree`, `DeadlockFree`, `StarvationFree`, `Terminates`); and `RetiredBounded` of the stack,
whose bound is right for the instance of its run.

## 5. Not modelled

* The main programs, printing of errors and tables, averages of times: no
  state of their own, or floating-point arithmetic.
* `stack_get_errno` and its skip list twin: called nowhere. The writes of the
  stack's `errno` are in the model, and no action reads it.
* The memory of a half-initialised `struct Stack` or `struct SkipList` (`InitHalfway`,
  and the third case of `Prepare`, end in a crash).
* Machines with weaker ordering than x86. The skip list is modelled with
  sequential consistency only: its stores to shared memory are compare-and-swaps,
  or stores into towers that a later compare-and-swap publishes; the exceptions
  are the stores of a value and of `max_level`, whose delay only makes a search
  start lower or report an older value.
* The matrix multiplication of lab1: each thread writes rows of its own, computed
  before it starts, and reads matrices that nobody writes. No order of steps
  matters, and what is left is floating-point arithmetic.
* Skip lists with shared keys beyond `skiplist_aggressive`: more threads or levels
  with the aggressive job have more states than TLC can visit here.

## 6. What could follow

1. `Matrix`: the row partition of lab1 as operators (`left = i * (rank div n)`, the last
   thread takes the rest), with the theorem that each row is in one part.
2. A bound of the nodes waiting to be freed that holds for any number of threads and
   slots, in place of `RetiredBounded`: it has to count the scans under way.
3. Store buffers in `SkipList`, to check the argument of section 5.
