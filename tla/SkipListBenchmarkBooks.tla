----------------------- MODULE SkipListBenchmarkBooks -----------------------
(***************************************************************************)
(* The parts of the invariant of the skip list's benchmark that are about  *)
(* run_test: what each thread has yet to do, from the call it is in, and   *)
(* what the list holds and the threads have seen in terms of that.         *)
(* SkipListProofs proves them for any round.                               *)
(***************************************************************************)
EXTENDS SkipListBenchmark

\* The job each thread will be given, or what is left of it.
Jobs == [t \in Thread |-> Job(t)]

Ahead == [t \in Thread |->
  IF t < num_threads /\ (main = "Prefill" \/ (main = "Spawn" /\ thread_i <= t))
  THEN Jobs[t] ELSE todo[t]]

JobRecord == [op : {"insert", "remove", "search"}, key : Keys,
              expect : {"any", "found", "absent"}]

\* What kind of call c is.
Kind(c) == IF c.op = "search" THEN c.expect ELSE c.op

\* The order of the calls that a job makes for a key.
Rank(o) == CASE o = "insert" -> 0
             [] o = "remove" -> 2
             [] o = "absent" -> 3
             [] OTHER        -> 1

Inserting == {"correctness", "insert", "mixed"}  \* tests whose jobs insert
Removing  == {"correctness", "remove", "mixed"}  \* tests whose jobs remove

\* The keys that a round of n threads inserts.
Pushed(n) == 0 .. Elements * n - 1

\* The call number j of s is of kind o, for key k.
CallIs(s, j, o, k) == Kind(s[j]) = o /\ s[j].key = k
Occurs(s, o, k)    == \E j \in 1 .. Len(s) : CallIs(s, j, o, k)
Follows(s, j, o)   == \E m \in j + 1 .. Len(s) : CallIs(s, m, o, s[j].key)

\* The call number j may stand in the calls s that thread t has ahead in a round of
\* n threads of the test tst.
PlanCall(t, s, j, n, tst) ==
  /\ IF t = Main THEN Kind(s[j]) = "insert" /\ tst \notin Inserting
     ELSE t < n /\ s[j].key % n = t
  /\ Kind(s[j]) # "any" => s[j].key \in Pushed(n)
  /\ s[j].op # "search" => s[j].expect = "any"
  /\ Kind(s[j]) = "insert" /\ t # Main => tst \in Inserting
  /\ Kind(s[j]) = "remove" => tst \in Removing
  /\ Kind(s[j]) \in {"found", "absent"} => tst = "correctness"
  /\ Kind(s[j]) = "insert" /\ t # Main /\ tst \in Removing => Follows(s, j, "remove")
  /\ Kind(s[j]) = "insert" /\ tst = "correctness" => Follows(s, j, "found")
  /\ Kind(s[j]) = "found" => Follows(s, j, "remove")

Plan(t, s, n, tst) ==
  /\ s \in Seq(JobRecord)
  /\ \A j \in 1 .. Len(s) : PlanCall(t, s, j, n, tst)
  /\ \A i, j \in 1 .. Len(s) :
       i < j /\ s[i].key = s[j].key => Rank(Kind(s[i])) < Rank(Kind(s[j]))

\* With A ahead of the threads: their jobs remove what the main thread inserts.
Plans(A, n, tst) ==
  /\ \A t \in Thread : Plan(t, A[t], n, tst)
  /\ \A k \in Key : Occurs(A[Main], "insert", k) /\ tst \in Removing =>
       \E t \in Thread : Occurs(A[t], "remove", k)

\* The call c of AbstractMap has taken effect.
Effective(c) == c.op \in {"insert", "remove"} /\ Success \in c.results

\* A call of kind o for key k, of those in s, has yet to take effect, c being the
\* one under way; and so with A ahead of the threads and U under way.
Waits(s, c, o, k)   == \E j \in 1 .. Len(s) : CallIs(s, j, o, k) /\ ~(j = 1 /\ Effective(c))
Pending(A, U, o, k) == \E t \in Thread : Waits(A[t], U[t], o, k)

\* The calls under way are those at the heads of what is ahead.
Match(c, s) == c.op # "none" =>
  /\ s # <<>>
  /\ c.op = Head(s).op \/ (c.op = "report" /\ Head(s).op = "search")
  /\ c.key = Head(s).key /\ c.val = JobCall(Head(s).op, Head(s).key).val

\* What they may return: a search, what its key has now.
ResultsOK(c, M) ==
  /\ c.op = "insert" => c.results \in {{Failure}, {Success}}
  /\ c.op = "remove" => c.results \in {{}, {Success}}
  /\ c.op \in {"search", "report"} => c.results = {M[c.key]}

Calling(A, U, M) == \A t \in Thread : Match(U[t], A[t]) /\ ResultsOK(U[t], M)

\* What the list holds: what was inserted and is not removed yet.
Contents(A, U, M, miss, n, tst) == \A k \in Key :
  M[k] = IF /\ k \in Pushed(n) /\ k \notin miss
            /\ ~Pending(A, U, "insert", k)
            /\ tst \in Removing => Pending(A, U, "remove", k)
         THEN k ELSE Absent

\* A key is missing when its insertion is over, and if there is no list, only then.
MissingOK(A, U, miss, n, sl) ==
  /\ miss \subseteq Pushed(n)
  /\ \A k \in miss : ~Pending(A, U, "insert", k)
  /\ sl = "NULL" => \A k \in Pushed(n) : k \in miss \/ Pending(A, U, "insert", k)

\* A thread of the correctness test has seen that a key of its own is missing.
VerdictOK(A, miss, ec, n) == \A i \in 0 .. n - 1 :
  ec[i] <=> \A k \in miss : k % n = i => Occurs(A[i], "found", k)

\* The books of a round.
Books(A, U, M, miss, ec, n, tst, sl) ==
  /\ Contents(A, U, M, miss, n, tst)
  /\ MissingOK(A, U, miss, n, sl)
  /\ tst = "correctness" => VerdictOK(A, miss, ec, n)

-----------------------------------------------------------------------------
\* The phases of a round.
Working == {"Prefill", "Spawn", "Join", "Free"}

\* The threads that are at work.
Active(t) == \/ main = "Prefill" /\ t = Main
             \/ main = "Spawn" /\ t < thread_i
             \/ main = "Join" /\ thread_i <= t /\ t < num_threads

\* What the variables of run_test may be, in each of its phases.
RunTypes ==
  /\ test \in Tests
  /\ main \in Working \cup {"Init", "Return", "Exit", "Crash"}
  /\ num_threads \in Nat \ {0} /\ thread_i \in 0 .. num_threads
  /\ main \in Working \cup {"Init"} => num_threads <= MaxThreads
  /\ main \in Working => skiplist \in {"ready", "NULL"}
  /\ main \in {"Init", "Return"} => skiplist = "none"
  /\ todo \in [Thread -> Seq(JobRecord)]
  /\ executed_correctly \in [Index -> BOOLEAN]

\* Threads that are not at work have made all their calls, and on a list that does not
\* exist no call gets anywhere.
PhaseInv == Running =>
  /\ \A t \in Thread : ~Active(t) => Finished(t)
  /\ skiplist = "NULL" => \A t \in Thread : th[t].pc = "Idle"

\* The jobs go on as planned, the calls under way are those planned next, and the books
\* are right.
PlanInv == main \in Working => Plans(Ahead, num_threads, test)

WayInv == main \in Working => Calling(Ahead, Underway, Map)

BooksInv == main \in Working =>
  Books(Ahead, Underway, Map, missing, executed_correctly, num_threads, test, skiplist)

\* Towers have keys and values of calls.
FieldsInv == \A n \in Tower : n <= allocated => key[n] \in Key /\ value[n] \in Value
=============================================================================
