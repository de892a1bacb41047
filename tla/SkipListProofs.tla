--------------------------- MODULE SkipListProofs ---------------------------
(***************************************************************************)
(* Proofs about the skip list, for any number of threads, keys, towers and *)
(* levels: the types; and that a removed tower is retired once, whoever    *)
(* else inserts or removes its key.  If insertions of a key are kept apart *)
(* from other insertions and removals of it: marks are final, what is      *)
(* retired is out of every level, the levels are well formed, and the list *)
(* implements AbstractMap.                                                 *)
(*                                                                         *)
(* The first part is about the local states of the threads and the towers  *)
(* in their hands, whatever calls meet (Inv).  The second is about the     *)
(* ways through the levels and what each thread has come past (Shape), as  *)
(* long as no calls under way conflict (ApartInv).  The third is about     *)
(* what the calls return (History).  The fourth is about the benchmark,    *)
(* whose jobs keep their calls apart: what a round leaves in the list, and *)
(* what the test says of it.                                               *)
(***************************************************************************)
EXTENDS SkipListBenchmarkBooks, Induction, FiniteSetTheorems, SequenceTheorems, TLAPS

\* In fill_tables.
Searching == {"Load", "Look", "Unlink"}

\* An insertion that has its tower, and the level it links next.
Linking(r)   == r.op = "insert" /\ r.tower # NULL /\ r.pc # "Return"
LinkLevel(r) == IF r.pc \in Searching THEN r.to ELSE r.lvl

\* No level is linked yet: the tower is known to its thread only.
Unlinked(r) == Linking(r) /\ LinkLevel(r) = 0

\* A removal that has marked its tower, and is to retire it.
Retiring(r) == /\ r.op = "remove" /\ r.tower # NULL
               /\ r.pc \in Searching \cup {"Retire"}

\* What a thread keeps to itself, apart from its tower, points to p.
Refers(r, p) ==
  \/ p = r.cur \/ p = r.next \/ p = r.link.to
  \/ \E l \in Level : p = r.preds[l] \/ p = r.succs[l]

CallInv(r, k, lv) ==
  /\ r \in ThreadState
  /\ r.pc \in Searching => r.to <= r.lvl /\ r.to <= r.from
  /\ r.pc \in Searching /\ r.tower = NULL => r.to = 0
  /\ r.pc = "Place" => r.tower = NULL /\ r.lvl = 0
  /\ r.pc \in {"MaxStore", "LinkStore", "LinkCas"}
       => r.tower # NULL /\ r.op = "insert"
  /\ r.pc = "MaxStore" => r.lvl = 0
  /\ r.pc \in {"MarkLoad", "MarkCas", "Retire"}
       => r.tower # NULL /\ r.op = "remove"
  /\ r.pc = "MarkCas" /\ r.lvl = 0 => ~r.link.marked
  /\ Linking(r) => LinkLevel(r) <= lv[r.tower]
  /\ r.tower # NULL => r.op \in {"insert", "remove"} /\ k[r.tower] = r.key

LocalInv(r, k, lv) ==
  CallInv(r, k, lv) /\ (r.pc \in {"Look", "Unlink"} => r.next # NULL)

\* What a step of a search that has met n makes of the local state r.
GoesOn(r, s, n) ==
  /\ LocalInv(s, key, level)
  /\ s.op = r.op /\ s.key = r.key
  /\ Linking(s) = Linking(r)
  /\ Linking(r) => LinkLevel(s) = LinkLevel(r)
  /\ Retiring(s) = Retiring(r)
  /\ \A p \in Tower : Refers(s, p) => Refers(r, p) \/ p = n
  /\ \/ s.tower = r.tower
     \/ r.tower = NULL /\ r.op = "remove" /\ (Refers(r, s.tower) \/ s.tower = n)

\* What follows from the assumptions on the constants.
LEMMA Constants ==
  /\ TopLevel \in Nat /\ Towers \in Nat
  /\ NULL \notin Tower /\ Header \notin Tower
  /\ Calls \in [Thread -> SUBSET Call]
  /\ Header \in Node /\ 0 \in Level /\ TopLevel \in Level
  /\ Level \subseteq Nat /\ Tower \subseteq Nat \ {0}
  /\ NULL \in Pointer /\ Tower \subseteq Pointer /\ Tower \subseteq Node
BY CallsAssumption, BoundsAssumption
DEF NULL, Level, Header, Node, Tower, Pointer

\* A search is over, and goes on with its caller.
LEMMA FilledStep ==
  ASSUME TypeOK, NEW r, CallInv(r, key, level), r.pc \in Searching, r.lvl = r.to,
         NEW s, s = Filled(r)
  PROVE  GoesOn(r, s, NULL)
<1> USE Constants DEF TypeOK, GoesOn
<1>0. r \in ThreadState
  BY DEF CallInv
<1> DEFINE Rest == /\ s.op = r.op /\ s.key = r.key
                   /\ s.cur = r.cur /\ s.next = r.next /\ s.link = r.link
                   /\ s.preds = r.preds /\ s.succs = r.succs
                   /\ s.from = r.from /\ s.to = r.to
<1>1. CASE r.tower # NULL /\ r.op = "insert"
  <2>1. s = [r EXCEPT !.pc = "LinkStore"]
    BY <1>1 DEF Filled
  <2>2. s \in ThreadState
    BY <1>0, <2>1 DEF ThreadState
  <2>3. Rest /\ s.pc = "LinkStore" /\ s.tower = r.tower /\ s.lvl = r.lvl
    BY <1>0, <2>1 DEF ThreadState
  <2>4. LocalInv(s, key, level)
    BY <1>0, <1>1, <2>2, <2>3 DEF LocalInv, CallInv, Linking, LinkLevel, Searching
  <2>. QED
    BY <1>0, <1>1, <2>2, <2>3, <2>4
    DEF LocalInv, Linking, LinkLevel, Retiring, Refers, Searching
<1>2. CASE r.tower # NULL /\ r.op = "remove"
  <2>1. s = [r EXCEPT !.pc = "Retire"]
    BY <1>2 DEF Filled
  <2>2. s \in ThreadState
    BY <1>0, <2>1 DEF ThreadState
  <2>3. Rest /\ s.pc = "Retire" /\ s.tower = r.tower /\ s.lvl = r.lvl
    BY <1>0, <2>1 DEF ThreadState
  <2>4. LocalInv(s, key, level)
    BY <1>0, <1>2, <2>2, <2>3 DEF LocalInv, CallInv, Linking, LinkLevel, Searching
  <2>. QED
    BY <1>0, <1>2, <2>2, <2>3, <2>4
    DEF LocalInv, Linking, LinkLevel, Retiring, Refers, Searching
<1>3. CASE r.tower = NULL /\ r.op = "remove" /\ Found(r)
  <2>1. s = [r EXCEPT !.pc = "MarkLoad", !.tower = r.succs[0],
                       !.lvl = level[r.succs[0]]]
    BY <1>3 DEF Filled
  <2>5. r.succs[0] \in Tower /\ key[r.succs[0]] = r.key
    BY <1>0, <1>3 DEF Found, ThreadState, Pointer
  <2>6. level[r.succs[0]] \in Level
    BY <2>5
  <2>2. s \in ThreadState
    BY <1>0, <2>1, <2>5, <2>6 DEF ThreadState
  <2>3. Rest /\ s.pc = "MarkLoad" /\ s.tower = r.succs[0] /\ s.lvl = level[r.succs[0]]
    BY <1>0, <2>1 DEF ThreadState
  <2>4. LocalInv(s, key, level)
    BY <1>0, <1>3, <2>2, <2>3, <2>5, <2>6 DEF LocalInv, CallInv, Linking, LinkLevel, Searching
  <2>7. Refers(r, s.tower)
    BY <2>3 DEF Refers
  <2>8. \A p \in Tower : Refers(s, p) => Refers(r, p)
    BY <2>3 DEF Refers
  <2>. QED
    BY <1>3, <2>3, <2>4, <2>7, <2>8
    DEF Linking, LinkLevel, Retiring, Searching
<1>4. CASE /\ ~(r.tower # NULL /\ r.op \in {"insert", "remove"})
           /\ ~(r.tower = NULL /\ r.op = "remove" /\ Found(r))
  <2>1. s = [r EXCEPT !.pc = "Place"]
    BY <1>4 DEF Filled
  <2>2. s \in ThreadState
    BY <1>0, <2>1 DEF ThreadState
  <2>3. Rest /\ s.pc = "Place" /\ s.tower = r.tower /\ s.lvl = r.lvl
    BY <1>0, <2>1 DEF ThreadState
  <2>4. LocalInv(s, key, level)
    BY <1>0, <1>4, <2>2, <2>3 DEF LocalInv, CallInv, Linking, LinkLevel, Searching
  <2>. QED
    BY <1>0, <1>4, <2>2, <2>3, <2>4
    DEF LocalInv, Linking, LinkLevel, Retiring, Refers, Searching
<1>. QED
  BY <1>1, <1>2, <1>3, <1>4

\* A search ends on its level.
LEMMA DoneStep ==
  ASSUME TypeOK, NEW r, LocalInv(r, key, level), r.pc \in Searching,
         NEW n \in Pointer, NEW s, s = LevelDone(r, n)
  PROVE  GoesOn(r, s, n)
<1> USE Constants DEF TypeOK
<1> DEFINE q == [r EXCEPT !.preds[r.lvl] = r.cur, !.succs[r.lvl] = n, !.next = NULL]
           Rest(a) == /\ a.op = r.op /\ a.key = r.key /\ a.tower = r.tower
                      /\ a.link = r.link /\ a.from = r.from /\ a.to = r.to
<1>0. r \in ThreadState
  BY DEF LocalInv, CallInv
<1>1. q \in ThreadState
  BY <1>0 DEF ThreadState, Node, Pointer
<1>2. Rest(q) /\ q.pc = r.pc /\ q.lvl = r.lvl /\ q.cur = r.cur
  BY <1>0 DEF ThreadState
<1>3. \A p \in Tower : Refers(q, p) => Refers(r, p) \/ p = n
  BY <1>0 DEF ThreadState, Refers
<1> HIDE DEF q
<1>4. CASE r.lvl = r.to
  <2> DEFINE u == [q EXCEPT !.cur = Header]
  <2>1. s = Filled(u)
    BY <1>4 DEF LevelDone, q
  <2>2. u \in ThreadState
    BY <1>1 DEF ThreadState
  <2>3. Rest(u) /\ u.pc = r.pc /\ u.lvl = r.lvl
    BY <1>1, <1>2 DEF ThreadState
  <2>4. \A p \in Tower : Refers(u, p) => Refers(r, p) \/ p = n
    BY <1>1, <1>3 DEF ThreadState, Refers
  <2> HIDE DEF u
  <2>5. CallInv(u, key, level)
    BY <2>2, <2>3 DEF LocalInv, CallInv, Linking, LinkLevel, Searching
  <2>6. GoesOn(u, s, NULL)
    BY <1>4, <2>1, <2>3, <2>5, FilledStep
  <2>7. LinkLevel(u) = LinkLevel(r) /\ Linking(u) = Linking(r) /\ Retiring(u) = Retiring(r)
    BY <2>3 DEF Linking, LinkLevel, Retiring
  <2>8. s.tower \in Pointer
    BY <2>6 DEF GoesOn, LocalInv, CallInv, ThreadState
  <2>. QED
    BY <2>3, <2>4, <2>6, <2>7, <2>8 DEF GoesOn, Pointer
<1>5. CASE r.lvl # r.to
  <2>1. s = [q EXCEPT !.pc = "Load", !.lvl = r.lvl - 1]
    BY <1>0, <1>1, <1>2, <1>5 DEF LevelDone, q, ThreadState
  <2>2. r.lvl - 1 \in Level /\ r.to <= r.lvl - 1
    BY <1>0, <1>5 DEF LocalInv, CallInv, ThreadState, Level
  <2>3. s \in ThreadState
    BY <1>1, <2>1, <2>2, ZenonT(30) DEF ThreadState
  <2>4. Rest(s) /\ s.pc = "Load" /\ s.lvl = r.lvl - 1
    BY <1>1, <1>2, <2>1 DEF ThreadState
  <2>5. \A p \in Tower : Refers(s, p) => Refers(r, p) \/ p = n
    <3>1. /\ s.cur = q.cur /\ s.next = q.next /\ s.link = q.link
          /\ s.preds = q.preds /\ s.succs = q.succs
      BY <1>1, <2>1 DEF ThreadState
    <3>2. \A p : Refers(s, p) = Refers(q, p)
      BY ONLY <3>1 DEF Refers
    <3>. QED
      BY <1>3, <3>2
  <2>6. LinkLevel(s) = LinkLevel(r) /\ Linking(s) = Linking(r) /\ Retiring(s) = Retiring(r)
    BY <2>4 DEF Linking, LinkLevel, Retiring, Searching
  <2>7. LocalInv(s, key, level)
    BY <2>2, <2>3, <2>4, <2>6 DEF LocalInv, CallInv, Searching
  <2>. QED
    BY <2>4, <2>5, <2>6, <2>7 DEF GoesOn
<1>. QED
  BY <1>4, <1>5

\* A search meets n on its level.
LEMMA ArriveStep ==
  ASSUME TypeOK, NEW r, LocalInv(r, key, level), r.pc \in Searching,
         NEW n \in Pointer, NEW s, s = Arrive(r, n)
  PROVE  GoesOn(r, s, n)
<1> USE Constants DEF TypeOK
<1>1. CASE n = NULL
  BY <1>1, DoneStep DEF Arrive
<1>2. CASE n # NULL
  <2>0. r \in ThreadState
    BY DEF LocalInv, CallInv
  <2>1. s = [r EXCEPT !.pc = "Look", !.next = n]
    BY <1>2 DEF Arrive
  <2>2. s \in ThreadState
    BY <2>0, <2>1 DEF ThreadState
  <2>3. /\ s.op = r.op /\ s.key = r.key /\ s.tower = r.tower /\ s.pc = "Look"
        /\ s.lvl = r.lvl /\ s.from = r.from /\ s.to = r.to
        /\ s.cur = r.cur /\ s.next = n /\ s.link = r.link
        /\ s.preds = r.preds /\ s.succs = r.succs
    BY <2>0, <2>1 DEF ThreadState
  <2>4. LinkLevel(s) = LinkLevel(r) /\ Linking(s) = Linking(r) /\ Retiring(s) = Retiring(r)
    BY <2>3 DEF Linking, LinkLevel, Retiring, Searching
  <2>5. LocalInv(s, key, level)
    BY <1>2, <2>2, <2>3, <2>4 DEF LocalInv, CallInv, Searching
  <2>6. \A p \in Tower : Refers(s, p) => Refers(r, p) \/ p = n
    BY <2>3 DEF Refers
  <2>. QED
    BY <2>3, <2>4, <2>5, <2>6 DEF GoesOn
<1>. QED
  BY <1>1, <1>2

\* s is r at the start of a search.
Started(s, r, from, to) ==
  /\ s \in ThreadState
  /\ s.op = r.op /\ s.key = r.key /\ s.tower = r.tower /\ s.pc = "Load"
  /\ s.lvl = from /\ s.from = from /\ s.to = to
  /\ s.val = r.val /\ s.results = r.results /\ s.out = r.out
  /\ s.cur = Header /\ \A l \in Level : s.preds[l] = Header /\ s.succs[l] = NULL
  /\ \A p \in Tower : ~Refers(s, p)

\* What a call to fill_tables starts with.
LEMMA FillStep ==
  ASSUME NEW r \in ThreadState, NEW from \in Level, NEW to \in Level, to <= from,
         NEW s, s = Fill(r, from, to)
  PROVE  Started(s, r, from, to)
<1> USE Constants
<1> DEFINE q     == [r EXCEPT !.from = from, !.to = to]
           link  == Unmarked(NULL)
           preds == [l \in Level |-> Header]
           succs == [l \in Level |-> NULL]
<1>1. q \in ThreadState
  BY DEF ThreadState
<1>2. /\ q.op = r.op /\ q.key = r.key /\ q.tower = r.tower /\ q.from = from /\ q.to = to
      /\ q.val = r.val /\ q.results = r.results /\ q.out = r.out
  BY DEF ThreadState
<1>3. link \in Link /\ preds \in [Level -> Node] /\ succs \in [Level -> Pointer]
  BY DEF Unmarked, Link
<1>4. /\ link.to = NULL
      /\ \A l \in Level : preds[l] = Header /\ succs[l] = NULL
  BY DEF Unmarked
<1> HIDE DEF q
<1> DEFINE u == [q EXCEPT !.pc = "Load", !.cur = Header, !.lvl = from, !.next = NULL]
<1>5. s = [u EXCEPT !.link = link, !.preds = preds, !.succs = succs]
  BY <1>2 DEF Fill, Reset, NoCall, q
<1>6. /\ u \in ThreadState
      /\ u.op = q.op /\ u.key = q.key /\ u.tower = q.tower /\ u.pc = "Load"
      /\ u.lvl = from /\ u.from = q.from /\ u.to = q.to
      /\ u.cur = Header /\ u.next = NULL
      /\ u.val = q.val /\ u.results = q.results /\ u.out = q.out
  BY <1>1 DEF ThreadState
<1> HIDE DEF link, preds, succs, u
<1>7. s \in ThreadState
  BY <1>3, <1>5, <1>6, ZenonT(30) DEF ThreadState
<1>8. /\ s.op = u.op /\ s.key = u.key /\ s.tower = u.tower /\ s.pc = u.pc
      /\ s.lvl = u.lvl /\ s.from = u.from /\ s.to = u.to
      /\ s.cur = u.cur /\ s.next = u.next
      /\ s.val = u.val /\ s.results = u.results /\ s.out = u.out
  BY <1>5, <1>6 DEF ThreadState
<1>9. s.link = link /\ s.preds = preds /\ s.succs = succs
  BY <1>5, <1>6 DEF ThreadState
<1>10. \A p \in Tower : ~Refers(s, p)
  BY <1>4, <1>6, <1>8, <1>9 DEF Refers
<1>. QED
  BY <1>2, <1>4, <1>6, <1>7, <1>8, <1>9, <1>10 DEF Started
-----------------------------------------------------------------------------
(***************************************************************************)
(* The inductive invariant.  A tower that is not allocated yet, or not     *)
(* linked on the bottom level, is known to nobody but its inserter.        *)
(***************************************************************************)
Private(n) ==
  n > allocated \/ \E t \in Thread : Unlinked(th[t]) /\ th[t].tower = n

Locals == \A t \in Thread : LocalInv(th[t], key, level)

PrivateInv ==
  /\ \A t \in Thread : th[t].tower <= allocated
  /\ \A t, u \in Thread : Unlinked(th[t]) /\ th[u].tower = th[t].tower => u = t
  /\ \A n \in Tower : Private(n) =>
       /\ \A m \in Node, l \in Level : forward[m][l].to # n
       /\ \A l \in Level : ~forward[n][l].marked
       /\ \A t \in Thread : ~Refers(th[t], n)

\* Whoever marks a bottom level is the one to retire the tower.
RetireInv ==
  /\ \A n \in retired : forward[n][0].marked
  /\ \A t \in Thread : Retiring(th[t]) =>
       forward[th[t].tower][0].marked /\ th[t].tower \notin retired
  /\ \A t, u \in Thread :
       Retiring(th[t]) /\ Retiring(th[u]) /\ th[t].tower = th[u].tower => t = u

Inv == TypeOK /\ Locals /\ PrivateInv /\ RetireInv

\* The insertions of a key that are under way are apart from other insertions and
\* removals of it.
Apart == \A t, u \in Thread : t # u => ~Conflict(th[t], th[u])

\* If they always have been, nobody marks a tower before it is linked on all its levels.
WholeInv ==
  \A t \in Thread : Linking(th[t]) =>
    \A l \in Level : l >= LinkLevel(th[t]) => ~forward[th[t].tower][l].marked

ApartInv == Apart /\ WholeInv

\* What every step keeps.
Kept == Inv' /\ (ApartInv /\ Apart' => ApartInv')

\* The same local state but for the results of its call.
Alike(s, r) ==
  /\ s \in ThreadState
  /\ s.pc = r.pc /\ s.op = r.op /\ s.key = r.key
  /\ s.lvl = r.lvl /\ s.from = r.from /\ s.to = r.to
  /\ s.cur = r.cur /\ s.next = r.next /\ s.link = r.link
  /\ s.tower = r.tower /\ s.preds = r.preds /\ s.succs = r.succs

\* What the invariant says of s and of r is the same.
Same(s, r, k, lv) ==
  /\ s.op = r.op /\ s.key = r.key /\ s.tower = r.tower
  /\ Linking(s) = Linking(r) /\ LinkLevel(s) = LinkLevel(r)
  /\ Unlinked(s) = Unlinked(r) /\ Retiring(s) = Retiring(r)
  /\ LocalInv(s, k, lv) = LocalInv(r, k, lv)
  /\ \A p : Refers(s, p) = Refers(r, p)

\* Local states that are alike keep the same invariant.
LEMMA AlikeSame ==
  ASSUME NEW r \in ThreadState, NEW s, Alike(s, r), NEW k, NEW lv
  PROVE  Same(s, r, k, lv)
<1>1. Linking(s) = Linking(r) /\ LinkLevel(s) = LinkLevel(r) /\ Retiring(s) = Retiring(r)
  BY DEF Alike, Linking, LinkLevel, Retiring
<1>2. \A p : Refers(s, p) = Refers(r, p)
  BY DEF Alike, Refers
<1>3. CallInv(s, k, lv) = CallInv(r, k, lv)
  BY <1>1 DEF Alike, CallInv
<1>. QED
  BY <1>1, <1>2, <1>3 DEF Alike, LocalInv, Unlinked, Same

\* A step that is not a linearization point changes its own thread only ...
LEMMA BecomeStep ==
  ASSUME TypeOK, NEW t \in Thread, NEW s \in ThreadState, Become(t, s)
  PROVE  /\ th' \in [Thread -> ThreadState]
         /\ Alike(th'[t], s)
         /\ \A u \in Thread \ {t} : Alike(th'[u], th[u])
BY DEF TypeOK, Become, Alike

\* ... and one that is, the results of searches for its key.
LEMMA TakeEffectStep ==
  ASSUME TypeOK, NEW t \in Thread, NEW s \in ThreadState, TakeEffect(t, s)
  PROVE  /\ th' \in [Thread -> ThreadState]
         /\ Alike(th'[t], s)
         /\ \A u \in Thread \ {t} : Alike(th'[u], th[u])
<1> DEFINE q(u) == th[u].results \cup {s.val}
<1>1. th = [u \in Thread |-> th[u]] /\ \A u \in Thread : th[u] \in ThreadState
  BY DEF TypeOK
<1>2. {Success} \in SUBSET Outcome /\ s.val \in Outcome
  BY DEF ThreadState, Outcome
<1>3. \A r \in ThreadState, R \in SUBSET Outcome :
        Alike([r EXCEPT !.results = R], r)
  BY DEF Alike, ThreadState
<1>4. \A u \in Thread : q(u) \in SUBSET Outcome
  BY <1>1, <1>2, Zenon DEF ThreadState
<1>5. \A r \in ThreadState : Alike(r, r)
  BY DEF Alike
<1>6. Alike(th'[t], s)
  BY <1>2, <1>3 DEF TakeEffect
<1>7. ASSUME NEW u \in Thread \ {t}
      PROVE  Alike(th'[u], th[u])
  <2>1. CASE th[u].op = "search" /\ th[u].key = s.key
    <3>1. th'[u] = [th[u] EXCEPT !.results = q(u)]
      BY <2>1 DEF TakeEffect
    <3>. QED
      BY <1>1, <1>3, <1>4, <3>1
  <2>2. CASE ~(th[u].op = "search" /\ th[u].key = s.key)
    <3>1. th'[u] = th[u]
      BY <2>2 DEF TakeEffect
    <3>. QED
      BY <1>1, <1>5, <3>1
  <2>. QED
    BY <2>1, <2>2
<1>8. th' = [u \in Thread |-> th'[u]]
  BY DEF TakeEffect
<1>. QED
  BY <1>6, <1>7, <1>8 DEF Alike
-----------------------------------------------------------------------------
(***************************************************************************)
(* What the steps that allocate nothing have in common: thread t goes from *)
(* the local state r to s, and the list changes at the tower of r, or      *)
(* where no mark is.                                                       *)
(***************************************************************************)
Moves(r, s) ==
  /\ LocalInv(s, key, level)
  /\ \/ s.tower \in {NULL, r.tower}
     \/ r.tower = NULL /\ s.tower \in Tower /\ ~Private(s.tower)
  /\ Linking(s) => Linking(r) /\ LinkLevel(r) <= LinkLevel(s)
  /\ \A p \in Tower : Refers(s, p) => ~Private(p)

Writes(r, s) ==
  /\ \A m \in Node, l \in Level, p \in Tower : forward'[m][l].to = p =>
       ~Private(p) \/ (p = r.tower /\ ~Unlinked(s))
  /\ \A n \in Tower, l \in Level : forward'[n][l].marked =>
       forward[n][l].marked \/ (n = r.tower /\ r.op = "remove")
  /\ \A n \in Tower : forward[n][0].marked => forward'[n][0].marked
  /\ Retiring(s) => /\ s.tower = r.tower
                    /\ \/ Retiring(r)
                       \/ ~forward[s.tower][0].marked /\ forward'[s.tower][0].marked
  /\ \/ retired' = retired
     \/ retired' = retired \cup {r.tower} /\ Retiring(r) /\ ~Retiring(s)

\* A step that writes no pointer keeps what is known of the marks.
LEMMA QuietWrites ==
  ASSUME Inv, NEW t \in Thread, NEW s, UNCHANGED <<forward, retired>>,
         Retiring(s) => Retiring(th[t]) /\ s.tower = th[t].tower
  PROVE  Writes(th[t], s)
BY Constants DEF Inv, PrivateInv, Writes

\* A step that allocates nothing keeps the invariant, if it moves and writes as its call may.
LEMMA Preserved ==
  ASSUME Inv, NEW t \in Thread, NEW s \in ThreadState,
         Become(t, s) \/ TakeEffect(t, s),
         UNCHANGED <<key, level, allocated>>,
         forward' \in [Node -> [Level -> Link]],
         value' \in [Tower -> Value \cup {Absent}], max_level' \in Level,
         Moves(th[t], s), Writes(th[t], s)
  PROVE  Kept
<1> USE Constants
<1> DEFINE r == th[t]
<1>1. /\ th' \in [Thread -> ThreadState]
      /\ Alike(th'[t], s)
      /\ \A u \in Thread \ {t} : Alike(th'[u], th[u])
  BY BecomeStep, TakeEffectStep DEF Inv
<1>2. \A u \in Thread : th[u] \in ThreadState /\ th[u].tower \in Pointer
  BY DEF Inv, TypeOK, ThreadState
<1>3. /\ th'[t].op = s.op /\ th'[t].key = s.key /\ th'[t].tower = s.tower
      /\ Linking(th'[t]) = Linking(s) /\ LinkLevel(th'[t]) = LinkLevel(s)
      /\ Unlinked(th'[t]) = Unlinked(s) /\ Retiring(th'[t]) = Retiring(s)
      /\ LocalInv(th'[t], key, level) = LocalInv(s, key, level)
      /\ \A p : Refers(th'[t], p) = Refers(s, p)
  <2>1. Same(th'[t], s, key, level)
    BY <1>1, AlikeSame
  <2>. QED
    BY <2>1 DEF Same
<1>4. \A u \in Thread \ {t} :
        /\ th'[u].op = th[u].op /\ th'[u].key = th[u].key /\ th'[u].tower = th[u].tower
        /\ Linking(th'[u]) = Linking(th[u]) /\ LinkLevel(th'[u]) = LinkLevel(th[u])
        /\ Unlinked(th'[u]) = Unlinked(th[u]) /\ Retiring(th'[u]) = Retiring(th[u])
        /\ LocalInv(th'[u], key, level) = LocalInv(th[u], key, level)
        /\ \A p : Refers(th'[u], p) = Refers(th[u], p)
  <2> SUFFICES ASSUME NEW u \in Thread \ {t}
               PROVE  Same(th'[u], th[u], key, level)
    BY DEF Same
  <2>1. Alike(th'[u], th[u]) /\ th[u] \in ThreadState
    BY <1>1, <1>2
  <2>. QED
    BY <2>1, AlikeSame
<1>5. r \in ThreadState /\ r.tower \in Pointer /\ s.tower \in Pointer
  BY <1>2 DEF ThreadState
<1>6. Unlinked(s) => Unlinked(r) /\ s.tower = r.tower /\ r.tower \in Tower
  <2>1. LinkLevel(r) \in Nat /\ LinkLevel(s) \in Nat
    BY <1>5 DEF LinkLevel, ThreadState
  <2>. QED
    BY <1>5, <2>1 DEF Unlinked, Linking, Moves, Pointer
<1>7. \A n : Private(n)' => Private(n)
  BY <1>3, <1>4, <1>6 DEF Private
<1>8. TypeOK'
  <2>1. retired' \subseteq Tower
    BY <1>5 DEF Inv, TypeOK, Writes, Retiring, Pointer
  <2>. QED
    BY <1>1, <2>1 DEF Inv, TypeOK
<1>9. Locals'
  BY <1>3, <1>4 DEF Inv, Locals, Moves
<1>10. PrivateInv'
  <2>1. \A u \in Thread : th'[u].tower <= allocated'
    <3>1. allocated \in Nat
      BY DEF Inv, TypeOK
    <3>2. s.tower <= allocated
      BY <1>5, <3>1 DEF Moves, Inv, PrivateInv, Private, Tower, NULL
    <3>. QED
      BY <1>3, <1>4, <3>2 DEF Inv, PrivateInv
  <2>2. ASSUME NEW a \in Thread, NEW b \in Thread,
               Unlinked(th'[a]), th'[b].tower = th'[a].tower
        PROVE  b = a
    <3>1. CASE a = t
      BY <1>3, <1>4, <1>6, <2>2, <3>1 DEF Inv, PrivateInv
    <3>2. CASE a # t /\ b # t
      BY <1>4, <2>2, <3>2 DEF Inv, PrivateInv
    <3>3. CASE a # t /\ b = t
      <4>1. Unlinked(th[a]) /\ s.tower = th[a].tower
        BY <1>3, <1>4, <2>2, <3>3
      <4>2. Private(s.tower) /\ s.tower # NULL
        BY <4>1 DEF Private, Unlinked, Linking
      <4>3. r.tower = th[a].tower
        BY <4>1, <4>2 DEF Moves
      <4>. QED
        BY <4>1, <4>3, <3>3 DEF Inv, PrivateInv
    <3>. QED
      BY <3>1, <3>2, <3>3
  <2>3. ASSUME NEW n \in Tower, Private(n)'
        PROVE  /\ \A m \in Node, l \in Level : forward'[m][l].to # n
               /\ \A l \in Level : ~forward'[n][l].marked
               /\ \A u \in Thread : ~Refers(th'[u], n)
    <3>1. Private(n)
      BY <1>7, <2>3
    <3>2. ASSUME n = r.tower
          PROVE  Unlinked(s) /\ r.op = "insert"
      <4>1. ~(n > allocated)
        BY <3>2 DEF Inv, TypeOK, PrivateInv, Tower
      <4>2. PICK a \in Thread : Unlinked(th'[a]) /\ th'[a].tower = n
        BY <2>3, <4>1 DEF Private
      <4>3. CASE a # t
        <5>1. Unlinked(th[a]) /\ th[a].tower = r.tower
          BY <1>4, <3>2, <4>2, <4>3
        <5>. QED
          BY <5>1, <4>3 DEF Inv, PrivateInv
      <4>4. CASE a = t
        BY <1>3, <1>6, <4>2, <4>4 DEF Unlinked, Linking
      <4>. QED
        BY <4>3, <4>4
    <3>3. \A m \in Node, l \in Level : forward'[m][l].to # n
      BY <3>1, <3>2 DEF Writes
    <3>4. \A l \in Level : ~forward'[n][l].marked
      BY <3>1, <3>2 DEF Writes, Inv, PrivateInv
    <3>5. \A u \in Thread : ~Refers(th'[u], n)
      BY <1>3, <1>4, <3>1 DEF Moves, Inv, PrivateInv
    <3>. QED
      BY <3>3, <3>4, <3>5
  <2>. QED
    BY <2>1, <2>2, <2>3 DEF PrivateInv
<1>11. RetireInv'
  <2>0. \A u \in Thread : Retiring(th[u]) => th[u].tower \in Tower
    BY <1>2 DEF Retiring, Pointer
  <2>1. \A n \in retired' : forward'[n][0].marked
    BY <2>0 DEF Inv, TypeOK, RetireInv, Writes
  <2>2. ASSUME NEW a \in Thread, Retiring(th'[a])
        PROVE  forward'[th'[a].tower][0].marked /\ th'[a].tower \notin retired'
    <3>1. CASE a # t
      <4>1. Retiring(th[a]) /\ th'[a].tower = th[a].tower /\ th[a].tower \in Tower
        BY <1>4, <2>0, <2>2, <3>1
      <4>2. th[a].tower \notin retired'
        BY <3>1, <4>1 DEF Inv, RetireInv, Writes
      <4>. QED
        BY <4>1, <4>2 DEF Inv, RetireInv, Writes
    <3>2. CASE a = t
      <4>1. Retiring(s) /\ th'[a].tower = r.tower /\ retired' = retired
        BY <1>3, <2>2, <3>2 DEF Writes
      <4>2. r.tower \in Tower
        BY <1>5, <4>1, <1>3, <3>2 DEF Retiring, Pointer
      <4>3. CASE Retiring(r)
        BY <4>1, <4>2, <4>3 DEF Inv, RetireInv, Writes
      <4>4. CASE ~Retiring(r)
        <5>1. ~forward[r.tower][0].marked /\ forward'[r.tower][0].marked
          BY <4>1, <4>4 DEF Writes
        <5>. QED
          BY <4>1, <5>1 DEF Inv, RetireInv
      <4>. QED
        BY <4>3, <4>4
    <3>. QED
      BY <3>1, <3>2
  <2>3. ASSUME NEW a \in Thread, NEW b \in Thread, Retiring(th'[a]), Retiring(th'[b]),
               th'[a].tower = th'[b].tower
        PROVE  a = b
    <3>1. ASSUME NEW u \in Thread, u # t, Retiring(th[u]), Retiring(s),
                 th[u].tower = s.tower
          PROVE  FALSE
      <4>1. forward[s.tower][0].marked
        BY <3>1 DEF Inv, RetireInv
      <4>2. Retiring(r) /\ r.tower = th[u].tower
        BY <3>1, <4>1 DEF Writes
      <4>. QED
        BY <3>1, <4>2 DEF Inv, RetireInv
    <3>2. CASE a # t /\ b # t
      BY <1>4, <2>3, <3>2 DEF Inv, RetireInv
    <3>3. CASE a = t /\ b # t
      BY <1>3, <1>4, <2>3, <3>1, <3>3
    <3>4. CASE a # t /\ b = t
      BY <1>3, <1>4, <2>3, <3>1, <3>4
    <3>. QED
      BY <3>2, <3>3, <3>4
  <2>. QED
    BY <2>1, <2>2, <2>3 DEF RetireInv
<1>12. ASSUME ApartInv, Apart'
       PROVE  ApartInv'
  <2>3. ASSUME NEW a \in Thread, Linking(th'[a]),
               NEW l \in Level, l >= LinkLevel(th'[a])
        PROVE  ~forward'[th'[a].tower][l].marked
    <3>1. /\ Linking(th[a]) /\ l >= LinkLevel(th[a])
          /\ th'[a].tower = th[a].tower /\ th[a].tower \in Tower
      <4>1. CASE a # t
        BY <1>2, <1>4, <2>3, <4>1 DEF Linking, Pointer
      <4>2. CASE a = t
        <5>1. Linking(s) /\ Linking(r) /\ LinkLevel(r) <= LinkLevel(s) /\ l >= LinkLevel(s)
          BY <1>3, <2>3, <4>2 DEF Moves
        <5>2. LinkLevel(r) \in Nat /\ LinkLevel(s) \in Nat /\ l \in Nat
          BY <1>5 DEF LinkLevel, ThreadState
        <5>3. s.tower = r.tower /\ r.tower \in Tower
          BY <1>5, <5>1 DEF Linking, Moves, Pointer
        <5>. QED
          BY <1>3, <4>2, <5>1, <5>2, <5>3
      <4>. QED
        BY <4>1, <4>2
    <3>2. ~forward[th[a].tower][l].marked
      BY <1>12, <3>1 DEF ApartInv, WholeInv
    <3>3. ASSUME th[a].tower = r.tower, r.op = "remove"
          PROVE  FALSE
      <4>1. a # t /\ th[a].op = "insert"
        BY <3>1, <3>3 DEF Linking
      <4>2. th[a].key = r.key
        BY <3>1, <3>3 DEF Inv, Locals, LocalInv, CallInv
      <4>3. Conflict(th[a], r)
        BY <3>3, <4>1, <4>2 DEF Conflict
      <4>. QED
        BY <1>12, <4>1, <4>3 DEF ApartInv, Apart
    <3>. QED
      BY <3>1, <3>2, <3>3 DEF Writes
  <2>. QED
    BY <1>12, <2>3 DEF ApartInv, WholeInv
<1>. QED
  BY <1>8, <1>9, <1>10, <1>11, <1>12 DEF Inv, Kept
-----------------------------------------------------------------------------
\* ... in particular one that writes no pointer.
LEMMA Quiet ==
  ASSUME Inv, NEW t \in Thread, NEW s \in ThreadState,
         Become(t, s) \/ TakeEffect(t, s),
         UNCHANGED <<forward, key, level, allocated, retired>>,
         value' \in [Tower -> Value \cup {Absent}], max_level' \in Level,
         Moves(th[t], s), Retiring(s) => Retiring(th[t]) /\ s.tower = th[t].tower
  PROVE  Kept
<1>1. forward' \in [Node -> [Level -> Link]]
  BY DEF Inv, TypeOK
<1>2. Writes(th[t], s)
  BY QuietWrites
<1>. QED
  BY <1>1, <1>2, Preserved

\* What a thread has met is not private, nor is what a pointer of the list leads to.
LEMMA Met ==
  ASSUME Inv
  PROVE  /\ \A t \in Thread : th[t] \in ThreadState /\ LocalInv(th[t], key, level)
         /\ \A t \in Thread, p \in Tower : Refers(th[t], p) => ~Private(p)
         /\ \A m \in Node, l \in Level :
              /\ forward[m][l] \in Link /\ forward[m][l].to \in Pointer
              /\ forward[m][l].to \in Tower => ~Private(forward[m][l].to)
<1>1. \A m \in Node, l \in Level : forward[m][l] \in Link
  BY DEF Inv, TypeOK
<1>2. \A m \in Node, l \in Level : forward[m][l].to \in Pointer
  BY <1>1 DEF Link
<1>. QED
  BY <1>1, <1>2 DEF Inv, TypeOK, Locals, PrivateInv

\* fill_tables comes to a node.
LEMMA SearchStep ==
  ASSUME Inv, NEW t \in Thread, NEW s, NEW n \in Pointer, n \in Tower => ~Private(n),
         GoesOn(th[t], s, n)
  PROVE  /\ s \in ThreadState
         /\ Moves(th[t], s)
         /\ Retiring(s) => Retiring(th[t]) /\ s.tower = th[t].tower
<1> USE Constants
<1>1. s \in ThreadState /\ s.tower \in Pointer
  BY DEF GoesOn, LocalInv, CallInv, ThreadState
<1>2. /\ \A p \in Tower : Refers(th[t], p) => ~Private(p)
      /\ th[t] \in ThreadState
  BY Met
<1>3. LinkLevel(th[t]) \in Nat
  BY <1>2 DEF LinkLevel, ThreadState
<1>4. \/ s.tower \in {NULL, th[t].tower}
      \/ th[t].tower = NULL /\ s.tower \in Tower /\ ~Private(s.tower)
  BY <1>1, <1>2 DEF GoesOn, Pointer
<1>5. Moves(th[t], s)
  BY <1>2, <1>3, <1>4 DEF Moves, GoesOn
<1>6. Retiring(s) => Retiring(th[t]) /\ s.tower = th[t].tower
  BY DEF GoesOn, Retiring
<1>. QED
  BY <1>1, <1>5, <1>6

\* A call ends, with any outcome.
LEMMA EndingStep ==
  ASSUME Inv, NEW t \in Thread, NEW o \in Outcome,
         NEW s, s \in {Ending(th[t]), Ending([th[t] EXCEPT !.out = o])}
  PROVE  /\ s \in ThreadState
         /\ s.tower = th[t].tower /\ ~Linking(s) /\ ~Retiring(s)
         /\ Moves(th[t], s)
<1> USE Constants
<1> DEFINE r == th[t]
<1>1. r \in ThreadState /\ LocalInv(r, key, level)
  BY Met
<1>2. /\ s \in ThreadState
      /\ s.pc = "Return" /\ s.op = r.op /\ s.key = r.key /\ s.tower = r.tower
      /\ s.cur = r.cur /\ s.next = r.next /\ s.link = r.link
      /\ s.preds = r.preds /\ s.succs = r.succs
  <2>1. CASE s = Ending(r)
    BY <1>1, <2>1 DEF Ending, ThreadState
  <2>2. CASE s = Ending([r EXCEPT !.out = o])
    BY <1>1, <2>2 DEF Ending, ThreadState
  <2>. QED
    BY <2>1, <2>2
<1>3. ~Linking(s) /\ ~Retiring(s) /\ \A p : Refers(s, p) = Refers(r, p)
  BY <1>2 DEF Linking, Retiring, Searching, Refers
<1>4. LocalInv(s, key, level)
  BY <1>1, <1>2, <1>3 DEF LocalInv, CallInv, Searching
<1>5. \A p \in Tower : Refers(s, p) => ~Private(p)
  BY <1>3, Met
<1>. QED
  BY <1>2, <1>3, <1>4, <1>5 DEF Moves

\* A key has a value or is absent.
LEMMA ValueOfType ==
  ASSUME TypeOK, NEW k
  PROVE  ValueOf(k) \in Value \cup {Absent}
<1> DEFINE towers == Holding(k)
<1>1. towers \subseteq Tower
  BY DEF Holding
<1>2. ValueOf(k) = IF towers = {} THEN Absent ELSE value[CHOOSE n \in towers : TRUE]
  BY DEF ValueOf
<1> HIDE DEF towers
<1>3. towers # {} => (CHOOSE n \in towers : TRUE) \in towers
  OBVIOUS
<1>. QED
  BY <1>1, <1>2, <1>3 DEF TypeOK
-----------------------------------------------------------------------------
(***************************************************************************)
(* Each action preserves the invariant.                                    *)
(***************************************************************************)
LEMMA SearchKeeps ==
  ASSUME Inv, NEW t \in Thread, Load(t) \/ Look(t)
  PROVE  Kept
<1> USE Constants
<1> DEFINE r == th[t]
<1>1. r \in ThreadState /\ LocalInv(r, key, level) /\ TypeOK
  BY Met DEF Inv
<1>2. ASSUME NEW s, NEW n \in Pointer, n \in Tower => ~Private(n),
             Become(t, s), GoesOn(r, s, n)
      PROVE  Kept
  <2>1. UNCHANGED shared
    BY DEF Load, Look
  <2>. QED
    BY <1>1, <1>2, <2>1, SearchStep, Quiet DEF TypeOK, shared
<1>3. CASE Load(t)
  <2>1. r.cur \in Node /\ r.lvl \in Level
    BY <1>1 DEF ThreadState
  <2>2. /\ forward[r.cur][r.lvl].to \in Pointer
        /\ forward[r.cur][r.lvl].to \in Tower => ~Private(forward[r.cur][r.lvl].to)
    BY <2>1, Met
  <2>3. r.pc \in Searching
    BY <1>3 DEF Load, Searching
  <2>. QED
    BY <1>1, <1>2, <1>3, <2>2, <2>3, ArriveStep DEF Load
<1>4. CASE Look(t)
  <2> DEFINE after == forward[r.next][r.lvl]
  <2>1. r.next \in Tower /\ r.lvl \in Level /\ r.pc = "Look" /\ r.pc \in Searching
    BY <1>1, <1>4 DEF Look, LocalInv, ThreadState, Pointer, Searching
  <2>2. after \in Link /\ after.to \in Pointer /\ (after.to \in Tower => ~Private(after.to))
    BY <2>1, Met
  <2>3. CASE Become(t, [r EXCEPT !.pc = "Unlink", !.link = after])
    <3> DEFINE s == [r EXCEPT !.pc = "Unlink", !.link = after]
    <3>1. /\ s \in ThreadState
          /\ s.pc = "Unlink" /\ s.op = r.op /\ s.key = r.key /\ s.tower = r.tower
          /\ s.lvl = r.lvl /\ s.from = r.from /\ s.to = r.to
          /\ s.cur = r.cur /\ s.next = r.next /\ s.link = after
          /\ s.preds = r.preds /\ s.succs = r.succs
      BY <1>1, <2>2 DEF ThreadState
    <3> HIDE DEF s
    <3>2. /\ LinkLevel(s) = LinkLevel(r) /\ Linking(s) = Linking(r)
          /\ Retiring(s) = Retiring(r)
      BY <2>1, <3>1 DEF Linking, LinkLevel, Retiring, Searching
    <3>3. LocalInv(s, key, level)
      BY <1>1, <2>1, <3>1, <3>2 DEF LocalInv, CallInv, Searching
    <3>4. \A p \in Tower : Refers(s, p) => Refers(r, p) \/ p = after.to
      BY <3>1 DEF Refers
    <3>5. GoesOn(r, s, after.to)
      BY <3>1, <3>2, <3>3, <3>4 DEF GoesOn
    <3>6. Become(t, s)
      BY <2>3 DEF s
    <3>. QED
      BY <1>2, <2>2, <3>5, <3>6
  <2>4. CASE Become(t, Arrive([r EXCEPT !.cur = r.next], after.to))
    <3> DEFINE q == [r EXCEPT !.cur = r.next]
               s == Arrive(q, after.to)
    <3>1. /\ q \in ThreadState
          /\ q.pc = "Look" /\ q.op = r.op /\ q.key = r.key /\ q.tower = r.tower
          /\ q.lvl = r.lvl /\ q.from = r.from /\ q.to = r.to
          /\ q.cur = r.next /\ q.next = r.next /\ q.link = r.link
          /\ q.preds = r.preds /\ q.succs = r.succs
      BY <1>1, <2>1 DEF ThreadState
    <3> HIDE DEF q
    <3>2. /\ LinkLevel(q) = LinkLevel(r) /\ Linking(q) = Linking(r)
          /\ Retiring(q) = Retiring(r)
      BY <2>1, <3>1 DEF Linking, LinkLevel, Retiring, Searching
    <3>3. LocalInv(q, key, level) /\ q.pc \in Searching
      BY <1>1, <2>1, <3>1, <3>2 DEF LocalInv, CallInv, Searching
    <3>4. \A p \in Tower : Refers(q, p) => Refers(r, p)
      BY <3>1 DEF Refers
    <3>5. GoesOn(q, s, after.to)
      BY <1>1, <2>2, <3>3, ArriveStep
    <3> HIDE DEF s
    <3>8. s.tower \in Pointer
      BY <3>5 DEF GoesOn, LocalInv, CallInv, ThreadState
    <3>6. GoesOn(r, s, after.to)
      BY <3>1, <3>2, <3>4, <3>5, <3>8 DEF GoesOn, Pointer
    <3>7. Become(t, s)
      BY <2>4 DEF s, q
    <3>. QED
      BY <1>2, <2>2, <3>6, <3>7
  <2>5. CASE Become(t, LevelDone(r, r.next))
    <3>1. r.next \in Pointer /\ GoesOn(r, LevelDone(r, r.next), r.next)
      BY <1>1, <2>1, DoneStep
    <3>2. ~Private(r.next)
      BY <2>1, Met DEF Refers
    <3>. QED
      BY <1>2, <2>5, <3>1, <3>2
  <2>. QED
    BY <1>4, <2>3, <2>4, <2>5 DEF Look
<1>. QED
  BY <1>3, <1>4

\* A search that starts again, or for another part of its call: the tower stays
\* what it is, and an insertion links the level it searches for.
MayRefill(r, from, to) ==
  /\ from \in Level /\ to \in Level /\ to <= from
  /\ r.tower = NULL => to = 0
  /\ r.pc \in Searching \cup {"LinkCas", "MarkCas"}
  /\ Linking(r) => to = LinkLevel(r)

Refilled(s, r) ==
  s \in ThreadState /\ s.tower = r.tower /\ s.op = r.op /\ Moves(r, s)

\* A call fills its tables again.
LEMMA RefillStep ==
  ASSUME Inv, NEW t \in Thread, NEW from, NEW to, MayRefill(th[t], from, to),
         NEW s, s = Fill(th[t], from, to)
  PROVE  Refilled(s, th[t])
<1> USE Constants
<1> DEFINE r == th[t]
<1>1. r \in ThreadState /\ LocalInv(r, key, level)
  BY Met
<1>0. MayRefill(r, from, to)
  OBVIOUS
<1> HIDE DEF r
<1>2. /\ s \in ThreadState
      /\ s.op = r.op /\ s.key = r.key /\ s.tower = r.tower /\ s.pc = "Load"
      /\ s.lvl = from /\ s.from = from /\ s.to = to
      /\ \A p \in Tower : ~Refers(s, p)
  <2>1. s = Fill(r, from, to) /\ from \in Level /\ to \in Level /\ to <= from
    BY <1>0 DEF MayRefill, r
  <2>2. Started(s, r, from, to)
    BY <1>1, <2>1, FillStep
  <2>. QED
    BY <2>2 DEF Started
<1>3. LinkLevel(s) = to
  BY <1>2 DEF LinkLevel, Searching
<1>4. Linking(s) = Linking(r)
  BY <1>0, <1>2 DEF Linking, Searching, MayRefill
<1>5. LocalInv(s, key, level)
  BY <1>0, <1>1, <1>2, <1>3, <1>4 DEF LocalInv, CallInv, Searching, MayRefill
<1>6. Linking(s) => LinkLevel(r) <= LinkLevel(s)
  <2>1. Linking(s) => LinkLevel(r) = LinkLevel(s)
    BY <1>0, <1>3, <1>4 DEF MayRefill
  <2>2. LinkLevel(s) \in Nat
    BY <1>0, <1>3 DEF MayRefill
  <2>. QED
    BY <2>1, <2>2
<1>8. Moves(r, s)
  BY <1>2, <1>4, <1>5, <1>6 DEF Moves
<1>. QED
  BY <1>2, <1>8 DEF Refilled, r

\* An idle thread holds no tower.
LEMMA NoCallType ==
  /\ NoCall \in ThreadState
  /\ NoCall.pc = "Idle" /\ NoCall.op = "none" /\ NoCall.tower = NULL
  /\ \A p \in Tower : ~Refers(NoCall, p)
<1> USE Constants
<1> DEFINE preds == [l \in Level |-> Header]
           succs == [l \in Level |-> NULL]
<1>1. Success \in Outcome /\ Unmarked(NULL) \in Link
  BY DEF Outcome, Unmarked, Link
<1>2. preds \in [Level -> Node] /\ succs \in [Level -> Pointer]
  OBVIOUS
<1>3. Unmarked(NULL).to = NULL /\ \A l \in Level : preds[l] = Header /\ succs[l] = NULL
  BY DEF Unmarked
<1>4. NoCall = [pc |-> "Idle", op |-> "none", key |-> 0, val |-> Absent, results |-> {},
           out |-> Success, lvl |-> 0, from |-> 0, to |-> 0, cur |-> Header,
           next |-> NULL, link |-> Unmarked(NULL), tower |-> NULL,
           preds |-> preds, succs |-> succs]
  BY DEF NoCall
<1> HIDE DEF preds, succs
<1>5. NoCall \in ThreadState
  BY <1>1, <1>2, <1>4 DEF ThreadState
<1>6. NoCall.pc = "Idle" /\ NoCall.op = "none" /\ NoCall.tower = NULL
  BY <1>4
<1>7. \A p \in Tower : ~Refers(NoCall, p)
  BY <1>3, <1>4 DEF Refers
<1>. QED
  BY <1>5, <1>6, <1>7

\* Each action keeps the invariant: a call begins,
LEMMA BeginKeeps ==
  ASSUME Inv, NEW t \in Thread, NEW c \in Calls[t], BeginCall(t, c)
  PROVE  Kept
<1> USE Constants
<1>1. c \in Call /\ c.op \in {"insert", "remove", "search"} /\ c.key \in Int
      /\ c.val \in Value \cup {Absent}
  <2>1. c \in Call
    OBVIOUS
  <2>. QED
    BY <2>1 DEF Call
<1>2. PICK rs \in SUBSET Outcome, from \in Level : Begin(t, c, rs, from)
  <2>1. {Failure} \subseteq Outcome /\ {} \subseteq Outcome
    BY DEF Outcome
  <2>2. {ValueOf(c.key)} \subseteq Outcome
    BY ValueOfType DEF Inv, Outcome
  <2>3. max_level \in Level
    BY DEF Inv, TypeOK
  <2>. QED
    BY <2>1, <2>2, <2>3 DEF BeginCall, BeginInsert, BeginRemove, BeginSearch
<1> DEFINE q == [NoCall EXCEPT !.op = c.op, !.key = c.key, !.val = c.val, !.results = rs]
           s == Fill(q, from, 0)
<1>3. /\ q \in ThreadState
      /\ q.op = c.op /\ q.key = c.key /\ q.tower = NULL
  BY <1>1, NoCallType DEF ThreadState
<1> HIDE DEF q
<1>4. /\ s \in ThreadState
      /\ s.op = c.op /\ s.key = c.key /\ s.tower = NULL /\ s.pc = "Load"
      /\ s.lvl = from /\ s.from = from /\ s.to = 0
      /\ \A p \in Tower : ~Refers(s, p)
  <2>1. 0 \in Level /\ 0 <= from
    BY DEF Level
  <2>2. Started(s, q, from, 0)
    BY <1>3, <2>1, FillStep
  <2>. QED
    BY <1>3, <2>2 DEF Started
<1>5. Become(t, s) /\ UNCHANGED shared
  BY <1>2 DEF Begin, s, q
<1> HIDE DEF s
<1>6. ~Linking(s) /\ ~Retiring(s)
  BY <1>4 DEF Linking, Retiring
<1>7. LocalInv(s, key, level)
  BY <1>4, <1>6 DEF LocalInv, CallInv, Searching, Level
<1>9. Moves(th[t], s)
  BY <1>4, <1>6, <1>7 DEF Moves
<1>. QED
  BY <1>4, <1>5, <1>6, <1>9, Quiet DEF Inv, TypeOK, shared

\* returns,
LEMMA ReturnKeeps ==
  ASSUME Inv, NEW t \in Thread, Return(t)
  PROVE  Kept
<1> USE NoCallType
<1>1. ~Linking(NoCall) /\ ~Retiring(NoCall)
  BY DEF Linking, Retiring
<1>2. LocalInv(NoCall, key, level)
  BY <1>1 DEF LocalInv, CallInv, Searching
<1>3. Moves(th[t], NoCall)
  BY <1>1, <1>2 DEF Moves
<1>4. Become(t, NoCall) /\ UNCHANGED shared
  BY DEF Return
<1>. QED
  BY <1>1, <1>3, <1>4, Quiet DEF Inv, TypeOK, shared

\* The steps that end a call without a write to the list.
LEMMA EndKeeps ==
  ASSUME Inv, NEW t \in Thread,
         \/ UpdateValue(t) \/ NoMemory(t) \/ RemoveAbsent(t)
         \/ ReadValue(t) \/ NoElement(t)
  PROVE  Kept
<1> USE Constants
<1> DEFINE r == th[t]
<1>1. r \in ThreadState /\ LocalInv(r, key, level)
  BY Met
<1>2. Success \in Outcome /\ Absent \in Outcome /\ Failure \in Outcome /\ Value \subseteq Outcome
  BY DEF Outcome
<1>3. ASSUME Found(r)
      PROVE  r.succs[0] \in Tower /\ value[r.succs[0]] \in Value \cup {Absent}
  BY <1>1, <1>3 DEF Found, ThreadState, Pointer, Inv, TypeOK
<1>4. value' \in [Tower -> Value \cup {Absent}]
  <2>1. CASE UpdateValue(t)
    <3>1. r.val \in Value \cup {Absent}
      BY <1>1 DEF ThreadState
    <3>. QED
      BY <1>3, <2>1, <3>1 DEF UpdateValue, Placed, Inv, TypeOK
  <2>2. CASE ~UpdateValue(t)
    BY <2>2 DEF NoMemory, RemoveAbsent, ReadValue, NoElement, shared, Inv, TypeOK
  <2>. QED
    BY <2>1, <2>2
<1>5. /\ UNCHANGED <<forward, key, level, allocated, retired>>
      /\ max_level' \in Level
  BY DEF UpdateValue, NoMemory, RemoveAbsent, ReadValue, NoElement, shared, Inv, TypeOK
<1>6. ASSUME NEW o \in Outcome, NEW s \in {Ending(r), Ending([r EXCEPT !.out = o])},
             Become(t, s) \/ TakeEffect(t, s)
      PROVE  Kept
  BY <1>4, <1>5, <1>6, EndingStep, Quiet
<1>7. CASE UpdateValue(t) \/ RemoveAbsent(t)
  BY <1>2, <1>6, <1>7 DEF UpdateValue, RemoveAbsent
<1>8. CASE NoMemory(t) \/ NoElement(t)
  BY <1>2, <1>6, <1>8 DEF NoMemory, NoElement
<1>9. CASE ReadValue(t)
  BY <1>2, <1>3, <1>6, <1>9 DEF ReadValue, Placed
<1>. QED
  BY <1>7, <1>8, <1>9

\* A write of the list where no mark is, of a pointer to n without a mark.
LEMMA PlainWrite ==
  ASSUME Inv, NEW t \in Thread, NEW s, ~Retiring(s) \/ (Retiring(th[t]) /\ s.tower = th[t].tower),
         NEW m \in Node, NEW l \in Level, ~forward[m][l].marked,
         NEW n \in Pointer,
         n \in Tower => ~Private(n) \/ (n = th[t].tower /\ ~Unlinked(s)),
         forward' = [forward EXCEPT ![m][l] = Unmarked(n)], retired' = retired
  PROVE  forward' \in [Node -> [Level -> Link]] /\ Writes(th[t], s)
<1> USE Constants
<1> DEFINE new == Unmarked(n)
<1>1. new \in Link /\ new.to = n /\ ~new.marked
  BY DEF Unmarked, Link
<1> HIDE DEF new
<1>2. forward \in [Node -> [Level -> Link]] /\ forward' = [forward EXCEPT ![m][l] = new]
  BY DEF Inv, TypeOK, new
<1>3. forward' \in [Node -> [Level -> Link]]
  BY <1>1, <1>2
<1>4. \A a \in Node, b \in Level :
        forward'[a][b] = IF a = m /\ b = l THEN new ELSE forward[a][b]
  BY <1>2
<1>5. \A a \in Node, b \in Level, p \in Tower : forward'[a][b].to = p =>
        ~Private(p) \/ (p = th[t].tower /\ ~Unlinked(s))
  BY <1>1, <1>4, Met
<1>6. \A a \in Tower, b \in Level : forward'[a][b].marked = forward[a][b].marked
  BY <1>1, <1>4, Met DEF Link
<1>. QED
  BY <1>3, <1>5, <1>6 DEF Writes

\* unlinks a marked tower,
LEMMA UnlinkKeeps ==
  ASSUME Inv, NEW t \in Thread, Unlink(t)
  PROVE  Kept
<1> USE Constants
<1> DEFINE r == th[t]
<1>1. /\ r \in ThreadState /\ LocalInv(r, key, level) /\ r.pc = "Unlink"
      /\ UNCHANGED <<key, value, level, allocated, max_level, retired>>
  BY Met DEF Unlink
<1>2. r.cur \in Node /\ r.lvl \in Level /\ r.link.to \in Pointer
      /\ r.from \in Level /\ r.to \in Level /\ r.to <= r.from
  BY <1>1 DEF ThreadState, Link, LocalInv, CallInv, Searching
<1>3. value' \in [Tower -> Value \cup {Absent}] /\ max_level' \in Level
  BY <1>1 DEF Inv, TypeOK
<1>4. CASE /\ Cas(r.cur, r.lvl, Unmarked(r.next), Unmarked(r.link.to))
           /\ Become(t, [r EXCEPT !.pc = "Load", !.next = NULL, !.link = NoCall.link])
  <2> DEFINE link == Unmarked(NULL)
             s == [r EXCEPT !.pc = "Load", !.next = NULL, !.link = link]
  <2>1. Become(t, s)
    BY <1>4 DEF NoCall
  <2>2. link \in Link /\ link.to = NULL
    BY DEF Unmarked, Link
  <2> HIDE DEF link
  <2>3. /\ s \in ThreadState
        /\ s.pc = "Load" /\ s.op = r.op /\ s.key = r.key /\ s.tower = r.tower
        /\ s.lvl = r.lvl /\ s.from = r.from /\ s.to = r.to
        /\ s.cur = r.cur /\ s.next = NULL /\ s.link = link
        /\ s.preds = r.preds /\ s.succs = r.succs
    BY <1>1, <2>2 DEF ThreadState
  <2> HIDE DEF s
  <2>4. /\ LinkLevel(s) = LinkLevel(r) /\ Linking(s) = Linking(r)
        /\ Retiring(s) = Retiring(r)
    BY <1>1, <2>3 DEF Linking, LinkLevel, Retiring, Searching
  <2>5. LocalInv(s, key, level)
    BY <1>1, <2>3, <2>4 DEF LocalInv, CallInv, Searching
  <2>6. \A p \in Tower : Refers(s, p) => Refers(r, p)
    BY <2>2, <2>3 DEF Refers
  <2>7. GoesOn(r, s, NULL)
    BY <2>3, <2>4, <2>5, <2>6 DEF GoesOn
  <2>8. Moves(r, s) /\ (Retiring(s) => Retiring(r) /\ s.tower = r.tower)
    BY <2>7, SearchStep
  <2>9. forward' = [forward EXCEPT ![r.cur][r.lvl] = Unmarked(r.link.to)]
        /\ ~forward[r.cur][r.lvl].marked
    BY <1>4 DEF Cas, Unmarked
  <2>10. r.link.to \in Tower => ~Private(r.link.to)
    BY Met DEF Refers
  <2>11. forward' \in [Node -> [Level -> Link]] /\ Writes(r, s)
    BY <1>1, <1>2, <2>8, <2>9, <2>10, PlainWrite
  <2>. QED
    BY <1>1, <1>3, <2>1, <2>3, <2>8, <2>11, Preserved
<1>5. CASE CasFails(r.cur, r.lvl, Unmarked(r.next)) /\ Become(t, Reset(r))
  <2> DEFINE s == Reset(r)
  <2>1. r = [r EXCEPT !.from = r.from, !.to = r.to]
    BY <1>1 DEF ThreadState
  <2>2. s = Fill(r, r.from, r.to)
    BY <2>1 DEF Fill
  <2> HIDE DEF s
  <2>3. r.pc \in Searching
    BY <1>1 DEF Searching
  <2>4. r.tower = NULL => r.to = 0
    BY <1>1, <2>3 DEF LocalInv, CallInv
  <2>5. Linking(r) => r.to = LinkLevel(r)
    BY <2>3 DEF LinkLevel
  <2>6. /\ s \in ThreadState /\ s.tower = r.tower /\ s.op = r.op
        /\ Moves(r, s)
    <3>1. MayRefill(r, r.from, r.to)
      BY <1>2, <2>3, <2>4, <2>5 DEF MayRefill
    <3>2. Refilled(s, r)
      BY <2>2, <3>1, RefillStep
    <3>. QED
      BY <3>2 DEF Refilled
  <2>7. Retiring(s) => Retiring(r) /\ s.tower = r.tower
    BY <2>3, <2>6 DEF Retiring
  <2>8. Become(t, s) /\ UNCHANGED forward
    BY <1>5 DEF s, CasFails
  <2>. QED
    BY <1>1, <1>3, <2>6, <2>7, <2>8, Quiet
<1>. QED
  BY <1>4, <1>5 DEF Unlink

\* raises max_level,
LEMMA MaxStoreKeeps ==
  ASSUME Inv, NEW t \in Thread, MaxStore(t)
  PROVE  Kept
<1> USE Constants
<1> DEFINE r == th[t]
           s == [r EXCEPT !.pc = "LinkStore"]
<1>1. /\ r \in ThreadState /\ LocalInv(r, key, level) /\ r.pc = "MaxStore" /\ Become(t, s)
      /\ UNCHANGED <<forward, key, value, level, allocated, retired>>
  BY Met DEF MaxStore
<1>2. /\ s \in ThreadState
      /\ s.pc = "LinkStore" /\ s.op = r.op /\ s.key = r.key /\ s.tower = r.tower
      /\ s.lvl = r.lvl /\ s.cur = r.cur /\ s.next = r.next /\ s.link = r.link
      /\ s.preds = r.preds /\ s.succs = r.succs
  BY <1>1 DEF ThreadState
<1> HIDE DEF s
<1>3. /\ LinkLevel(s) = LinkLevel(r) /\ Linking(s) = Linking(r) /\ ~Retiring(s)
  BY <1>1, <1>2 DEF Linking, LinkLevel, Retiring, Searching
<1>4. LocalInv(s, key, level)
  BY <1>1, <1>2, <1>3 DEF LocalInv, CallInv, Searching
<1>5. \A p \in Tower : Refers(s, p) => ~Private(p)
  BY <1>2, Met DEF Refers
<1>6. LinkLevel(r) \in Nat
  BY <1>1 DEF LinkLevel, ThreadState
<1>7. Moves(r, s)
  BY <1>2, <1>3, <1>4, <1>5, <1>6 DEF Moves
<1>8. max_level' \in Level /\ value' \in [Tower -> Value \cup {Absent}]
  <2>1. r.tower \in Tower
    BY <1>1 DEF LocalInv, CallInv, ThreadState, Pointer
  <2>. QED
    BY <1>1, <2>1 DEF MaxStore, Inv, TypeOK
<1>. QED
  BY <1>1, <1>2, <1>3, <1>7, <1>8, Quiet

\* stores the pointer of its tower,
LEMMA LinkStoreKeeps ==
  ASSUME Inv, NEW t \in Thread, LinkStore(t)
  PROVE  Kept
<1> USE Constants
<1> DEFINE r == th[t]
           s == [r EXCEPT !.pc = "LinkCas"]
           new == Unmarked(r.succs[r.lvl])
<1>1. /\ r \in ThreadState /\ LocalInv(r, key, level) /\ r.pc = "LinkStore" /\ Become(t, s)
      /\ forward' = [forward EXCEPT ![r.tower][r.lvl] = new]
      /\ UNCHANGED <<key, value, level, allocated, max_level, retired>>
  BY Met DEF LinkStore
<1>2. /\ s \in ThreadState
      /\ s.pc = "LinkCas" /\ s.op = r.op /\ s.key = r.key /\ s.tower = r.tower
      /\ s.lvl = r.lvl /\ s.cur = r.cur /\ s.next = r.next /\ s.link = r.link
      /\ s.preds = r.preds /\ s.succs = r.succs
  BY <1>1 DEF ThreadState
<1> HIDE DEF s
<1>3. /\ LinkLevel(s) = LinkLevel(r) /\ Linking(s) = Linking(r) /\ ~Retiring(s)
  BY <1>1, <1>2 DEF Linking, LinkLevel, Retiring, Searching
<1>4. LocalInv(s, key, level)
  BY <1>1, <1>2, <1>3 DEF LocalInv, CallInv, Searching
<1>5. \A p \in Tower : Refers(s, p) => ~Private(p)
  BY <1>2, Met DEF Refers
<1>6. LinkLevel(r) \in Nat
  BY <1>1 DEF LinkLevel, ThreadState
<1>7. Moves(r, s)
  BY <1>2, <1>3, <1>4, <1>5, <1>6 DEF Moves
<1>8. /\ r.tower \in Tower /\ r.lvl \in Level /\ r.succs[r.lvl] \in Pointer
      /\ r.op = "insert"
  BY <1>1 DEF LocalInv, CallInv, ThreadState, Pointer
<1>9. new \in Link /\ new.to = r.succs[r.lvl] /\ ~new.marked
  BY <1>8 DEF Unmarked, Link
<1>10. r.succs[r.lvl] \in Tower => ~Private(r.succs[r.lvl])
  BY <1>8, Met DEF Refers
<1> HIDE DEF new
<1>11. forward \in [Node -> [Level -> Link]]
  BY DEF Inv, TypeOK
<1>12. forward' \in [Node -> [Level -> Link]]
  BY <1>1, <1>9, <1>11
<1>13. \A a \in Node, b \in Level :
         forward'[a][b] = IF a = r.tower /\ b = r.lvl THEN new ELSE forward[a][b]
  BY <1>1, <1>8, <1>11
<1>14. r.lvl = 0 => ~forward[r.tower][0].marked
  <2>1. r.lvl = 0 => Private(r.tower)
    BY <1>1, <1>8 DEF Private, Unlinked, Linking, LinkLevel, Searching
  <2>. QED
    BY <1>8, <2>1 DEF Inv, PrivateInv
<1>15. Writes(r, s)
  <2>1. \A m \in Node, l \in Level, p \in Tower : forward'[m][l].to = p => ~Private(p)
    BY <1>9, <1>10, <1>13, Met
  <2>2. \A n \in Tower, l \in Level : forward'[n][l].marked => forward[n][l].marked
    BY <1>9, <1>13
  <2>3. \A n \in Tower : forward[n][0].marked => forward'[n][0].marked
    BY <1>13, <1>14
  <2>. QED
    BY <1>1, <1>3, <2>1, <2>2, <2>3 DEF Writes
<1>16. value' \in [Tower -> Value \cup {Absent}] /\ max_level' \in Level
  BY <1>1 DEF Inv, TypeOK
<1>. QED
  BY <1>1, <1>2, <1>7, <1>12, <1>15, <1>16, Preserved

\* links a level,
LEMMA LinkCasKeeps ==
  ASSUME Inv, NEW t \in Thread, LinkCas(t)
  PROVE  Kept
<1> USE Constants
<1> DEFINE r == th[t]
<1>1. /\ r \in ThreadState /\ LocalInv(r, key, level) /\ r.pc = "LinkCas"
      /\ UNCHANGED <<key, value, level, allocated, max_level, retired>>
  BY Met DEF LinkCas
<1>2. /\ r.tower \in Tower /\ r.lvl \in Level /\ r.preds[r.lvl] \in Node
      /\ r.op = "insert" /\ level[r.tower] \in Level
  BY <1>1 DEF LocalInv, CallInv, ThreadState, Pointer, Inv, TypeOK
<1>3. Linking(r) /\ LinkLevel(r) = r.lvl /\ r.lvl <= level[r.tower]
  BY <1>1, <1>2 DEF Linking, LinkLevel, Searching, LocalInv, CallInv
<1>4. value' \in [Tower -> Value \cup {Absent}] /\ max_level' \in Level
  BY <1>1 DEF Inv, TypeOK
<1>5. CASE Cas(r.preds[r.lvl], r.lvl, Unmarked(r.succs[r.lvl]), Unmarked(r.tower))
  <2> DEFINE s == Linked(r)
  <2>1. Become(t, s) \/ TakeEffect(t, s)
    <3>1. forward[r.preds[r.lvl]][r.lvl] = Unmarked(r.succs[r.lvl])
      BY <1>5 DEF Cas
    <3>. QED
      BY <3>1 DEF LinkCas, CasFails
  <2>2. s \in ThreadState /\ s.tower = r.tower /\ ~Retiring(s) /\ Moves(r, s) /\ ~Unlinked(s)
    <3>1. CASE r.lvl = level[r.tower]
      <4>1. s = Ending(r) /\ Success \in Outcome
        BY <3>1 DEF Linked, Outcome
      <4> HIDE DEF s
      <4>. QED
        BY <4>1, EndingStep DEF Unlinked
    <3>2. CASE r.lvl # level[r.tower]
      <4>1. s = [r EXCEPT !.pc = "LinkStore", !.lvl = r.lvl + 1]
        BY <1>1, <3>2 DEF Linked, ThreadState
      <4>2. r.lvl + 1 \in Level /\ r.lvl + 1 <= level[r.tower] /\ r.lvl + 1 # 0 /\ r.lvl \in Nat
        BY <1>2, <1>3, <3>2 DEF Level
      <4> HIDE DEF s
      <4>3. /\ s \in ThreadState
            /\ s.pc = "LinkStore" /\ s.op = r.op /\ s.key = r.key /\ s.tower = r.tower
            /\ s.lvl = r.lvl + 1 /\ s.cur = r.cur /\ s.next = r.next /\ s.link = r.link
            /\ s.preds = r.preds /\ s.succs = r.succs
        BY <1>1, <4>1, <4>2 DEF ThreadState
      <4>4. LinkLevel(s) = r.lvl + 1 /\ ~Retiring(s)
        BY <4>3 DEF LinkLevel, Retiring, Searching
      <4>5. LocalInv(s, key, level)
        BY <1>1, <1>2, <4>2, <4>3, <4>4 DEF LocalInv, CallInv, Searching
      <4>6. \A p \in Tower : Refers(s, p) => ~Private(p)
        BY <4>3, Met DEF Refers
      <4>7. Moves(r, s)
        BY <1>3, <4>2, <4>3, <4>4, <4>5, <4>6 DEF Moves
      <4>. QED
        BY <4>2, <4>3, <4>4, <4>7 DEF Unlinked
    <3>. QED
      BY <3>1, <3>2
  <2>3. /\ forward' = [forward EXCEPT ![r.preds[r.lvl]][r.lvl] = Unmarked(r.tower)]
        /\ ~forward[r.preds[r.lvl]][r.lvl].marked
    BY <1>5, SMTT(30) DEF Cas, Unmarked
  <2> HIDE DEF s
  <2>4. forward' \in [Node -> [Level -> Link]] /\ Writes(r, s)
    BY <1>1, <1>2, <2>2, <2>3, PlainWrite, Zenon
  <2>. QED
    BY <1>1, <1>4, <2>1, <2>2, <2>4, Preserved
<1>6. CASE /\ CasFails(r.preds[r.lvl], r.lvl, Unmarked(r.succs[r.lvl]))
           /\ Become(t, Refill(r))
  <2> DEFINE s == Refill(r)
  <2>1. s = Fill(r, TopLevel, r.lvl) /\ r.lvl <= TopLevel
    BY <1>2 DEF Refill, Level
  <2> HIDE DEF s
  <2>2. s \in ThreadState /\ s.op = r.op /\ Moves(r, s)
    <3>1. MayRefill(r, TopLevel, r.lvl)
      BY <1>1, <1>2, <1>3, <2>1 DEF MayRefill
    <3>2. Refilled(s, r)
      BY <2>1, <3>1, RefillStep
    <3>. QED
      BY <3>2 DEF Refilled
  <2>3. ~Retiring(s)
    BY <1>2, <2>2 DEF Retiring
  <2>4. Become(t, s) /\ UNCHANGED forward
    BY <1>6 DEF s, CasFails
  <2>. QED
    BY <1>1, <1>4, <2>2, <2>3, <2>4, Quiet
<1>. QED
  BY <1>5, <1>6 DEF LinkCas

\* reads a pointer to mark,
LEMMA MarkLoadKeeps ==
  ASSUME Inv, NEW t \in Thread, MarkLoad(t)
  PROVE  Kept
<1> USE Constants
<1> DEFINE r == th[t]
           old  == forward[r.tower][r.lvl]
           link == IF r.lvl = 0 THEN Unmarked(old.to) ELSE old
           s == [r EXCEPT !.pc = "MarkCas", !.link = link]
<1>1. /\ r \in ThreadState /\ LocalInv(r, key, level) /\ r.pc = "MarkLoad" /\ Become(t, s)
      /\ UNCHANGED <<forward, key, value, level, allocated, max_level, retired>>
  BY Met DEF MarkLoad, shared
<1>2. r.tower \in Tower /\ r.lvl \in Level /\ r.op = "remove"
  BY <1>1 DEF LocalInv, CallInv, ThreadState, Pointer
<1>3. old \in Link /\ old.to \in Pointer /\ (old.to \in Tower => ~Private(old.to))
  BY <1>2, Met
<1>4. link \in Link /\ link.to = old.to /\ (r.lvl = 0 => ~link.marked)
  BY <1>3 DEF Unmarked, Link
<1> HIDE DEF link, old
<1>5. /\ s \in ThreadState
      /\ s.pc = "MarkCas" /\ s.op = r.op /\ s.key = r.key /\ s.tower = r.tower
      /\ s.lvl = r.lvl /\ s.cur = r.cur /\ s.next = r.next /\ s.link = link
      /\ s.preds = r.preds /\ s.succs = r.succs
  BY <1>1, <1>4 DEF ThreadState
<1> HIDE DEF s
<1>6. ~Linking(s) /\ ~Retiring(s)
  BY <1>2, <1>5 DEF Linking, Retiring, Searching
<1>7. LocalInv(s, key, level)
  BY <1>1, <1>2, <1>4, <1>5, <1>6 DEF LocalInv, CallInv, Searching
<1>8. \A p \in Tower : Refers(s, p) => ~Private(p)
  BY <1>3, <1>4, <1>5, Met DEF Refers
<1>9. Moves(r, s)
  BY <1>5, <1>6, <1>7, <1>8 DEF Moves
<1>. QED
  BY <1>1, <1>5, <1>6, <1>9, Quiet DEF Inv, TypeOK

\* A removal goes on with marking, on the same level or the next one below.
LEMMA MarkOnStep ==
  ASSUME Inv, NEW t \in Thread, th[t].pc = "MarkCas", NEW l \in Level,
         NEW s, s = [th[t] EXCEPT !.pc = "MarkLoad", !.lvl = l]
  PROVE  s \in ThreadState /\ ~Retiring(s) /\ Moves(th[t], s)
<1> USE Constants
<1> DEFINE r == th[t]
<1>1. r \in ThreadState /\ LocalInv(r, key, level)
  BY Met
<1>2. r.tower # NULL /\ r.op = "remove"
  BY <1>1 DEF LocalInv, CallInv
<1>3. /\ s \in ThreadState
      /\ s.pc = "MarkLoad" /\ s.op = r.op /\ s.key = r.key /\ s.tower = r.tower
      /\ s.lvl = l /\ s.cur = r.cur /\ s.next = r.next /\ s.link = r.link
      /\ s.preds = r.preds /\ s.succs = r.succs
  BY <1>1 DEF ThreadState
<1>4. ~Linking(s) /\ ~Retiring(s)
  BY <1>2, <1>3 DEF Linking, Retiring, Searching
<1>5. LocalInv(s, key, level)
  BY <1>1, <1>2, <1>3, <1>4 DEF LocalInv, CallInv, Searching
<1>6. \A p \in Tower : Refers(s, p) => ~Private(p)
  BY <1>3, Met DEF Refers
<1>. QED
  BY <1>3, <1>4, <1>5, <1>6 DEF Moves

\* marks it,
LEMMA MarkCasKeeps ==
  ASSUME Inv, NEW t \in Thread, MarkCas(t)
  PROVE  Kept
<1> USE Constants
<1> DEFINE r == th[t]
<1>1. /\ r \in ThreadState /\ LocalInv(r, key, level) /\ r.pc = "MarkCas"
      /\ UNCHANGED <<key, value, level, allocated, max_level, retired>>
  BY Met DEF MarkCas
<1>2. /\ r.tower \in Tower /\ r.lvl \in Level /\ r.op = "remove" /\ r.link \in Link
      /\ r.link.to \in Pointer /\ (r.lvl = 0 => ~r.link.marked)
  BY <1>1 DEF LocalInv, CallInv, ThreadState, Pointer, Link
<1>3. value' \in [Tower -> Value \cup {Absent}] /\ max_level' \in Level
  BY <1>1 DEF Inv, TypeOK
<1>4. ~Linking(r)
  BY <1>2 DEF Linking
<1>5. CASE Cas(r.tower, r.lvl, r.link, Marked(r.link.to))
  <2> DEFINE new == Marked(r.link.to)
  <2>1. /\ forward[r.tower][r.lvl] = r.link
        /\ forward' = [forward EXCEPT ![r.tower][r.lvl] = new]
    BY <1>5 DEF Cas
  <2>2. new \in Link /\ new.to = r.link.to /\ new.marked
    BY <1>2 DEF Marked, Link
  <2> HIDE DEF new
  <2>3. forward \in [Node -> [Level -> Link]]
    BY DEF Inv, TypeOK
  <2>4. forward' \in [Node -> [Level -> Link]]
    BY <2>1, <2>2, <2>3
  <2>5. \A a \in Node, b \in Level :
          forward'[a][b] = IF a = r.tower /\ b = r.lvl THEN new ELSE forward[a][b]
    BY <1>2, <2>1, <2>3
  <2>6. r.link.to \in Tower => ~Private(r.link.to)
    BY Met DEF Refers
  <2>7. \A m \in Node, l \in Level, p \in Tower : forward'[m][l].to = p => ~Private(p)
    BY <2>2, <2>5, <2>6, Met
  <2>8. \A n \in Tower, l \in Level : forward'[n][l].marked =>
          forward[n][l].marked \/ (n = r.tower /\ r.op = "remove")
    BY <1>2, <2>5
  <2>9. \A n \in Tower : forward[n][0].marked => forward'[n][0].marked
    BY <2>2, <2>5
  <2>10. CASE r.lvl = 0
    <3> DEFINE s == UnlinkTower(r)
    <3>1. s = Fill(r, TopLevel, 0) /\ 0 <= TopLevel
      BY DEF UnlinkTower
    <3>2. Become(t, s) \/ TakeEffect(t, s)
      BY <1>5, <2>1, <2>10 DEF MarkCas, CasFails
    <3> HIDE DEF s
    <3>3. s \in ThreadState /\ s.tower = r.tower /\ Moves(r, s)
      <4>1. MayRefill(r, TopLevel, 0)
        BY <1>1, <1>2, <1>4, <3>1 DEF MayRefill
      <4>2. Refilled(s, r)
        BY <3>1, <4>1, RefillStep
      <4>. QED
        BY <4>2 DEF Refilled
    <3>4. ~forward[r.tower][0].marked /\ forward'[r.tower][0].marked
      BY <1>2, <2>1, <2>2, <2>5, <2>10
    <3>5. Writes(r, s)
      BY <1>1, <2>7, <2>8, <2>9, <3>3, <3>4 DEF Writes
    <3>. QED
      BY <1>1, <1>3, <2>4, <3>2, <3>3, <3>5, Preserved
  <2>11. CASE r.lvl # 0
    <3> DEFINE s == [r EXCEPT !.pc = "MarkLoad", !.lvl = r.lvl - 1]
    <3>1. Become(t, s)
      <4>1. Become(t, [r EXCEPT !.pc = "MarkLoad", !.lvl = @ - 1])
        BY <1>5, <2>1, <2>11 DEF MarkCas, CasFails
      <4>2. s = [r EXCEPT !.pc = "MarkLoad", !.lvl = @ - 1]
        BY <1>1 DEF ThreadState
      <4>. QED
        BY <4>1, <4>2
    <3>2. r.lvl - 1 \in Level
      BY <1>2, <2>11 DEF Level
    <3>3. s \in ThreadState /\ ~Retiring(s) /\ Moves(r, s)
      BY <1>1, <3>2, MarkOnStep, Zenon
    <3> HIDE DEF s
    <3>4. Writes(r, s)
      BY <1>1, <2>7, <2>8, <2>9, <3>3 DEF Writes
    <3>. QED
      BY <1>1, <1>3, <2>4, <3>1, <3>3, <3>4, Preserved
  <2>. QED
    BY <2>10, <2>11
<1>6. CASE CasFails(r.tower, r.lvl, r.link)
  <2>1. UNCHANGED forward
    BY <1>6 DEF CasFails
  <2>2. \/ TakeEffect(t, Ending(r))
        \/ Become(t, [r EXCEPT !.pc = "MarkLoad"])
    BY <1>6 DEF MarkCas, CasFails, Cas
  <2>3. CASE TakeEffect(t, Ending(r))
    <3>1. Success \in Outcome
      BY DEF Outcome
    <3>2. /\ Ending(r) \in ThreadState /\ ~Retiring(Ending(r)) /\ Moves(r, Ending(r))
      BY <3>1, EndingStep
    <3>. QED
      BY <1>1, <1>3, <2>1, <2>3, <3>2, Quiet
  <2>4. CASE Become(t, [r EXCEPT !.pc = "MarkLoad"])
    <3> DEFINE s == [r EXCEPT !.pc = "MarkLoad"]
    <3>1. s = [r EXCEPT !.pc = "MarkLoad", !.lvl = r.lvl]
      BY <1>1 DEF ThreadState
    <3>2. s \in ThreadState /\ ~Retiring(s) /\ Moves(r, s)
      BY <1>1, <1>2, <3>1, MarkOnStep, Zenon
    <3>. QED
      BY <1>1, <1>3, <2>1, <2>4, <3>2, Quiet
  <2>. QED
    BY <2>2, <2>3, <2>4
<1>. QED
  BY <1>5, <1>6 DEF MarkCas

\* retires its tower,
LEMMA RetireKeeps ==
  ASSUME Inv, NEW t \in Thread, Retire(t)
  PROVE  Kept
<1> USE Constants
<1> DEFINE r == th[t]
           s == Ending(r)
<1>1. /\ r \in ThreadState /\ LocalInv(r, key, level) /\ r.pc = "Retire" /\ Become(t, s)
      /\ UNCHANGED <<forward, key, value, level, allocated, max_level>>
      /\ retired' = retired \cup {r.tower}
  BY Met DEF Retire
<1>2. Retiring(r)
  BY <1>1 DEF LocalInv, CallInv, Retiring
<1>3. Success \in Outcome
  BY DEF Outcome
<1>4. s \in ThreadState /\ ~Retiring(s) /\ Moves(r, s)
  BY <1>3, EndingStep
<1> HIDE DEF s
<1>5. \A m \in Node, l \in Level, p \in Tower : forward[m][l].to = p => ~Private(p)
  BY DEF Inv, PrivateInv
<1>6. Writes(r, s)
  BY <1>1, <1>2, <1>4, <1>5 DEF Writes
<1>. QED
  BY <1>1, <1>4, <1>6, Preserved DEF Inv, TypeOK

\* allocates a tower.
LEMMA NewTowerKeeps ==
  ASSUME Inv, NEW t \in Thread, NewTower(t)
  PROVE  Kept
<1> USE Constants
<1> DEFINE r == th[t]
           n == allocated + 1
<1>1. /\ r \in ThreadState /\ LocalInv(r, key, level) /\ r.pc = "Place" /\ r.op = "insert"
      /\ allocated \in Nat /\ allocated < Towers /\ allocated' = n
      /\ key' = [key EXCEPT ![n] = r.key] /\ value' = [value EXCEPT ![n] = r.val]
      /\ UNCHANGED <<forward, max_level, retired>>
  BY Met DEF NewTower, Placed, Inv, TypeOK
<1>2. PICK lev \in Level :
        /\ level' = [level EXCEPT ![n] = lev]
        /\ Become(t, [r EXCEPT !.tower = n,
                               !.pc = IF lev > max_level THEN "MaxStore" ELSE "LinkStore"])
  BY Zenon DEF NewTower, generate_level
<1> DEFINE pc == IF lev > max_level THEN "MaxStore" ELSE "LinkStore"
           s  == [r EXCEPT !.tower = n, !.pc = pc]
<1>3. n \in Tower /\ n \in Pointer /\ Private(n) /\ n # NULL
  BY <1>1 DEF Tower, Pointer, Private, NULL
<1>4. pc \in {"MaxStore", "LinkStore"} /\ Become(t, s)
  BY <1>2
<1> HIDE DEF pc, n
<1>5. r.tower = NULL /\ r.lvl = 0
  BY <1>1 DEF LocalInv, CallInv
<1>6. /\ s \in ThreadState
      /\ s.pc = pc /\ s.op = "insert" /\ s.key = r.key /\ s.tower = n /\ s.lvl = 0
      /\ s.cur = r.cur /\ s.next = r.next /\ s.link = r.link
      /\ s.preds = r.preds /\ s.succs = r.succs
  BY <1>1, <1>3, <1>4, <1>5 DEF ThreadState
<1> HIDE DEF s
<1>7. /\ th' \in [Thread -> ThreadState] /\ th'[t] = s
      /\ \A u \in Thread \ {t} : th'[u] = th[u]
  BY <1>4, <1>6 DEF Become, Inv, TypeOK
<1>8. Linking(s) /\ LinkLevel(s) = 0 /\ Unlinked(s) /\ ~Retiring(s)
  BY <1>3, <1>4, <1>6 DEF Linking, LinkLevel, Unlinked, Retiring, Searching
<1>9. /\ key' \in [Tower -> Int] /\ level' \in [Tower -> Level]
      /\ key'[n] = r.key /\ level'[n] = lev
      /\ \A m \in Tower : m # n => key'[m] = key[m] /\ level'[m] = level[m]
  BY <1>1, <1>2, <1>3 DEF Inv, TypeOK, ThreadState
<1>10. TypeOK'
  <2>1. value' \in [Tower -> Value \cup {Absent}]
    BY <1>1, <1>3 DEF Inv, TypeOK, ThreadState
  <2>2. allocated' \in 0 .. Towers
    BY <1>1 DEF n
  <2>. QED
    BY <1>1, <1>7, <1>9, <2>1, <2>2 DEF Inv, TypeOK
<1>11. \A u \in Thread : th[u].tower # n /\ th[u].tower \in Pointer
  BY <1>1, Met DEF Inv, PrivateInv, ThreadState, Pointer, Tower, NULL, n
<1>12. Locals'
  <2>1. LocalInv(s, key', level')
    <3>1. r.key = key'[n] /\ 0 <= level'[n]
      BY <1>9 DEF Level
    <3>. QED
      BY <1>3, <1>4, <1>6, <1>8, <3>1 DEF LocalInv, CallInv, Searching
  <2>2. ASSUME NEW u \in Thread \ {t}
        PROVE  LocalInv(th[u], key', level')
    <3>1. LocalInv(th[u], key, level) /\ th[u].tower \in Pointer /\ th[u].tower # n
      BY <1>11, Met
    <3>2. th[u].tower # NULL =>
            key'[th[u].tower] = key[th[u].tower] /\ level'[th[u].tower] = level[th[u].tower]
      BY <1>9, <3>1 DEF Pointer
    <3>3. Linking(th[u]) => th[u].tower # NULL
      BY DEF Linking
    <3>. QED
      BY <3>1, <3>2, <3>3 DEF LocalInv, CallInv
  <2>. QED
    BY <1>7, <2>1, <2>2 DEF Locals
<1>13. \A m \in Tower : Private(m)' => Private(m)
  <2>. SUFFICES ASSUME NEW m \in Tower, Private(m)'
       PROVE  Private(m)
    OBVIOUS
  <2>1. CASE m > allocated'
    BY <1>1, <2>1 DEF Private, n, Tower
  <2>2. CASE \E u \in Thread : Unlinked(th'[u]) /\ th'[u].tower = m
    BY <1>3, <1>6, <1>7, <2>2 DEF Private
  <2>. QED
    BY <2>1, <2>2 DEF Private
<1>14. \A u \in Thread, p \in Tower : Refers(th'[u], p) => ~Private(p)
  <2>1. \A p : Refers(s, p) = Refers(r, p)
    BY <1>6 DEF Refers
  <2>. QED
    BY <1>7, <2>1, Met
<1>15. PrivateInv'
  <2>1. \A u \in Thread : th'[u].tower <= allocated'
    <3>1. \A u \in Thread : th[u].tower <= allocated /\ th[u].tower \in Int
      BY Met DEF Inv, PrivateInv, ThreadState, Pointer, Tower, NULL
    <3>. QED
      BY <1>1, <1>6, <1>7, <3>1 DEF n
  <2>2. \A a, b \in Thread : Unlinked(th'[a]) /\ th'[b].tower = th'[a].tower => b = a
    <3>1. \A a, b \in Thread : Unlinked(th[a]) /\ th[b].tower = th[a].tower => b = a
      BY DEF Inv, PrivateInv
    <3>. QED
      BY <1>6, <1>7, <1>11, <3>1
  <2>3. ASSUME NEW m \in Tower, Private(m)'
        PROVE  /\ \A a \in Node, l \in Level : forward'[a][l].to # m
               /\ \A l \in Level : ~forward'[m][l].marked
               /\ \A u \in Thread : ~Refers(th'[u], m)
    <3>1. Private(m)
      BY <1>13, <2>3
    <3>. QED
      BY <1>1, <1>14, <3>1 DEF Inv, PrivateInv
  <2>. QED
    BY <2>1, <2>2, <2>3 DEF PrivateInv
<1>16. RetireInv'
  BY <1>1, <1>7, <1>8 DEF Inv, RetireInv
<1>17. ASSUME ApartInv, Apart'
       PROVE  ApartInv'
  <2>1. \A l \in Level : ~forward'[n][l].marked
    BY <1>1, <1>3 DEF Inv, PrivateInv
  <2>2. WholeInv'
    BY <1>1, <1>6, <1>7, <1>17, <2>1 DEF ApartInv, WholeInv
  <2>. QED
    BY <1>17, <2>2 DEF ApartInv
<1>. QED
  BY <1>10, <1>12, <1>15, <1>16, <1>17 DEF Inv, Kept

\* Every step of a call under way keeps it.
LEMMA WorkKeeps ==
  ASSUME Inv, NEW t \in Thread, Work(t)
  PROVE  Kept
BY SearchKeeps, UnlinkKeeps, EndKeeps, NewTowerKeeps, MaxStoreKeeps,
   LinkStoreKeeps, LinkCasKeeps, MarkLoadKeeps, MarkCasKeeps, RetireKeeps DEF Work

\* The invariant holds at the start,
LEMMA InitInv == Init => Inv /\ ApartInv
<1> USE Constants, NoCallType
<1> SUFFICES ASSUME Init PROVE Inv /\ ApartInv
  OBVIOUS
<1>1. /\ forward = [n \in Node |-> [l \in Level |-> Unmarked(NULL)]]
      /\ key = [n \in Tower |-> 0] /\ value = [n \in Tower |-> Absent]
      /\ level = [n \in Tower |-> 0]
      /\ allocated = 0 /\ max_level = 0 /\ retired = {}
      /\ th = [t \in Thread |-> NoCall]
  BY DEF Init, NewList
<1>2. Unmarked(NULL) \in Link /\ Unmarked(NULL).to = NULL /\ ~Unmarked(NULL).marked
  BY DEF Unmarked, Link
<1>3. ~Linking(NoCall) /\ ~Retiring(NoCall) /\ ~Unlinked(NoCall)
  BY DEF Linking, Retiring, Unlinked
<1>4. TypeOK
  BY <1>1, <1>2 DEF TypeOK
<1>5. Locals
  <2>1. \A k, lv : LocalInv(NoCall, k, lv)
    BY <1>3 DEF LocalInv, CallInv, Searching
  <2>. QED
    BY <1>1, <2>1, Zenon DEF Locals
<1>6. PrivateInv
  <2>0. NoCall.tower = 0
    BY DEF NULL
  <2>1. \A t \in Thread : th[t].tower = 0
    BY <1>1, <2>0, Zenon
  <2>2. \A m \in Node, l \in Level : forward[m][l].to = NULL /\ ~forward[m][l].marked
    BY <1>1, <1>2
  <2>3. \A t \in Thread : th[t].tower <= allocated
    <3>1. 0 <= 0
      OBVIOUS
    <3>. QED
      BY <1>1, <2>1, <3>1, Zenon
  <2>. QED
    BY <1>1, <1>3, <2>2, <2>3 DEF PrivateInv
<1>7. RetireInv
  BY <1>1, <1>3 DEF RetireInv
<1>8. ApartInv
  BY <1>1, <1>3 DEF ApartInv, Apart, WholeInv, Conflict
<1>. QED
  BY <1>4, <1>5, <1>6, <1>7, <1>8 DEF Inv

\* every step keeps it,
LEMMA NextInv == Inv /\ [Next]_vars => Kept
<1> SUFFICES ASSUME Inv, [Next]_vars PROVE Kept
  OBVIOUS
<1>1. CASE UNCHANGED vars
  <2>1. Inv'
    BY <1>1 DEF vars, shared, Inv, TypeOK, Locals, PrivateInv, Private, RetireInv
  <2>2. ApartInv => ApartInv'
    BY <1>1 DEF vars, shared, ApartInv, Apart, WholeInv
  <2>. QED
    BY <2>1, <2>2 DEF Kept
<1>2. ASSUME NEW t \in Thread, NEW c \in Calls[t], BeginCall(t, c)
      PROVE  Kept
  BY <1>2, BeginKeeps
<1>3. ASSUME NEW t \in Thread, Work(t)
      PROVE  Kept
  BY <1>3, WorkKeeps
<1>4. ASSUME NEW t \in Thread, Return(t)
      PROVE  Kept
  BY <1>4, ReturnKeeps
<1>. QED
  BY <1>1, <1>2, <1>3, <1>4 DEF Next

\* and so it holds always.
LEMMA Invariant == Spec => []Inv
<1>1. Inv /\ [Next]_vars => Inv'
  BY NextInv DEF Kept
<1>2. Init => Inv
  BY InitInv
<1>. QED
  BY <1>1, <1>2, PTL DEF Spec
-----------------------------------------------------------------------------
\* Every variable of the list and of its threads has its type: in particular a
\* search never follows a pointer out of the towers allocated, or writes past a table.
THEOREM TypeCorrect == Spec => []TypeOK
<1>1. Inv => TypeOK
  BY DEF Inv
<1>. QED
  BY <1>1, Invariant, PTL

\* However many threads insert and remove a key at once, a removed tower is
\* handed to the reclaim lists once (SkipList.c:466-477): the thread that marked
\* its bottom level is the only one to come to add_to_reclaim_list with it.
THEOREM RetiredAtMostOnce == Spec => RetiredOnce
<1>1. Inv => \A t \in Thread : Retire(t) => th[t].tower \notin retired
  <2>. SUFFICES ASSUME Inv, NEW t \in Thread, Retire(t)
       PROVE  th[t].tower \notin retired
    OBVIOUS
  <2>1. Retiring(th[t])
    BY Met DEF Retire, LocalInv, CallInv, Retiring
  <2>. QED
    BY <2>1 DEF Inv, RetireInv
<1>. QED
  BY <1>1, Invariant, PTL DEF RetiredOnce

\* A marked pointer keeps its value: on the bottom level whoever writes it, and
\* above it if insertions of a key are kept apart from removals of it.
LEMMA MarkedStays ==
  ASSUME Inv, Next, NEW n \in Tower, NEW l \in Level, forward[n][l].marked,
         ApartInv \/ l = 0
  PROVE  forward'[n][l] = forward[n][l]
<1> USE Constants
<1>1. forward \in [Node -> [Level -> Link]]
  BY DEF Inv, TypeOK
<1>2. CASE UNCHANGED forward
  BY <1>2
<1>3. ASSUME NEW t \in Thread, NEW m \in Node, NEW k \in Level,
             NEW p \in Pointer, NEW q \in Pointer, Cas(m, k, Unmarked(p), Unmarked(q))
      PROVE  forward'[n][l] = forward[n][l]
  <2>1. ~forward[m][k].marked
    BY <1>3 DEF Cas, Unmarked
  <2>. QED
    BY <1>1, <1>3, <2>1 DEF Cas
<1>4. ASSUME NEW t \in Thread, Unlink(t)
      PROVE  forward'[n][l] = forward[n][l]
  <2>1. /\ th[t].cur \in Node /\ th[t].lvl \in Level /\ th[t].next \in Pointer
        /\ th[t].link.to \in Pointer
    BY Met DEF ThreadState, Link
  <2>2. CASE UNCHANGED forward
    BY <2>2
  <2>. QED
    BY <1>3, <1>4, <2>1, <2>2 DEF Unlink, CasFails
<1>5. ASSUME NEW t \in Thread, LinkCas(t)
      PROVE  forward'[n][l] = forward[n][l]
  <2>1. /\ th[t] \in ThreadState /\ th[t].lvl \in Level /\ th[t].tower \in Pointer
    BY Met DEF ThreadState
  <2>2. th[t].preds[th[t].lvl] \in Node /\ th[t].succs[th[t].lvl] \in Pointer
    BY <2>1 DEF ThreadState
  <2>. QED
    BY <1>2, <1>3, <1>5, <2>1, <2>2 DEF LinkCas, CasFails
<1>6. ASSUME NEW t \in Thread, LinkStore(t)
      PROVE  forward'[n][l] = forward[n][l]
  <2> DEFINE r == th[t]
             new == Unmarked(r.succs[r.lvl])
  <2>1. /\ r \in ThreadState /\ LocalInv(r, key, level) /\ r.pc = "LinkStore"
        /\ forward' = [forward EXCEPT ![r.tower][r.lvl] = new]
    BY <1>6, Met DEF LinkStore
  <2>2. r.tower \in Tower /\ r.lvl \in Level /\ Linking(r) /\ LinkLevel(r) = r.lvl
    BY <2>1 DEF LocalInv, CallInv, ThreadState, Pointer, Linking, LinkLevel, Searching
  <2>3. ~forward[r.tower][r.lvl].marked \/ (r.lvl # 0 /\ ~ApartInv)
    <3>1. CASE r.lvl = 0
      BY <2>2, <3>1 DEF Private, Unlinked, Inv, PrivateInv
    <3>2. CASE ApartInv
      <4>1. r.lvl >= LinkLevel(r)
        BY <2>2 DEF Level
      <4>. QED
        BY <2>2, <3>2, <4>1 DEF ApartInv, WholeInv
    <3>. QED
      BY <3>1, <3>2
  <2> HIDE DEF new
  <2>. QED
    BY <1>1, <2>1, <2>2, <2>3
<1>7. ASSUME NEW t \in Thread, MarkCas(t)
      PROVE  forward'[n][l] = forward[n][l]
  <2> DEFINE r == th[t]
             new == Marked(r.link.to)
  <2>1. /\ r \in ThreadState /\ LocalInv(r, key, level) /\ r.pc = "MarkCas"
    BY <1>7, Met DEF MarkCas
  <2>2. r.tower \in Tower /\ r.lvl \in Level /\ r.link \in Link
    BY <2>1 DEF LocalInv, CallInv, ThreadState, Pointer
  <2>3. CASE UNCHANGED forward
    BY <2>3
  <2>4. CASE forward[r.tower][r.lvl] = r.link /\ forward' = [forward EXCEPT ![r.tower][r.lvl] = new]
    <3>1. r.link.marked => new = r.link
      BY <2>2, Zenon DEF Marked, Link
    <3> HIDE DEF new
    <3>. QED
      BY <1>1, <2>2, <2>4, <3>1
  <2>. QED
    BY <1>7, <2>3, <2>4 DEF MarkCas, Cas, CasFails
<1>8. ASSUME NEW t \in Thread,
             \/ \E c \in Calls[t] : BeginCall(t, c)
             \/ Load(t) \/ Look(t) \/ UpdateValue(t) \/ NoMemory(t) \/ NewTower(t)
             \/ MaxStore(t) \/ RemoveAbsent(t) \/ MarkLoad(t) \/ Retire(t)
             \/ ReadValue(t) \/ NoElement(t) \/ Return(t)
      PROVE  UNCHANGED forward
  BY <1>8, Zenon DEF BeginCall, BeginInsert, BeginRemove, BeginSearch, Begin, Load, Look,
     UpdateValue, NoMemory, NewTower, MaxStore, RemoveAbsent, MarkLoad, Retire,
     ReadValue, NoElement, Return, shared
<1>. QED
  BY <1>2, <1>4, <1>5, <1>6, <1>7, <1>8 DEF Next, Work

\* On the bottom level, where a mark takes a key out of the map, it is final
\* whatever calls meet: a removed key never comes back with its old tower.
THEOREM BottomMarksFinal ==
  Spec => [][\A n \in Tower : forward[n][0].marked => forward'[n][0] = forward[n][0]]_vars
<1>1. Inv /\ [Next]_vars =>
        [\A n \in Tower : forward[n][0].marked => forward'[n][0] = forward[n][0]]_vars
  BY MarkedStays, Constants
<1>. QED
  BY <1>1, Invariant, PTL DEF Spec
-----------------------------------------------------------------------------
(***************************************************************************)
(* The ways through a level: what n leads to, and n, is the least set with *)
(* n that is closed under the forward pointers f of level l.               *)
(***************************************************************************)
Closed(S, f, l) == \A a \in S : f[a][l].to \in S \cup {NULL}

Way(f, l, n) == {m \in Node : \A S \in SUBSET Node : n \in S /\ Closed(S, f, l) => m \in S}

Pointers == [Node -> [Level -> Link]]

\* a comes before b, by the keys k.
Lt(k, a, b) == a = Header \/ k[a] < k[b]

\* The pointers of level l lead to larger keys.
Ascending(f, l, k) == \A a \in Node : f[a][l].to # NULL => Lt(k, a, f[a][l].to)

\* A pointer leads to a tower or nowhere.
LEMMA PointerType ==
  ASSUME NEW f \in Pointers, NEW l \in Level, NEW n \in Node
  PROVE  f[n][l].to \in Pointer /\ (f[n][l].to # NULL => f[n][l].to \in Tower /\ f[n][l].to \in Node)
<1>1. f[n][l] \in Link
  BY DEF Pointers
<1>2. f[n][l].to \in Pointer
  BY <1>1 DEF Link
<1>. QED
  BY <1>2, Constants DEF Pointer

\* A way is closed under the pointers of its level ...
LEMMA WayClosed ==
  ASSUME NEW f \in Pointers, NEW l \in Level, NEW n \in Node
  PROVE  n \in Way(f, l, n) /\ Closed(Way(f, l, n), f, l) /\ Way(f, l, n) \subseteq Node
<1>1. n \in Way(f, l, n) /\ Way(f, l, n) \subseteq Node
  BY DEF Way
<1>2. ASSUME NEW a \in Way(f, l, n), f[a][l].to # NULL
      PROVE  f[a][l].to \in Way(f, l, n)
  <2>1. f[a][l].to \in Node
    BY <1>1, <1>2, PointerType
  <2>. QED
    BY <1>2, <2>1 DEF Way, Closed
<1>. QED
  BY <1>1, <1>2 DEF Closed

\* ... and lies in every closed set that holds its first node.
LEMMA WayIn ==
  ASSUME NEW f, NEW l, NEW n, NEW S \in SUBSET Node, n \in S, Closed(S, f, l)
  PROVE  Way(f, l, n) \subseteq S
BY DEF Way

\* Past n, a way goes through what follows n.
LEMMA WayFirst ==
  ASSUME NEW f \in Pointers, NEW l \in Level, NEW n \in Node,
         NEW m \in Way(f, l, n), m # n
  PROVE  f[n][l].to # NULL /\ m \in Way(f, l, f[n][l].to)
<1> DEFINE p == f[n][l].to
<1>1. ASSUME p = NULL PROVE m \in {n}
  <2>1. Closed({n}, f, l)
    BY <1>1 DEF Closed
  <2>2. Way(f, l, n) \subseteq {n}
    BY <2>1, WayIn
  <2>. QED
    BY <2>2
<1>2. CASE p # NULL
  <2>1. p \in Node
    BY <1>2, PointerType
  <2>2. p \in Way(f, l, p) /\ Closed(Way(f, l, p), f, l) /\ Way(f, l, p) \subseteq Node
    BY <2>1, WayClosed
  <2> DEFINE S == {n} \cup Way(f, l, p)
  <2>3. Closed(S, f, l)
    BY <2>2 DEF Closed
  <2>4. S \in SUBSET Node /\ n \in S
    BY <2>2
  <2>5. m \in S
    BY <2>3, <2>4, WayIn
  <2>. QED
    BY <1>2, <2>5
<1>. QED
  BY <1>1, <1>2

\* A way depends on the pointers it goes through.
LEMMA WaySame ==
  ASSUME NEW f \in Pointers, NEW g \in Pointers, NEW l \in Level, NEW n \in Node,
         \A a \in Way(f, l, n) : g[a][l].to = f[a][l].to
  PROVE  Way(g, l, n) = Way(f, l, n)
<1>1. Way(g, l, n) \subseteq Way(f, l, n)
  BY WayClosed, WayIn DEF Closed
<1>2. Closed(Way(g, l, n), f, l)
  BY <1>1, WayClosed DEF Closed
<1>. QED
  BY <1>1, <1>2, WayClosed, WayIn

\* x, which p leads to, is taken out between p and y.
LEMMA WayWithout ==
  ASSUME NEW f \in Pointers, NEW g \in Pointers, NEW l \in Level,
         NEW p \in Node, NEW x \in Node, p # x,
         f[p][l].to = x, g[p][l].to = f[x][l].to,
         \A a \in Node : a # p => g[a][l].to = f[a][l].to,
         NEW c \in Node
  PROVE  /\ Way(g, l, c) \subseteq Way(f, l, c)
         /\ \A m \in Way(f, l, c) : m # x => m \in Way(g, l, c)
<1> DEFINE F == Way(f, l, c)
           G == Way(g, l, c)
<1>0. /\ c \in F /\ Closed(F, f, l) /\ F \subseteq Node
      /\ c \in G /\ Closed(G, g, l) /\ G \subseteq Node
  BY WayClosed
<1>00. NULL \notin Node
  BY Constants DEF Node, NULL, Header
<1>1. Closed(F, g, l)
  BY <1>0, <1>00 DEF Closed
<1>2. G \subseteq F
  BY <1>0, <1>1, WayIn
<1>3. CASE p \in G
  <2> DEFINE S == G \cup {x}
  <2>1. Closed(S, f, l)
    BY <1>0, <1>3 DEF Closed
  <2>2. F \subseteq S
    BY <1>0, <2>1, WayIn
  <2>. QED
    BY <1>2, <2>2
<1>4. CASE p \notin G
  <2>1. F = G
    BY <1>0, <1>4, WaySame
  <2>. QED
    BY <2>1
<1>. QED
  BY <1>3, <1>4

\* x is put between p and what followed p.
LEMMA WayWith ==
  ASSUME NEW f \in Pointers, NEW g \in Pointers, NEW l \in Level,
         NEW p \in Node, NEW x \in Node, p # x,
         f[x][l].to = f[p][l].to, g[p][l].to = x,
         \A a \in Node : a # p => g[a][l].to = f[a][l].to,
         NEW c \in Node
  PROVE  /\ Way(f, l, c) \subseteq Way(g, l, c)
         /\ Way(g, l, c) \subseteq Way(f, l, c) \cup {x}
<1> DEFINE F == Way(f, l, c)
           G == Way(g, l, c)
<1>0. /\ c \in F /\ Closed(F, f, l) /\ F \subseteq Node
      /\ c \in G /\ Closed(G, g, l) /\ G \subseteq Node
  BY WayClosed
<1>00. NULL \notin Node
  BY Constants DEF Node, NULL, Header
<1>1. Closed(G, f, l)
  BY <1>0, <1>00 DEF Closed
<1>2. F \subseteq G
  BY <1>0, <1>1, WayIn
<1>3. CASE p \in F
  <2> DEFINE S == F \cup {x}
  <2>1. Closed(S, g, l)
    BY <1>0, <1>3 DEF Closed
  <2>2. G \subseteq S
    BY <1>0, <2>1, WayIn
  <2>. QED
    BY <1>2, <2>2
<1>4. CASE p \notin F
  <2>1. F = G
    BY <1>0, <1>4, WaySame
  <2>. QED
    BY <2>1
<1>. QED
  BY <1>3, <1>4

\* Whatever n leads to has a larger key.
LEMMA WayAscends ==
  ASSUME NEW f \in Pointers, NEW l \in Level, NEW k \in [Tower -> Int], Ascending(f, l, k),
         NEW n \in Node, NEW m \in Way(f, l, n), m # n
  PROVE  m \in Tower /\ Lt(k, n, m)
<1> DEFINE S == {n} \cup {a \in Tower : Lt(k, n, a)}
<1>1. S \in SUBSET Node
  BY Constants
<1>2. ASSUME NEW a \in S, f[a][l].to # NULL
      PROVE  f[a][l].to \in S
  <2>1. a \in Node /\ f[a][l].to \in Tower
    BY <1>1, <1>2, PointerType
  <2>2. Lt(k, a, f[a][l].to)
    BY <1>2, <2>1 DEF Ascending
  <2>3. CASE a = n
    BY <2>1, <2>2, <2>3
  <2>4. CASE a # n /\ n = Header
    BY <2>1, <2>4 DEF Lt
  <2>5. CASE a # n /\ n # Header
    <3>1. a \in Tower /\ n \in Tower /\ k[n] < k[a]
      BY <2>5 DEF Lt, Node
    <3>2. k[a] < k[f[a][l].to]
      BY <2>2, <3>1, Constants DEF Lt
    <3>3. k[n] \in Int /\ k[a] \in Int /\ k[f[a][l].to] \in Int
      BY <2>1, <3>1
    <3>. QED
      BY <2>1, <3>1, <3>2, <3>3 DEF Lt
  <2>. QED
    BY <2>3, <2>4, <2>5
<1>3. Closed(S, f, l)
  BY <1>2 DEF Closed
<1>4. m \in S
  BY <1>1, <1>3, WayIn
<1>. QED
  BY <1>4

\* Of two nodes of one way, one leads to the other.
LEMMA WayTotal ==
  ASSUME NEW f \in Pointers, NEW l \in Level, NEW h \in Node,
         NEW a \in Way(f, l, h), NEW b \in Way(f, l, h)
  PROVE  a \in Way(f, l, b) \/ b \in Way(f, l, a)
<1> DEFINE S == {c \in Way(f, l, h) : a \in Way(f, l, c) \/ c \in Way(f, l, a)}
<1>0. h \in Way(f, l, h) /\ Closed(Way(f, l, h), f, l) /\ Way(f, l, h) \subseteq Node
  BY WayClosed
<1>1. S \in SUBSET Node /\ h \in S
  BY <1>0
<1>2. ASSUME NEW c \in S, f[c][l].to # NULL
      PROVE  f[c][l].to \in S
  <2>1. f[c][l].to \in Way(f, l, h) /\ c \in Node /\ f[c][l].to \in Node /\ a \in Node
    BY <1>0, <1>2, PointerType DEF Closed
  <2>2. CASE c \in Way(f, l, a)
    BY <1>2, <2>1, <2>2, WayClosed DEF Closed
  <2>3. CASE a \in Way(f, l, c) /\ a # c
    BY <2>1, <2>3, WayFirst
  <2>4. CASE a = c
    BY <1>2, <2>1, <2>4, WayClosed DEF Closed
  <2>. QED
    BY <2>2, <2>3, <2>4
<1>3. Closed(S, f, l)
  BY <1>2 DEF Closed
<1>4. b \in S
  BY <1>1, <1>3, WayIn
<1>. QED
  BY <1>4

\* The one with the smaller key leads to the other.
LEMMA WayOrdered ==
  ASSUME NEW f \in Pointers, NEW l \in Level, NEW k \in [Tower -> Int], Ascending(f, l, k),
         NEW h \in Node, NEW a \in Way(f, l, h), NEW b \in Way(f, l, h), b \in Tower,
         ~ Lt(k, b, a) \/ Lt(k, a, b)
  PROVE  b \in Way(f, l, a)
<1>1. b \in Node /\ Way(f, l, h) \subseteq Node
  BY WayClosed
<1>2. CASE a \in Way(f, l, b) /\ a # b
  <2>1. a \in Tower /\ Lt(k, b, a) /\ b # Header
    BY <1>1, <1>2, WayAscends, Constants
  <2>2. k[b] < k[a] /\ a # Header /\ k[a] \in Int /\ k[b] \in Int
    BY <2>1, Constants DEF Lt
  <2>3. Lt(k, a, b)
    BY <2>1
  <2>. QED
    BY <2>2, <2>3 DEF Lt
<1>3. CASE a = b
  BY <1>1, <1>3, WayClosed
<1>. QED
  BY <1>2, <1>3, WayTotal

\* Two nodes of one way do not lead to one node.
LEMMA WayInto ==
  ASSUME NEW f \in Pointers, NEW l \in Level, NEW k \in [Tower -> Int], Ascending(f, l, k),
         NEW h \in Node, NEW a \in Way(f, l, h), NEW b \in Way(f, l, h),
         f[a][l].to = f[b][l].to, f[a][l].to # NULL
  PROVE  a = b
<1>1. a \in Node /\ b \in Node
  BY WayClosed
<1> DEFINE x == f[a][l].to
<1>2. x \in Tower /\ x \in Node /\ Lt(k, a, x) /\ Lt(k, b, x)
  BY <1>1, PointerType DEF Ascending
<1>3. ASSUME NEW c \in Node, Lt(k, c, x), c \in Way(f, l, x)
      PROVE  FALSE
  <2>1. c # x
    <3>1. k[x] \in Int /\ x # Header
      BY <1>2, Constants
    <3>. QED
      BY <1>3, <3>1 DEF Lt
  <2>2. c \in Tower /\ Lt(k, x, c)
    BY <1>2, <1>3, <2>1, WayAscends
  <2>3. k[c] < k[x] /\ k[x] < k[c]
    BY <1>2, <1>3, <2>2, Constants DEF Lt
  <2> HIDE DEF x
  <2>. QED
    BY <1>2, <2>2, <2>3
<1>4. CASE a \in Way(f, l, b) /\ a # b
  <2>1. a \in Way(f, l, x)
    BY <1>1, <1>4, WayFirst
  <2>. QED
    BY <1>1, <1>2, <1>3, <2>1
<1>5. CASE b \in Way(f, l, a) /\ a # b
  <2>1. b \in Way(f, l, x)
    BY <1>1, <1>5, WayFirst
  <2>. QED
    BY <1>1, <1>2, <1>3, <2>1
<1>. QED
  BY <1>4, <1>5, WayTotal
-----------------------------------------------------------------------------
\* The walk of Chain: what i steps from each node lead to.
Walk(f, l, m) == [n \in Node |-> IF f[n][l].to = NULL THEN {}
                                 ELSE {f[n][l].to} \cup m[f[n][l].to]]

Walks == [Node -> SUBSET Tower]

NoWalk == [a \in Node |-> {}]

After(f, l, n) ==
  CHOOSE w : w = [i \in 0 .. n |-> [a \in Node |->
    IF i = 0 \/ f[a][l].to = NULL THEN {}
    ELSE {f[a][l].to} \cup w[i - 1][f[a][l].to]]]

\* A function can be iterated: the axioms of recursive definition, for the sets of walks.
LEMMA IteratedWalks ==
  ASSUME NEW T, T = Walks, NEW x \in T, NEW g \in [T -> T]
  PROVE  \E h \in [Nat -> T] : h[0] = x /\ \A i \in Nat : h[i + 1] = g[h[i]]
BY Iteration

\* There is the sequence of all walks from a node, one step longer each.
LEMMA WalksExist ==
  ASSUME NEW f \in Pointers, NEW l \in Level
  PROVE  \E h \in [Nat -> Walks] :
           h[0] = NoWalk /\ \A i \in Nat : h[i + 1] = Walk(f, l, h[i])
<1> DEFINE x == NoWalk
           g == [m \in Walks |-> Walk(f, l, m)]
<1>1. x \in Walks
  BY DEF Walks, NoWalk
<1>2. g \in [Walks -> Walks]
  <2> SUFFICES ASSUME NEW m \in Walks PROVE Walk(f, l, m) \in Walks
    OBVIOUS
  <2>1. \A a \in Node : f[a][l].to # NULL => f[a][l].to \in Tower /\ f[a][l].to \in Node
    BY PointerType
  <2>. QED
    BY <2>1 DEF Walk, Walks
<1> HIDE DEF x
<1>3. PICK h \in [Nat -> Walks] : h[0] = x /\ \A i \in Nat : h[i + 1] = g[h[i]]
  <2> HIDE DEF g
  <2>. QED
    BY <1>1, <1>2, IteratedWalks
<1>4. \A i \in Nat : h[i] \in Walks /\ g[h[i]] = Walk(f, l, h[i])
  BY <1>3
<1>. QED
  BY <1>3, <1>4 DEF x

\* The sets that Chain goes through are those walks.
LEMMA AfterWalks ==
  ASSUME NEW f \in Pointers, NEW l \in Level, NEW n \in Nat,
         NEW h \in [Nat -> Walks], h[0] = NoWalk,
         \A i \in Nat : h[i + 1] = Walk(f, l, h[i])
  PROVE  \A i \in 0 .. n : After(f, l, n)[i] = h[i]
<1> DEFINE F(w) == [i \in 0 .. n |-> [a \in Node |->
                      IF i = 0 \/ f[a][l].to = NULL THEN {}
                      ELSE {f[a][l].to} \cup w[i - 1][f[a][l].to]]]
           A == After(f, l, n)
           w == [i \in 0 .. n |-> h[i]]
<1>1. w = F(w)
  <2> SUFFICES ASSUME NEW i \in 0 .. n PROVE w[i] = F(w)[i]
    OBVIOUS
  <2>1. CASE i = 0
    BY <2>1 DEF NoWalk
  <2>2. CASE i # 0
    <3>1. i - 1 \in Nat /\ i - 1 \in 0 .. n /\ (i - 1) + 1 = i
      BY <2>2
    <3>2. h[i] = Walk(f, l, h[i - 1])
      BY <3>1
    <3>. QED
      BY <2>2, <3>1, <3>2 DEF Walk
  <2>. QED
    BY <2>1, <2>2
<1>2. A = CHOOSE a : a = F(a)
  BY DEF After
<1> HIDE DEF A
<1>3. A = F(A)
  <2> HIDE DEF F, w
  <2>. QED
    BY <1>1, <1>2
<1>4. A[0] = h[0]
  BY <1>3 DEF NoWalk
<1>5. ASSUME NEW i \in Nat, i + 1 <= n, A[i] = h[i]
      PROVE  A[i + 1] = h[i + 1]
  <2>1. i + 1 \in 0 .. n /\ i + 1 # 0 /\ (i + 1) - 1 = i
    BY <1>5
  <2>2. F(A)[i + 1] = [a \in Node |->
                      IF f[a][l].to = NULL THEN {}
                      ELSE {f[a][l].to} \cup A[i][f[a][l].to]]
    BY <2>1
  <2> HIDE DEF F
  <2>3. A[i + 1] = Walk(f, l, A[i])
    BY <1>3, <2>2 DEF Walk
  <2>. QED
    BY <1>5, <2>3
<1> DEFINE S == {i \in Nat : i <= n => A[i] = h[i]}
<1> HIDE DEF F
<1>6. 0 \in S
  BY <1>4
<1>7. ASSUME NEW i \in Nat, i \in S PROVE i + 1 \in S
  BY <1>5, <1>7
<1> HIDE DEF S
<1>8. Nat \subseteq S
  BY <1>6, <1>7, SetInduction
<1>9. \A i \in 0 .. n : A[i] = h[i]
  BY <1>8 DEF S
<1>. QED
  BY <1>9 DEF A

\* Towers steps from the header are enough to meet every tower that it leads to.
LEMMA ChainWay ==
  ASSUME forward \in Pointers, NEW l \in Level, NEW k \in [Tower -> Int],
         Ascending(forward, l, k)
  PROVE  Chain(l) = Way(forward, l, Header) \ {Header}
<1> DEFINE W(n) == Way(forward, l, n)
<1>0. Towers \in Nat /\ Header \in Node /\ Header \notin Tower /\ Tower \subseteq Node
  BY Constants
<1>1. PICK h \in [Nat -> Walks] :
        h[0] = NoWalk /\ \A i \in Nat : h[i + 1] = Walk(forward, l, h[i])
  BY WalksExist
<1>2. Chain(l) = h[Towers][Header]
  <2>1. Chain(l) = After(forward, l, Towers)[Towers][Header]
    BY DEF Chain, After
  <2>2. Towers \in 0 .. Towers
    BY <1>0
  <2>. QED
    <3>1. \A i \in 0 .. Towers : After(forward, l, Towers)[i] = h[i]
      BY <1>0, <1>1, AfterWalks
    <3>. QED
      BY <2>1, <2>2, <3>1
<1>3. IsFiniteSet(Tower) /\ Cardinality(Tower) = Towers
  <2>1. IsFiniteSet(1 .. Towers)
        /\ Cardinality(1 .. Towers) = IF 1 > Towers THEN 0 ELSE Towers - 1 + 1
    BY <1>0, FS_Interval
  <2>2. (IF 1 > Towers THEN 0 ELSE Towers - 1 + 1) = Towers
    BY <1>0
  <2>. QED
    BY ONLY <2>1, <2>2 DEF Tower
<1> DEFINE Good(i, n) ==
             /\ \A m \in h[i][n] : m \in W(n) /\ m # n
             /\ W(n) \subseteq {n} \cup h[i][n] \/ Cardinality(h[i][n]) >= i
           S == {i \in Nat : \A n \in Node : Good(i, n)}
<1>4. 0 \in S
  <2>1. \A n \in Node : h[0][n] = {} /\ Cardinality({}) = 0
    BY <1>1, FS_EmptySet DEF NoWalk
  <2>2. \A n \in Node : Good(0, n)
    BY ONLY <2>1
  <2>. QED
    BY ONLY <2>2
<1>5. ASSUME NEW i \in Nat, i \in S PROVE i + 1 \in S
  <2> SUFFICES ASSUME NEW n \in Node PROVE Good(i + 1, n)
    BY DEF S
  <2> DEFINE p == forward[n][l].to
  <2>1. h[i] \in Walks /\ h[i + 1][n] = IF p = NULL THEN {} ELSE {p} \cup h[i][p]
    BY <1>1 DEF Walk
  <2>2. CASE p = NULL
    <3>1. h[i + 1][n] = {}
      BY <2>1, <2>2
    <3>2. \A m \in W(n) : m = n
      BY <2>2, WayFirst
    <3> HIDE DEF W
    <3>. QED
      BY <3>1, <3>2
  <2>3. CASE p # NULL
    <3>1. p \in Tower /\ p \in Node /\ Good(i, p) /\ h[i][p] \in SUBSET Tower
      BY <1>5, <2>1, <2>3, PointerType DEF Walks
    <3>2. n \in W(n) /\ p \in W(n) /\ W(p) \subseteq W(n)
      <4>1. n \in W(n) /\ Closed(W(n), forward, l) /\ W(n) \in SUBSET Node
        BY WayClosed
      <4>2. p \in W(n)
        BY <2>3, <4>1 DEF Closed
      <4>. QED
        BY <4>1, <4>2, WayIn
    <3>3. W(n) \subseteq {n} \cup W(p)
      BY WayFirst
    <3>4. Lt(k, n, p)
      BY <2>3 DEF Ascending
    <3>5. n \notin W(p)
      <4> SUFFICES ASSUME n \in W(p) PROVE FALSE
        OBVIOUS
      <4>1. n # p /\ (n = Header \/ k[n] < k[p])
        BY <1>0, <3>1, <3>4 DEF Lt, Node
      <4>2. n \in Tower /\ Lt(k, p, n)
        BY <3>1, <4>1, WayAscends
      <4>. QED
        BY <1>0, <3>1, <4>1, <4>2 DEF Lt
    <3> HIDE DEF W
    <3>6. h[i + 1][n] = {p} \cup h[i][p] /\ p \notin h[i][p]
      BY <2>1, <2>3, <3>1
    <3> HIDE DEF p
    <3>7. p \in W(p)
      BY <3>1, WayClosed DEF W
    <3>8. \A m \in h[i + 1][n] : m \in W(n) /\ m # n
      BY <3>1, <3>2, <3>5, <3>6, <3>7
    <3>9. CASE W(p) \subseteq {p} \cup h[i][p]
      BY <3>3, <3>6, <3>8, <3>9
    <3>10. CASE Cardinality(h[i][p]) >= i
      <4>1. IsFiniteSet(h[i][p]) /\ Cardinality(h[i][p]) \in Nat
        BY <1>3, <3>1, FS_Subset, FS_CardinalityType
      <4>2. Cardinality(h[i][p] \cup {p}) = Cardinality(h[i][p]) + 1
        BY <3>6, <4>1, FS_AddElement
      <4>3. h[i + 1][n] = h[i][p] \cup {p}
        BY <3>6
      <4>4. Cardinality(h[i + 1][n]) >= i + 1
        BY <3>10, <4>1, <4>2, <4>3
      <4>. QED
        BY <3>8, <4>4
    <3>. QED
      BY <3>1, <3>9, <3>10
  <2>. QED
    BY <2>2, <2>3
<1> HIDE DEF S
<1>6. Nat \subseteq S
  BY <1>4, <1>5, SetInduction
<1>7. Good(Towers, Header)
  BY <1>0, <1>6 DEF S
<1> DEFINE B == h[Towers][Header]
<1>8. B \in SUBSET Tower
  BY <1>0, <1>1 DEF Walks
<1>9. W(Header) \subseteq {Header} \cup Tower
  BY <1>0, WayClosed DEF Node
<1>10. CASE Cardinality(B) >= Towers
  <2>1. Cardinality(B) \in Nat /\ Cardinality(B) <= Towers
    BY <1>3, <1>8, FS_Subset, FS_CardinalityType
  <2>2. Cardinality(B) = Cardinality(Tower)
    BY <1>0, <1>3, <1>10, <2>1
  <2>3. B = Tower
    BY <1>3, <1>8, <2>2, FS_Subset
  <2>. QED
    BY <1>2, <1>7, <1>9, <2>3
<1>11. CASE W(Header) \subseteq {Header} \cup B
  BY <1>2, <1>7, <1>11
<1>. QED
  BY <1>7, <1>10, <1>11
-----------------------------------------------------------------------------
(***************************************************************************)
(* The shape of the list, if insertions of a key are kept apart from other *)
(* insertions and removals of it.                                          *)
(***************************************************************************)
\* The nodes linked on each level now or before: an insertion has come past it.
Joined == [l \in Level |-> {Header} \cup
  {n \in Tower : /\ n <= allocated /\ l <= level[n]
                 /\ \A t \in Thread : Linking(th[t]) /\ th[t].tower = n => l < LinkLevel(th[t])}]

InList(n, l) == n \in Way(forward, l, Header)

Live == {n \in Tower : n \in Joined[0] /\ ~forward[n][0].marked}

Before(a, k) == a = Header \/ key[a] < k

Marking(r, n) == r.pc \in {"MarkLoad", "MarkCas"} /\ r.tower = n

HeaderInv == \A l \in Level : ~forward[Header][l].marked

\* Pointers lead to towers that were linked, with larger keys.
LinkInv == \A n \in Node, l \in Level : forward[n][l].to # NULL =>
  forward[n][l].to \in Joined[l] /\ Lt(key, n, forward[n][l].to) /\ n <= allocated

\* What is linked and not marked is in the list.
LinkedInv == \A n \in Node, l \in Level :
  n \in Joined[l] /\ ~forward[n][l].marked => InList(n, l)

\* Towers are marked from the top down, each by a thread that goes on to the bottom.
MarkInv == \A n \in Tower, l \in Level : forward[n][l].marked =>
  /\ n \in Joined[l]
  /\ \A j \in Level : l <= j /\ j <= level[n] => forward[n][j].marked
  /\ forward[n][0].marked \/ \E t \in Thread : Marking(th[t], n)

\* A tower marked on the bottom level is retired, or in the hands of its remover.
HandInv == \A n \in Tower : forward[n][0].marked =>
  n \in retired \/ \E t \in Thread : Retiring(th[t]) /\ th[t].tower = n

GoneInv == \A n \in retired, l \in Level : ~InList(n, l)

ListInv == HeaderInv /\ LinkInv /\ LinkedInv /\ MarkInv /\ HandInv /\ GoneInv

\* Where a search is.
CurInv(r) == r.pc \in Searching => r.cur \in Joined[r.lvl] /\ Before(r.cur, r.key)

AheadInv(r) ==
  /\ r.pc \in {"Look", "Unlink"} => r.next \in Joined[r.lvl] /\ Lt(key, r.cur, r.next)
  /\ r.pc = "Unlink" => forward[r.next][r.lvl] = r.link /\ r.link.marked

\* What the tables hold: between their towers there is room for the key.
TableInv(r) == \A l \in Level :
  /\ r.preds[l] \in Joined[l] /\ Before(r.preds[l], r.key)
  /\ r.succs[l] # NULL =>
       /\ r.succs[l] \in Joined[l] /\ key[r.succs[l]] >= r.key
       /\ Linking(r) => key[r.succs[l]] # r.key
       /\ r.op = "insert" /\ r.tower = NULL /\ key[r.succs[l]] = r.key
            => ~forward[r.succs[l]][l].marked

StoredInv(r) ==
  r.pc = "LinkCas" => forward[r.tower][r.lvl] = Unmarked(r.succs[r.lvl])

\* The search of a call must come to tower n on level l: it holds the key, for
\* all that the caller may report, or it is the tower that the call removes.
Missed(r) == r.op = "search" /\ Absent \in r.results

Target(r, n, l) ==
  \/ r.tower = NULL /\ ~Missed(r) /\ l = 0 /\ n \in Live /\ key[n] = r.key
  \/ Retiring(r) /\ n = r.tower /\ InList(n, l)

Leads(r, n, l) ==
  /\ n \in Way(forward, l, r.cur)
  /\ r.pc \in {"Look", "Unlink"} /\ r.lvl = l => n \in Way(forward, l, r.next)

FindInv(r) == \A n \in Tower, l \in Level : Target(r, n, l) =>
  /\ r.pc \in Searching => l <= r.lvl /\ Leads(r, n, l)
  /\ r.pc = "Place" => n = r.succs[0]
  /\ r.pc # "Retire"

\* A call with a tower knows the only one that holds the key, and a removal
\* has marked it above the level it has come to.
TowerInv(r) ==
  /\ r.op = "remove" /\ r.pc \in Searching => r.to = 0 /\ r.from = TopLevel
  /\ r.pc # "Return" /\ r.tower # NULL =>
       \A n \in Tower : n \in Live /\ key[n] = r.key => n = r.tower
  /\ r.pc \in {"MarkLoad", "MarkCas"} =>
       /\ r.lvl <= level[r.tower]
       /\ \A l \in Level : r.lvl < l /\ l <= level[r.tower] => forward[r.tower][l].marked

\* A search may report what its key has now.
SeenInv(r) ==
  /\ r.op = "none" <=> r.pc = "Idle"
  /\ r.op # "none" => r.key \in Key
  /\ r.op \in {"remove", "search"} => r.val = Absent
  /\ r.op = "search" /\ r.pc # "Return" => Map[r.key] \in r.results

\* A tower that is not linked yet has the value of its insertion.
ValueInv(r) == Unlinked(r) => value[r.tower] = r.val

Tracking(r) == /\ CurInv(r) /\ AheadInv(r) /\ TableInv(r) /\ StoredInv(r)
               /\ FindInv(r) /\ TowerInv(r)

Tracks(r) == Tracking(r) /\ SeenInv(r) /\ ValueInv(r)

Shape == ListInv /\ \A t \in Thread : Tracks(th[t])
-----------------------------------------------------------------------------
\* The types that the proofs below need most.
LEMMA ListTypes ==
  ASSUME TypeOK
  PROVE  /\ forward \in Pointers /\ key \in [Tower -> Int] /\ level \in [Tower -> Level]
         /\ \A t \in Thread : th[t] \in ThreadState
BY DEF TypeOK, Pointers

\* What a search works on is what it works on everywhere.
LEMMA Fields ==
  ASSUME NEW r \in ThreadState
  PROVE  /\ r.cur \in Node /\ r.next \in Pointer /\ r.lvl \in Level /\ r.tower \in Pointer
         /\ r.key \in Int /\ r.to \in Level /\ r.from \in Level /\ r.link \in Link
         /\ r.link.to \in Pointer
         /\ \A l \in Level : r.preds[l] \in Node /\ r.succs[l] \in Pointer
BY DEF ThreadState, Link

\* The pointers of a level lead to larger keys.
LEMMA Orders ==
  ASSUME LinkInv, NEW l \in Level
  PROVE  Ascending(forward, l, key)
BY DEF LinkInv, Ascending

\* Towers are linked from the bottom up.
LEMMA JoinedDown ==
  ASSUME TypeOK, NEW n, NEW l \in Level, NEW j \in Level, n \in Joined[l], j <= l
  PROVE  n \in Joined[j]
<1>1. \A t \in Thread : LinkLevel(th[t]) \in Level
  BY ListTypes, Fields, Zenon DEF LinkLevel
<1>2. n \in Tower => level[n] \in Level
  BY ListTypes
<1>. QED
  BY <1>1, <1>2, Constants DEF Joined, Level

\* What a node leads to was linked, and has a larger key.
LEMMA WayJoined ==
  ASSUME TypeOK, LinkInv, NEW l \in Level, NEW c \in Node,
         NEW n \in Way(forward, l, c), n # c
  PROVE  n \in Joined[l] /\ n \in Tower /\ Lt(key, c, n)
<1>1. forward \in Pointers /\ key \in [Tower -> Int] /\ Ascending(forward, l, key)
  BY ListTypes, Orders
<1>2. n \in Tower /\ Lt(key, c, n)
  BY <1>1, WayAscends
<1> DEFINE S == {c} \cup {a \in Node : a \in Joined[l]}
<1>3. S \in SUBSET Node /\ c \in S
  OBVIOUS
<1>4. Closed(S, forward, l)
  <2>1. \A a \in Node : forward[a][l].to # NULL => forward[a][l].to \in Joined[l] /\ forward[a][l].to \in Node
    BY <1>1, PointerType DEF LinkInv
  <2>. QED
    BY <1>3, <2>1 DEF Closed
<1> HIDE DEF S
<1>5. n \in S
  BY <1>3, <1>4, WayIn
<1>. QED
  BY <1>2, <1>5 DEF S

\* A tower unmarked on one level is unmarked, and in the list, on those below.
LEMMA Plain ==
  ASSUME TypeOK, HeaderInv, LinkedInv, MarkInv, NEW n \in Node, NEW l \in Level, NEW j \in Level,
         n \in Joined[l], ~forward[n][l].marked, j <= l
  PROVE  n \in Joined[j] /\ ~forward[n][j].marked /\ InList(n, j)
<1>1. n \in Joined[j]
  BY JoinedDown
<1>2. ~forward[n][j].marked
  <2>1. CASE n = Header
    BY <2>1 DEF HeaderInv
  <2>2. CASE n # Header
    BY <2>2 DEF MarkInv, Joined
  <2>. QED
    BY <2>1, <2>2
<1>. QED
  BY <1>1, <1>2 DEF LinkedInv

\* Past an unmarked tower before the key, a search misses nothing below.
LEMMA Passed ==
  ASSUME TypeOK, HeaderInv, LinkInv, LinkedInv, MarkInv,
         NEW c \in Node, NEW l \in Level, NEW j \in Level,
         c \in Joined[l], ~forward[c][l].marked, j <= l,
         NEW n \in Tower, InList(n, j), Before(c, key[n])
  PROVE  n \in Way(forward, j, c)
<1>1. forward \in Pointers /\ key \in [Tower -> Int] /\ Ascending(forward, j, key)
  BY ListTypes, Orders
<1>2. c \in Way(forward, j, Header) /\ n \in Way(forward, j, Header)
  BY Plain DEF InList
<1>3. ~Lt(key, n, c) \/ Lt(key, c, n)
  BY DEF Before, Lt
<1>. QED
  BY <1>1, <1>2, <1>3, WayOrdered, Constants

\* Where a search stops, it is at the tower of the key or that is not ahead.
LEMMA Stops ==
  ASSUME TypeOK, LinkInv, NEW l \in Level, NEW c \in Node, NEW n \in Tower,
         n \in Way(forward, l, c), Before(c, key[n])
  PROVE  /\ forward[c][l].to # NULL /\ n \in Way(forward, l, forward[c][l].to)
         /\ \A m \in Tower : n \in Way(forward, l, m) /\ key[m] >= key[n] => n = m
<1>1. forward \in Pointers /\ key \in [Tower -> Int] /\ Ascending(forward, l, key)
  BY ListTypes, Orders
<1>2. n # c
  BY <1>1, Constants DEF Before
<1>3. ASSUME NEW m \in Tower, n \in Way(forward, l, m), key[m] >= key[n], n # m
      PROVE  FALSE
  <2>1. Lt(key, m, n)
    BY <1>1, <1>3, WayAscends, Constants
  <2>. QED
    BY <1>1, <1>3, <2>1, Constants DEF Lt
<1>. QED
  BY <1>1, <1>2, <1>3, WayFirst

\* No key is in the list twice.
LEMMA LiveOne ==
  ASSUME TypeOK, LinkInv, LinkedInv, NEW m \in Tower, NEW n \in Tower,
         m \in Live, n \in Live, key[m] = key[n]
  PROVE  m = n
<1>1. forward \in Pointers /\ key \in [Tower -> Int] /\ Ascending(forward, 0, key)
  BY ListTypes, Orders, Constants
<1>2. m \in Way(forward, 0, Header) /\ n \in Way(forward, 0, Header)
  BY Constants DEF LinkedInv, InList, Live
<1>3. key[m] \in Int /\ m # Header /\ n # Header /\ ~Lt(key, m, n)
  BY <1>1, Constants DEF Lt
<1>4. m \in Way(forward, 0, n)
  BY <1>1, <1>2, <1>3, WayOrdered, Constants DEF Lt
<1>5. m # n => Lt(key, n, m)
  BY <1>1, <1>4, WayAscends, Constants
<1>. QED
  BY <1>1, <1>3, <1>5, Constants DEF Lt

\* The map in the list.
LEMMA HeldBy ==
  ASSUME TypeOK, LinkInv, LinkedInv, NEW k
  PROVE  /\ Holding(k) = {n \in Tower : n \in Live /\ key[n] = k}
         /\ (\A n \in Tower : n \in Live => key[n] # k) => ValueOf(k) = Absent
         /\ \A n \in Tower : n \in Live /\ key[n] = k => ValueOf(k) = value[n]
<1>1. forward \in Pointers /\ key \in [Tower -> Int] /\ 0 \in Level /\ Ascending(forward, 0, key)
  BY ListTypes, Orders, Constants
<1>2. Chain(0) = Way(forward, 0, Header) \ {Header}
  BY <1>1, ChainWay
<1>3. \A n \in Tower : n \in Chain(0) => n \in Joined[0]
  BY <1>1, <1>2, WayJoined, Constants
<1>4. \A n \in Tower : n \in Live => n \in Chain(0)
  BY <1>1, <1>2, Constants DEF LinkedInv, InList, Live
<1>5. Holding(k) = {n \in Tower : n \in Live /\ key[n] = k}
  BY <1>3, <1>4 DEF Holding, Live
<1>6. ASSUME NEW n \in Tower, n \in Live, key[n] = k
      PROVE  ValueOf(k) = value[n]
  <2>1. n \in Holding(k) /\ \A m \in Holding(k) : m = n
    BY <1>5, <1>6, LiveOne
  <2>2. (CHOOSE m \in Holding(k) : TRUE) = n
    BY <2>1
  <2>. QED
    BY <2>1, <2>2 DEF ValueOf
<1>. QED
  BY <1>5, <1>6 DEF ValueOf

\* What was linked is allocated.
LEMMA JoinedNode ==
  ASSUME NEW l \in Level, NEW n \in Joined[l]
  PROVE  /\ n \in Node
         /\ n # Header => n \in Tower /\ n <= allocated /\ l <= level[n]
BY Constants DEF Joined

\* A tower is not linked yet on the levels that its thread comes to.
LEMMA NotJoined ==
  ASSUME NEW u \in Thread, Linking(th[u]), th[u].tower \in Tower, NEW l \in Level,
         LinkLevel(th[u]) <= l, LinkLevel(th[u]) \in Level
  PROVE  th[u].tower \notin Joined[l]
BY Constants DEF Joined, Level

\* The map of a state, from the towers that hold its keys.
Held == \A k \in Key :
  /\ (\A n \in Live : key[n] # k) => Map[k] = Absent
  /\ \A n \in Live : key[n] = k => Map[k] = value[n]

\* What the order and the links of a level give, in a state ...
LEMMA HeldNow == TypeOK /\ LinkInv /\ LinkedInv => Held
<1> SUFFICES ASSUME TypeOK, LinkInv, LinkedInv, NEW k \in Key
             PROVE  /\ (\A n \in Live : key[n] # k) => Map[k] = Absent
                    /\ \A n \in Live : key[n] = k => Map[k] = value[n]
  BY DEF Held
<1>1. Map[k] = ValueOf(k) /\ Live \subseteq Tower
  BY DEF Map, Live
<1>. QED
  BY <1>1, HeldBy

\* ... and in the next one.
LEMMA HeldNext == (TypeOK /\ LinkInv /\ LinkedInv)' => Held'
BY HeldNow, PTL
-----------------------------------------------------------------------------
(***************************************************************************)
(* What a step of thread t leaves to the others.                           *)
(***************************************************************************)
\* The same local state, but for the results that a search may see.
Near(s, r) ==
  /\ Alike(s, r) /\ s.out = r.out /\ s.val = r.val
  /\ r.results \subseteq s.results
  /\ r.op # "search" => s.results = r.results

Frame(t) ==
  /\ \A u \in Thread \ {t} : Near(th'[u], th[u])
  /\ \A n \in Tower : n <= allocated =>
       n <= allocated' /\ key'[n] = key[n] /\ level'[n] = level[n]
  /\ \A l \in Level : Joined[l] \subseteq Joined'[l]
  /\ \A n \in Tower, l \in Level :
       /\ forward[n][l].marked => forward'[n][l] = forward[n][l]
       /\ forward'[n][l].marked /\ ~forward[n][l].marked
            => n = th[t].tower /\ th[t].op = "remove"
       /\ forward'[n][l] # forward[n][l] =>
            n \in Joined[l] \/ (n = th[t].tower /\ Linking(th[t]))
  /\ \A l \in Level : \A c \in Joined[l], n \in Tower :
       n \in Way(forward, l, c) /\ n \in Way(forward', l, Header)
         => n \in Way(forward', l, c)
  /\ \A n \in Tower, l \in Level : n \in Way(forward', l, Header) =>
       InList(n, l) \/ (n = th[t].tower /\ Linking(th[t]))
  /\ \A n \in Live' : \/ n \in Live
                      \/ /\ n = th[t].tower /\ Linking(th[t])
                         /\ \A m \in Live : key[m] # key[n]

\* With keys kept apart, an insertion has its key for itself.
LEMMA Alone ==
  ASSUME Inv, ApartInv, NEW t \in Thread, NEW u \in Thread, t # u, th[t].op = "insert",
         th[u].key = th[t].key
  PROVE  th[u].op \notin {"insert", "remove"}
<1>1. ~Conflict(th[u], th[t])
  BY DEF Inv, ApartInv, Apart, WholeInv
<1>. QED
  BY <1>1 DEF Conflict

\* A tower that is being linked is nobody else's, and nobody else has its key.
LEMMA OwnTower ==
  ASSUME Inv, ApartInv, NEW t \in Thread, Linking(th[t]), NEW u \in Thread \ {t},
         th[u].op \in {"insert", "remove"}
  PROVE  key[th[t].tower] # th[u].key /\ th[u].tower # th[t].tower
<1>1. /\ th[t].tower # NULL /\ th[t].op = "insert"
      /\ \A v \in Thread : th[v].tower # NULL => key[th[v].tower] = th[v].key
  BY Met DEF Linking, LocalInv, CallInv
<1>. QED
  BY <1>1, Alone

\* A step of t keeps what the other threads know of where they are,
LEMMA OthersWhere ==
  ASSUME Inv, ApartInv, Shape, NEW t \in Thread, Frame(t), NEW u \in Thread \ {t}
  PROVE  CurInv(th[u])' /\ AheadInv(th[u])' /\ StoredInv(th[u])'
<1> DEFINE r == th[u]
           s == th'[u]
<1>1. /\ r \in ThreadState /\ Alike(s, r) /\ LocalInv(r, key, level)
      /\ CurInv(r) /\ AheadInv(r) /\ StoredInv(r)
  BY Met DEF Shape, Tracks, Tracking, Frame, Near
<1>2. /\ r.cur \in Node /\ r.next \in Pointer /\ r.lvl \in Level /\ r.key \in Int
      /\ r.tower \in Pointer
  BY <1>1, Fields
<1>3. /\ s.pc = r.pc /\ s.cur = r.cur /\ s.lvl = r.lvl /\ s.key = r.key /\ s.next = r.next
      /\ s.link = r.link /\ s.tower = r.tower /\ s.succs = r.succs
  BY <1>1 DEF Alike
<1>4. \A l \in Level : Joined[l] \subseteq Joined'[l]
  BY DEF Frame
<1>5. \A n \in Tower : n <= allocated => key'[n] = key[n]
  BY DEF Frame
<1>6. \A n \in Tower, l \in Level : forward[n][l].marked => forward'[n][l] = forward[n][l]
  BY DEF Frame
<1>7. CurInv(th[u])'
  <2> SUFFICES ASSUME r.pc \in Searching
               PROVE  r.cur \in Joined'[r.lvl] /\ (r.cur = Header \/ key'[r.cur] < r.key)
    BY <1>3 DEF CurInv, Before
  <2>1. r.cur \in Joined[r.lvl] /\ (r.cur = Header \/ key[r.cur] < r.key)
    BY <1>1 DEF CurInv, Before
  <2>2. r.cur = Header \/ (r.cur \in Tower /\ r.cur <= allocated)
    BY <1>2, <2>1, JoinedNode
  <2>. QED
    BY <1>2, <1>4, <1>5, <2>1, <2>2
<1>8. AheadInv(th[u])'
  <2> SUFFICES ASSUME r.pc \in {"Look", "Unlink"}
               PROVE  /\ r.next \in Joined'[r.lvl]
                      /\ r.cur = Header \/ key'[r.cur] < key'[r.next]
                      /\ r.pc = "Unlink" => forward'[r.next][r.lvl] = r.link /\ r.link.marked
    BY <1>3 DEF AheadInv, Lt
  <2>1. /\ r.next \in Joined[r.lvl] /\ r.next \in Tower
        /\ r.cur = Header \/ key[r.cur] < key[r.next]
        /\ r.pc = "Unlink" => forward[r.next][r.lvl] = r.link /\ r.link.marked
    BY <1>1, <1>2 DEF AheadInv, Lt, LocalInv, Pointer
  <2>2. r.next <= allocated /\ (r.cur = Header \/ (r.cur \in Tower /\ r.cur <= allocated))
    BY <1>1, <1>2, <2>1, JoinedNode, Constants DEF CurInv, Searching
  <2>3. r.pc = "Unlink" => forward'[r.next][r.lvl] = r.link /\ r.link.marked
    BY <1>2, <1>6, <2>1
  <2>. QED
    BY <1>2, <1>4, <1>5, <2>1, <2>2, <2>3
<1>9. StoredInv(th[u])'
  <2> SUFFICES ASSUME r.pc = "LinkCas"
               PROVE  forward'[r.tower][r.lvl] = Unmarked(r.succs[r.lvl])
    BY <1>3 DEF StoredInv, Unmarked
  <2>1. /\ r.tower \in Tower /\ r.op = "insert" /\ Linking(r) /\ LinkLevel(r) = r.lvl
        /\ forward[r.tower][r.lvl] = Unmarked(r.succs[r.lvl])
    BY <1>1, <1>2 DEF LocalInv, CallInv, Linking, LinkLevel, Searching, StoredInv, Pointer
  <2>2. r.tower \notin Joined[r.lvl]
    BY <1>2, <2>1, NotJoined DEF Level
  <2>3. ~(r.tower = th[t].tower /\ Linking(th[t]))
    BY <2>1, OwnTower
  <2>. QED
    BY <1>2, <2>1, <2>2, <2>3 DEF Frame
<1>. QED
  BY <1>7, <1>8, <1>9

\* of their tables,
LEMMA OthersTables ==
  ASSUME Inv, ApartInv, Shape, NEW t \in Thread, Frame(t), NEW u \in Thread \ {t}
  PROVE  TableInv(th[u])'
<1> DEFINE r == th[u]
           s == th'[u]
<1>1. /\ r \in ThreadState /\ Alike(s, r) /\ LocalInv(r, key, level) /\ TableInv(r)
  BY Met DEF Shape, Tracks, Tracking, Frame, Near
<1>2. /\ r.key \in Int
      /\ \A l \in Level : r.preds[l] \in Node /\ r.succs[l] \in Pointer
  BY <1>1, Fields
<1>3. /\ s.key = r.key /\ s.preds = r.preds /\ s.succs = r.succs /\ s.op = r.op
      /\ s.tower = r.tower /\ Linking(s) = Linking(r)
  BY <1>1 DEF Alike, Linking
<1> SUFFICES ASSUME NEW l \in Level
    PROVE  /\ r.preds[l] \in Joined'[l] /\ (r.preds[l] = Header \/ key'[r.preds[l]] < r.key)
           /\ r.succs[l] # NULL =>
                /\ r.succs[l] \in Joined'[l] /\ key'[r.succs[l]] >= r.key
                /\ Linking(r) => key'[r.succs[l]] # r.key
                /\ r.op = "insert" /\ r.tower = NULL /\ key'[r.succs[l]] = r.key
                     => ~forward'[r.succs[l]][l].marked
  BY <1>3 DEF TableInv, Before
<1>4. Joined[l] \subseteq Joined'[l]
  BY DEF Frame
<1>5. \A n \in Tower : n <= allocated => key'[n] = key[n]
  BY DEF Frame
<1>6. /\ r.preds[l] \in Joined[l] /\ (r.preds[l] = Header \/ key[r.preds[l]] < r.key)
      /\ r.succs[l] # NULL =>
           /\ r.succs[l] \in Joined[l] /\ key[r.succs[l]] >= r.key
           /\ Linking(r) => key[r.succs[l]] # r.key
           /\ r.op = "insert" /\ r.tower = NULL /\ key[r.succs[l]] = r.key
                => ~forward[r.succs[l]][l].marked
  BY <1>1 DEF TableInv, Before
<1>7. r.preds[l] = Header \/ (r.preds[l] \in Tower /\ r.preds[l] <= allocated)
  BY <1>2, <1>6, JoinedNode
<1>8. r.succs[l] # NULL => /\ r.succs[l] \in Tower /\ r.succs[l] <= allocated
                           /\ key'[r.succs[l]] = key[r.succs[l]]
  BY <1>2, <1>5, <1>6, JoinedNode, Constants DEF Pointer
<1>9. ASSUME r.succs[l] # NULL, r.op = "insert", key[r.succs[l]] = r.key,
             ~forward[r.succs[l]][l].marked, forward'[r.succs[l]][l].marked
      PROVE  FALSE
  <2>1. r.succs[l] = th[t].tower /\ th[t].op = "remove"
    BY <1>8, <1>9 DEF Frame
  <2>2. th[t].key = r.key
    BY <1>8, <1>9, <2>1, Met, Constants DEF LocalInv, CallInv
  <2>. QED
    BY <1>9, <2>1, <2>2, Alone
<1>. QED
  BY <1>4, <1>5, <1>6, <1>7, <1>8, <1>9

\* What a search has to come to in the new state, it had to come to before.
LEMMA OthersTargets ==
  ASSUME Inv, ApartInv, Shape, NEW t \in Thread, Frame(t), NEW u \in Thread \ {t},
         th[u].pc \in Searching \cup {"Place", "Retire"},
         NEW n \in Tower, NEW l \in Level, Target(th[u], n, l)'
  PROVE  Target(th[u], n, l)
<1> DEFINE r == th[u]
           s == th'[u]
<1>1. r \in ThreadState /\ Near(s, r) /\ LocalInv(r, key, level) /\ SeenInv(r)
  BY Met DEF Shape, Tracks, Tracking, Frame
<1>2. /\ s.pc = r.pc /\ s.op = r.op /\ s.key = r.key /\ s.tower = r.tower
      /\ Missed(r) => Missed(s)
      /\ Retiring(s) = Retiring(r)
  BY <1>1 DEF Near, Alike, Missed, Retiring
<1>3. r.op \in {"insert", "remove", "search"}
  BY <1>1 DEF SeenInv, ThreadState, Searching
<1>4. \A v \in Thread : th[v].tower <= allocated /\ th[v].tower \in Pointer
  BY Met, Fields DEF Inv, PrivateInv
<1>5. \A m \in Tower : m <= allocated => key'[m] = key[m]
  BY DEF Frame
<1>6. CASE /\ s.tower = NULL /\ ~Missed(s) /\ l = 0 /\ n \in Live' /\ key'[n] = s.key
  <2>1. CASE n \in Live
    <3>1. n <= allocated
      BY <2>1, JoinedNode, Constants DEF Live
    <3>. QED
      BY <1>2, <1>5, <1>6, <2>1, <3>1 DEF Target
  <2>2. CASE n = th[t].tower /\ Linking(th[t]) /\ \A m \in Live : key[m] # key[n]
    <3>1. key[n] = r.key
      BY <1>2, <1>4, <1>5, <1>6, <2>2
    <3>2. r.op = "search"
      BY <1>3, <2>2, <3>1, OwnTower
    <3>3. Map[r.key] = Absent /\ Map[r.key] \in r.results
      <4>1. r.key \in Key /\ Map[r.key] \in r.results
        BY <1>1, <3>2 DEF SeenInv, Searching
      <4>2. ValueOf(r.key) = Absent
        BY <2>2, <3>1, HeldBy DEF Shape, ListInv, Inv
      <4>. QED
        BY <4>1, <4>2 DEF Map
    <3>. QED
      BY <1>2, <1>6, <3>2, <3>3 DEF Missed
  <2>. QED
    BY <1>6, <2>1, <2>2 DEF Frame
<1>7. CASE Retiring(s) /\ n = s.tower /\ n \in Way(forward', l, Header)
  <2>1. r.op = "remove" /\ n = r.tower
    BY <1>2, <1>7 DEF Retiring
  <2>2. InList(n, l)
    <3>1. ~(n = th[t].tower /\ Linking(th[t]))
      BY <2>1, OwnTower
    <3>. QED
      BY <1>7, <3>1 DEF Frame
  <2>. QED
    BY <1>2, <1>7, <2>1, <2>2 DEF Target
<1>8. s = th[u]'
  OBVIOUS
<1> HIDE DEF s
<1>. QED
  BY <1>6, <1>7, <1>8 DEF Target, InList

\* A target is in the list.
LEMMA TargetIn ==
  ASSUME LinkedInv, NEW r, NEW n \in Tower, NEW l \in Level, Target(r, n, l)
  PROVE  n \in Way(forward, l, Header)
BY Constants DEF LinkedInv, Target, Live, InList

\* of the tower they must come to,
LEMMA OthersFind ==
  ASSUME Inv, ApartInv, Shape, NEW t \in Thread, Frame(t), NEW u \in Thread \ {t}, LinkedInv'
  PROVE  FindInv(th[u])'
<1> DEFINE r == th[u]
           s == th'[u]
<1>1. /\ r \in ThreadState /\ Alike(s, r) /\ LocalInv(r, key, level) /\ FindInv(r)
      /\ CurInv(r) /\ AheadInv(r)
  BY Met DEF Shape, Tracks, Tracking, Frame, Near
<1>2. /\ s.pc = r.pc /\ s.cur = r.cur /\ s.next = r.next /\ s.lvl = r.lvl /\ s.succs = r.succs
  BY <1>1 DEF Alike
<1>3. r.lvl \in Level /\ r.cur \in Node /\ TypeOK
  BY <1>1, Fields DEF Inv
<1> SUFFICES ASSUME NEW n \in Tower, NEW l \in Level, Target(th[u], n, l)',
                    r.pc \in Searching \cup {"Place", "Retire"}
    PROVE  /\ r.pc \in Searching =>
                /\ l <= r.lvl /\ n \in Way(forward', l, r.cur)
                /\ r.pc \in {"Look", "Unlink"} /\ r.lvl = l => n \in Way(forward', l, r.next)
           /\ r.pc = "Place" => n = r.succs[0]
           /\ r.pc # "Retire"
  BY <1>2 DEF FindInv, Leads
<1>4. Target(r, n, l)
  BY OthersTargets
<1>5. n \in Way(forward', l, Header)
  BY Constants DEF LinkedInv, Target, Live, InList
<1>6. /\ r.pc \in Searching =>
           /\ l <= r.lvl /\ n \in Way(forward, l, r.cur)
           /\ r.pc \in {"Look", "Unlink"} /\ r.lvl = l => n \in Way(forward, l, r.next)
      /\ r.pc = "Place" => n = r.succs[0]
      /\ r.pc # "Retire"
  BY <1>1, <1>4 DEF FindInv, Leads
<1>7. \A c \in Joined[l] : n \in Way(forward, l, c) => n \in Way(forward', l, c)
  BY <1>5 DEF Frame
<1>8. r.pc \in Searching => r.cur \in Joined[l]
  BY <1>1, <1>3, <1>6, JoinedDown DEF CurInv
<1>9. r.pc \in {"Look", "Unlink"} => r.next \in Joined[r.lvl]
  BY <1>1 DEF AheadInv
<1>. QED
  BY <1>6, <1>7, <1>8, <1>9

\* and of their own towers.
LEMMA OthersTower ==
  ASSUME Inv, ApartInv, Shape, NEW t \in Thread, Frame(t), NEW u \in Thread \ {t}
  PROVE  TowerInv(th[u])'
<1> DEFINE r == th[u]
           s == th'[u]
<1>1. /\ r \in ThreadState /\ Alike(s, r) /\ LocalInv(r, key, level) /\ TowerInv(r)
  BY Met DEF Shape, Tracks, Tracking, Frame, Near
<1>2. /\ s.pc = r.pc /\ s.tower = r.tower /\ s.key = r.key /\ s.lvl = r.lvl
  BY <1>1 DEF Alike
<1>3. /\ r.lvl \in Level /\ r.tower \in Pointer
      /\ \A v \in Thread : th[v].tower <= allocated /\ th[v].tower \in Pointer
  BY Met, Fields DEF Inv, PrivateInv
<1>4. \A m \in Tower : m <= allocated => key'[m] = key[m] /\ level'[m] = level[m]
  BY DEF Frame
<1>5. ASSUME r.tower # NULL, r.pc # "Return", NEW n \in Live', key'[n] = r.key
      PROVE  n = r.tower
  <2>1. r.op \in {"insert", "remove"} /\ n \in Tower
    BY <1>1, <1>5 DEF LocalInv, CallInv, Live
  <2>2. CASE n \in Live
    <3>1. n <= allocated
      BY <2>2, JoinedNode, Constants DEF Live
    <3>. QED
      BY <1>1, <1>4, <1>5, <2>1, <2>2, <3>1 DEF TowerInv
  <2>3. CASE n = th[t].tower /\ Linking(th[t])
    BY <1>3, <1>4, <1>5, <2>1, <2>3, OwnTower
  <2>. QED
    BY <2>2, <2>3 DEF Frame
<1>6. ASSUME r.pc \in {"MarkLoad", "MarkCas"}
      PROVE  /\ r.lvl <= level'[r.tower]
             /\ \A l \in Level : r.lvl < l /\ l <= level'[r.tower] => forward'[r.tower][l].marked
  <2>1. r.tower \in Tower /\ level'[r.tower] = level[r.tower]
    BY <1>1, <1>3, <1>4, <1>6 DEF LocalInv, CallInv, Pointer
  <2>2. /\ r.lvl <= level[r.tower]
        /\ \A l \in Level : r.lvl < l /\ l <= level[r.tower] => forward[r.tower][l].marked
    BY <1>1, <1>6 DEF TowerInv
  <2>. QED
    BY <2>1, <2>2 DEF Frame
<1>7. (\A n \in Tower : n \in Live' /\ key'[n] = r.key => n = r.tower) \/ r.tower = NULL \/ r.pc = "Return"
  BY <1>5
<1>8. r.op = "remove" /\ r.pc \in Searching => s.to = 0 /\ s.from = TopLevel
  BY <1>1 DEF TowerInv, Alike
<1>9. s.op = r.op
  BY <1>1 DEF Alike
<1>. QED
  BY <1>2, <1>6, <1>7, <1>8, <1>9 DEF TowerInv

\* What the others know stays true.
LEMMA OthersTrack ==
  ASSUME Inv, ApartInv, Shape, NEW t \in Thread, Frame(t), NEW u \in Thread \ {t},
         LinkedInv', SeenInv(th[u])', ValueInv(th[u])'
  PROVE  Tracks(th[u])'
<1>1. /\ CurInv(th[u])' /\ AheadInv(th[u])' /\ StoredInv(th[u])' /\ TableInv(th[u])'
      /\ FindInv(th[u])' /\ TowerInv(th[u])'
  BY OthersWhere, OthersTables, OthersFind, OthersTower
<1>. QED
  BY <1>1 DEF Tracks, Tracking
-----------------------------------------------------------------------------
(***************************************************************************)
(* What a step of thread t does to the list.                               *)
(***************************************************************************)
Others(t) == \A u \in Thread \ {t} : Near(th'[u], th[u])

\* Marks stay, and new ones are the work of a removal on its tower.
Marks(t) ==
  /\ \A l \in Level : ~forward'[Header][l].marked
  /\ \A n \in Tower, l \in Level :
       /\ forward[n][l].marked => forward'[n][l] = forward[n][l]
       /\ forward'[n][l].marked /\ ~forward[n][l].marked =>
            /\ n = th[t].tower /\ th[t].op = "remove" /\ n \in Joined[l]
            /\ \A j \in Level : l < j /\ j <= level[n] => forward[n][j].marked
            /\ IF l = 0 THEN Retiring(th'[t]) /\ th'[t].tower = n ELSE Marking(th'[t], n)
  /\ \A n \in Tower : Marking(th[t], n) => Marking(th'[t], n) \/ forward'[n][0].marked
  /\ retired \subseteq retired'
  /\ Retiring(th[t]) => \/ th[t].tower \in retired'
                        \/ Retiring(th'[t]) /\ th'[t].tower = th[t].tower

\* Only a removal marks, and only its own tower.
LEMMA MarksOnly ==
  ASSUME NEW t \in Thread, Marks(t)
  PROVE  \A n \in Tower, j \in Level :
           /\ forward[n][j].marked => forward'[n][j] = forward[n][j]
           /\ forward'[n][j].marked /\ ~forward[n][j].marked
                => n = th[t].tower /\ th[t].op = "remove"
BY DEF Marks

\* A step that only adds marks in this way keeps the order of marking.
LEMMA MarksKept ==
  ASSUME Inv, Shape, NEW t \in Thread, Others(t), Marks(t),
         \A n \in Tower : n <= allocated => level'[n] = level[n],
         \A l \in Level : Joined[l] \subseteq Joined'[l]
  PROVE  HeaderInv' /\ MarkInv' /\ HandInv'
<1> USE Constants
<1>1. MarkInv /\ HandInv
  BY DEF Shape, ListInv
<1>2. \A u \in Thread \ {t} : /\ th'[u].pc = th[u].pc /\ th'[u].op = th[u].op
                              /\ th'[u].tower = th[u].tower
  BY DEF Others, Near, Alike
<1>3. MarkInv'
  <2> SUFFICES ASSUME NEW n \in Tower, NEW l \in Level, forward'[n][l].marked
      PROVE  /\ n \in Joined'[l]
             /\ \A j \in Level : l <= j /\ j <= level'[n] => forward'[n][j].marked
             /\ forward'[n][0].marked \/ \E u \in Thread : Marking(th'[u], n)
    BY DEF MarkInv
  <2>1. CASE forward[n][l].marked
    <3>1. /\ n \in Joined[l]
          /\ \A j \in Level : l <= j /\ j <= level[n] => forward[n][j].marked
          /\ forward[n][0].marked \/ \E u \in Thread : Marking(th[u], n)
      BY <1>1, <2>1 DEF MarkInv
    <3>2. level'[n] = level[n]
      BY <3>1, JoinedNode
    <3>3. forward[n][0].marked => forward'[n][0].marked
      BY DEF Marks
    <3>4. ASSUME NEW u \in Thread, Marking(th[u], n)
          PROVE  forward'[n][0].marked \/ Marking(th'[u], n)
      BY <1>2, <3>4 DEF Marks, Marking
    <3>. QED
      BY <3>1, <3>2, <3>3, <3>4 DEF Marks
  <2>2. CASE ~forward[n][l].marked
    <3>1. /\ n \in Joined[l]
          /\ \A j \in Level : l < j /\ j <= level[n] => forward[n][j].marked
          /\ l # 0 => Marking(th'[t], n)
      BY <2>2 DEF Marks
    <3>2. level'[n] = level[n]
      BY <3>1, JoinedNode
    <3>3. \A j \in Level : l <= j /\ j <= level[n] => forward'[n][j].marked
      <4> SUFFICES ASSUME NEW j \in Level, l <= j, j <= level[n], j # l
                   PROVE  forward'[n][j].marked
        OBVIOUS
      <4>1. l < j
        BY DEF Level
      <4>. QED
        BY <3>1, <4>1 DEF Marks
    <3>. QED
      BY <3>1, <3>2, <3>3
  <2>. QED
    BY <2>1, <2>2
<1>4. HandInv'
  <2> SUFFICES ASSUME NEW n \in Tower, forward'[n][0].marked
      PROVE  n \in retired' \/ \E u \in Thread : Retiring(th'[u]) /\ th'[u].tower = n
    BY DEF HandInv
  <2>1. CASE forward[n][0].marked /\ n \in retired
    BY <2>1 DEF Marks
  <2>2. ASSUME NEW u \in Thread, Retiring(th[u]), th[u].tower = n
        PROVE  n \in retired' \/ \E v \in Thread : Retiring(th'[v]) /\ th'[v].tower = n
    <3>1. CASE u = t
      BY <2>2, <3>1 DEF Marks
    <3>2. CASE u # t
      BY <1>2, <2>2, <3>2 DEF Retiring
    <3>. QED
      BY <3>1, <3>2
  <2>3. CASE ~forward[n][0].marked
    BY <2>3 DEF Marks
  <2>. QED
    BY <1>1, <2>1, <2>2, <2>3 DEF HandInv
<1>. QED
  BY <1>3, <1>4 DEF Marks, HeaderInv

\* A write to one pointer leaves the others.
LEMMA Written ==
  ASSUME NEW f \in Pointers, NEW p \in Node, NEW l \in Level, NEW x \in Link,
         NEW g, g = [f EXCEPT ![p][l] = x]
  PROVE  /\ g \in Pointers /\ g[p][l] = x
         /\ \A n \in Node, j \in Level : n # p \/ j # l => g[n][j] = f[n][j]
BY DEF Pointers

\* A write to an unmarked pointer that leaves it unmarked.
LEMMA PlainMarks ==
  ASSUME Inv, Shape, NEW t \in Thread, NEW p \in Node, NEW l \in Level, NEW q \in Pointer,
         ~forward[p][l].marked, forward' = [forward EXCEPT ![p][l] = Unmarked(q)],
         UNCHANGED retired, \A n \in Tower : ~Marking(th[t], n),
         Retiring(th[t]) => Retiring(th'[t]) /\ th'[t].tower = th[t].tower
  PROVE  Marks(t)
<1> USE Constants
<1> DEFINE new == Unmarked(q)
<1>1. forward \in Pointers /\ new \in Link /\ ~new.marked
  BY ListTypes DEF Inv, Unmarked, Link
<1>2. forward' = [forward EXCEPT ![p][l] = new]
  OBVIOUS
<1> HIDE DEF new
<1>3. \A n \in Node, j \in Level :
        /\ forward'[n][j].marked => forward[n][j].marked
        /\ forward[n][j].marked => forward'[n][j] = forward[n][j]
  BY <1>1, <1>2, Written
<1>4. \A j \in Level : ~forward[Header][j].marked
  BY DEF Shape, ListInv, HeaderInv
<1>. QED
  BY <1>3, <1>4 DEF Marks

\* A way depends on the pointers of its level only.
LEMMA WaysSame ==
  ASSUME NEW f \in Pointers, NEW g \in Pointers, NEW l \in Level,
         \A a \in Node : g[a][l].to = f[a][l].to, NEW c \in Node
  PROVE  Way(g, l, c) = Way(f, l, c)
<1>1. \A a \in Way(f, l, c) : g[a][l].to = f[a][l].to
  BY WayClosed
<1>. QED
  BY <1>1, WaySame

\* No pointer changes where it leads to.
LEMMA SameLinks ==
  ASSUME Inv, Shape, NEW t \in Thread, Others(t), Marks(t),
         UNCHANGED <<key, level, allocated>>, forward' \in Pointers,
         \A l \in Level : Joined'[l] = Joined[l],
         \A n \in Node, l \in Level : forward'[n][l].to = forward[n][l].to,
         \A n \in Tower, l \in Level : forward'[n][l] # forward[n][l] => n \in Joined[l],
         \A n \in retired', l \in Level : ~InList(n, l)
  PROVE  Frame(t) /\ ListInv'
<1> USE Constants
<1>1. forward \in Pointers /\ ListInv
  BY ListTypes DEF Inv, Shape
<1>2. \A l \in Level, c \in Node : Way(forward', l, c) = Way(forward, l, c)
  BY <1>1, WaysSame
<1>3. HeaderInv' /\ MarkInv' /\ HandInv'
  BY MarksKept
<1>4. LinkInv'
  BY <1>1 DEF LinkInv, ListInv
<1>5. \A n \in Node, l \in Level : forward[n][l].marked => forward'[n][l].marked
  BY <1>1 DEF Marks, ListInv, HeaderInv, Node
<1>6. LinkedInv'
  <2> SUFFICES ASSUME NEW n \in Node, NEW l \in Level, n \in Joined'[l], ~forward'[n][l].marked
               PROVE  n \in Way(forward', l, Header)
    BY DEF LinkedInv, InList
  <2>1. n \in Way(forward, l, Header)
    BY <1>1, <1>5 DEF LinkedInv, ListInv, InList
  <2>. QED
    BY <1>2, <2>1
<1>7. GoneInv'
  BY <1>2 DEF GoneInv, InList
<1>8. Live' \subseteq Live
  BY <1>5 DEF Live
<1>9. Frame(t)
  <2>1. \A l \in Level : \A c \in Joined[l], n \in Tower :
          n \in Way(forward, l, c) /\ n \in Way(forward', l, Header) => n \in Way(forward', l, c)
    BY <1>2, JoinedNode
  <2>2. \A n \in Tower, l \in Level : n \in Way(forward', l, Header) => InList(n, l)
    BY <1>2 DEF InList
  <2>. QED
    BY <1>8, <2>1, <2>2 DEF Frame, Others, Marks
<1>. QED
  BY <1>3, <1>4, <1>6, <1>7, <1>9 DEF ListInv

\* The marked tower x is taken out of level l between p and what x leads to.
LEMMA UnlinkLinks ==
  ASSUME Inv, Shape, NEW t \in Thread, Others(t), Marks(t),
         UNCHANGED <<key, level, allocated, retired>>,
         \A j \in Level : Joined'[j] = Joined[j],
         NEW l \in Level, NEW p \in Joined[l], NEW x \in Tower, x \in Joined[l],
         forward[p][l] = Unmarked(x), forward[x][l].marked,
         forward' = [forward EXCEPT ![p][l] = Unmarked(forward[x][l].to)]
  PROVE  Frame(t) /\ ListInv'
<1> USE Constants
<1> DEFINE y == forward[x][l].to
           new == Unmarked(y)
<1>1. /\ forward \in Pointers /\ ListInv /\ key \in [Tower -> Int] /\ TypeOK
      /\ \A j \in Level : Ascending(forward, j, key)
  BY ListTypes, Orders DEF Inv, Shape, ListInv
<1>2. /\ p \in Node /\ x \in Node /\ y \in Pointer
      /\ forward[p][l].to = x /\ ~forward[p][l].marked
      /\ new \in Link /\ new.to = y /\ ~new.marked
  BY <1>1, JoinedNode, PointerType DEF Unmarked, Link
<1>3. x # NULL /\ Lt(key, p, x) /\ p <= allocated
  BY <1>1, <1>2 DEF LinkInv, ListInv
<1>4. p # x
  BY <1>1, <1>3 DEF Lt
<1>16. forward' = [forward EXCEPT ![p][l] = new] /\ l \in Level
  OBVIOUS
<1> HIDE DEF new
<1>5. /\ forward' \in Pointers /\ forward'[p][l] = new
      /\ \A n \in Node, j \in Level : n # p \/ j # l => forward'[n][j] = forward[n][j]
  <2>1. forward \in Pointers /\ p \in Node /\ new \in Link
    BY <1>1, <1>2
  <2>2. forward' \in Pointers
    BY ONLY <1>16, <2>1, Written
  <2>3. forward'[p][l] = new
    BY ONLY <1>16, <2>1 DEF Pointers
  <2>4. \A n \in Node, j \in Level : n # p \/ j # l => forward'[n][j] = forward[n][j]
    BY ONLY <1>16, <2>1, Written
  <2>. QED
    BY ONLY <2>2, <2>3, <2>4
<1>6. \A j \in Level \ {l}, c \in Node : Way(forward', j, c) = Way(forward, j, c)
  <2> SUFFICES ASSUME NEW j \in Level \ {l}, NEW c \in Node
               PROVE  Way(forward', j, c) = Way(forward, j, c)
    OBVIOUS
  <2>1. \A a \in Node : forward'[a][j].to = forward[a][j].to
    BY <1>5
  <2>. QED
    BY ONLY <1>1, <1>5, <2>1, WaysSame
<1>7. \A c \in Node : /\ Way(forward', l, c) \subseteq Way(forward, l, c)
                      /\ \A m \in Way(forward, l, c) : m # x => m \in Way(forward', l, c)
  <2>1. forward'[p][l].to = forward[x][l].to
        /\ \A a \in Node : a # p => forward'[a][l].to = forward[a][l].to
    BY <1>2, <1>5
  <2>2. forward \in Pointers /\ forward' \in Pointers /\ x \in Node /\ p \in Node /\ p # x
    BY <1>1, <1>2, <1>4, <1>5
  <2>3. forward[p][l].to = x
    BY <1>2
  <2> HIDE DEF y
  <2>. QED
    BY ONLY <2>1, <2>2, <2>3, WayWithout
<1>8. y # NULL => y \in Tower /\ y \in Joined[l] /\ Lt(key, x, y) /\ Lt(key, p, y)
  <2> SUFFICES ASSUME y # NULL
               PROVE  y \in Tower /\ y \in Joined[l] /\ Lt(key, x, y) /\ Lt(key, p, y)
    OBVIOUS
  <2>1. y \in Tower /\ y \in Joined[l] /\ Lt(key, x, y)
    BY <1>1, <1>2 DEF LinkInv, ListInv, Pointer
  <2>. QED
    BY <1>1, <1>2, <1>3, <2>1 DEF Lt, Node
<1>9. x \notin Way(forward', l, Header)
  <2> DEFINE F == Way(forward, l, Header)
             S == F \ {x}
  <2>1. Header \in F /\ Closed(F, forward, l) /\ F \subseteq Node
    BY <1>1, WayClosed
  <2>2. p \in F
    BY <1>1, <1>2 DEF LinkedInv, ListInv, InList
  <2>3. x \in F
    BY <1>2, <1>3, <2>1, <2>2 DEF Closed
  <2>4. ASSUME NEW a \in S, forward'[a][l].to # NULL
        PROVE  forward'[a][l].to \in S
    <3>1. CASE a = p
      <4>1. y # NULL /\ y \in F
        BY <1>2, <1>5, <2>1, <2>3, <2>4, <3>1 DEF Closed
      <4>2. y # x
        BY <1>1, <1>8, <4>1 DEF Lt
      <4>. QED
        BY <1>2, <1>5, <3>1, <4>1, <4>2
    <3>2. CASE a # p
      <4>1. a \in F /\ forward'[a][l].to = forward[a][l].to /\ forward[a][l].to \in F
        BY <1>5, <2>1, <2>4, <3>2 DEF Closed
      <4>2. forward[a][l].to # x
        BY <1>1, <1>2, <1>3, <2>2, <3>2, <4>1, WayInto
      <4>. QED
        BY <4>1, <4>2
    <3>. QED
      BY <3>1, <3>2
  <2>5. Closed(S, forward', l)
    BY <2>4 DEF Closed
  <2>6. S \in SUBSET Node /\ Header \in S
    BY <2>1
  <2> HIDE DEF S
  <2>7. Way(forward', l, Header) \subseteq S
    BY <2>5, <2>6, WayIn
  <2>. QED
    BY <2>7 DEF S
<1>10. HeaderInv' /\ MarkInv' /\ HandInv'
  BY MarksKept
<1>11. LinkInv'
  <2> SUFFICES ASSUME NEW n \in Node, NEW j \in Level, forward'[n][j].to # NULL
               PROVE  /\ forward'[n][j].to \in Joined[j]
                      /\ Lt(key, n, forward'[n][j].to) /\ n <= allocated
    BY DEF LinkInv
  <2>1. CASE n # p \/ j # l
    BY <1>1, <1>5, <2>1 DEF LinkInv, ListInv
  <2>2. CASE n = p /\ j = l
    BY <1>2, <1>3, <1>5, <1>8, <2>2
  <2>. QED
    BY <2>1, <2>2
<1>12. LinkedInv'
  <2> SUFFICES ASSUME NEW n \in Node, NEW j \in Level, n \in Joined[j], ~forward'[n][j].marked
               PROVE  n \in Way(forward', j, Header)
    BY DEF LinkedInv, InList
  <2>0. ~forward[n][j].marked
    BY <1>2, <1>5
  <2>1. n \in Way(forward, j, Header)
    BY <1>1, <2>0 DEF LinkedInv, ListInv, InList
  <2>2. j = l => n # x
    BY <2>0
  <2>. QED
    BY <1>6, <1>7, <2>1, <2>2
<1>13. \A n \in Tower, j \in Level : n \in Way(forward', j, Header) => InList(n, j)
  BY <1>6, <1>7 DEF InList
<1>14. GoneInv'
  <2>1. \A n \in retired : n \in Tower
    BY <1>1 DEF TypeOK
  <2>. QED
    BY <1>1, <1>13, <2>1 DEF GoneInv, ListInv, InList
<1>15. Frame(t)
  <2>1. \A j \in Level : \A c \in Joined[j], n \in Tower :
          n \in Way(forward, j, c) /\ n \in Way(forward', j, Header) => n \in Way(forward', j, c)
    BY <1>6, <1>7, <1>9, JoinedNode
  <2>2. Live' \subseteq Live
    BY <1>2, <1>5 DEF Live
  <2>3. \A n \in Tower, j \in Level : forward'[n][j] # forward[n][j] => n \in Joined[j]
    BY <1>5
  <2>4. \A n \in Tower, j \in Level :
          /\ forward[n][j].marked => forward'[n][j] = forward[n][j]
          /\ forward'[n][j].marked /\ ~forward[n][j].marked
               => n = th[t].tower /\ th[t].op = "remove"
    BY ONLY Marks(t) DEF Marks
  <2>5. /\ \A u \in Thread \ {t} : Near(th'[u], th[u])
        /\ \A n \in Tower : n <= allocated =>
             n <= allocated' /\ key'[n] = key[n] /\ level'[n] = level[n]
        /\ \A j \in Level : Joined[j] \subseteq Joined'[j]
    BY DEF Others
  <2>. QED
    BY ONLY <1>13, <2>1, <2>2, <2>3, <2>4, <2>5 DEF Frame
<1>. QED
  BY <1>10, <1>11, <1>12, <1>14, <1>15 DEF ListInv

\* The pointer of p on level l leads to q, unmarked, and no other is written.
Rewires(p, l, q) ==
  /\ forward' \in Pointers /\ forward'[p][l] = Unmarked(q)
  /\ forward'[p][l].to = q /\ ~forward'[p][l].marked
  /\ \A n \in Node, j \in Level : n # p \/ j # l => forward'[n][j] = forward[n][j]

\* What a write of an unmarked pointer does.
LEMMA Rewired ==
  ASSUME TypeOK, NEW p \in Node, NEW l \in Level, NEW q \in Pointer,
         forward' = [forward EXCEPT ![p][l] = Unmarked(q)]
  PROVE  Rewires(p, l, q)
<1> DEFINE new == Unmarked(q)
<1>1. forward \in Pointers /\ new \in Link /\ new.to = q /\ ~new.marked
  BY ListTypes DEF Unmarked, Link
<1>2. forward' = [forward EXCEPT ![p][l] = new] /\ Unmarked(q) = new
  OBVIOUS
<1> HIDE DEF new
<1>3. forward' \in Pointers
  BY ONLY <1>1, <1>2, p \in Node, l \in Level, Written
<1>4. forward'[p][l] = new
  BY ONLY <1>1, <1>2, p \in Node, l \in Level DEF Pointers
<1>5. \A n \in Node, j \in Level : n # p \/ j # l => forward'[n][j] = forward[n][j]
  BY ONLY <1>1, <1>2, p \in Node, l \in Level, Written
<1>. QED
  BY ONLY <1>1, <1>2, <1>3, <1>4, <1>5 DEF Rewires

\* On the other levels, every way stays as it is.
LEMMA OtherWays ==
  ASSUME forward \in Pointers, NEW p \in Node, NEW l \in Level, NEW q, Rewires(p, l, q),
         NEW j \in Level, j # l, NEW c \in Node
  PROVE  Way(forward', j, c) = Way(forward, j, c)
<1>1. \A a \in Node : forward'[a][j].to = forward[a][j].to
  BY DEF Rewires
<1>. QED
  BY <1>1, WaysSame DEF Rewires

\* A tower that is not linked yet on level l is given its successor there.
LEMMA StoreLinks ==
  ASSUME Inv, Shape, NEW t \in Thread, Others(t), Marks(t),
         UNCHANGED <<key, level, allocated, retired>>,
         \A j \in Level : Joined'[j] = Joined[j],
         Linking(th[t]), NEW x \in Tower, x = th[t].tower, NEW l \in Level, x \notin Joined[l],
         NEW q \in Pointer, q # NULL => q \in Joined[l] /\ key[x] < key[q],
         Rewires(x, l, q)
  PROVE  Frame(t) /\ ListInv'
<1> USE Constants
<1>1. /\ forward \in Pointers /\ ListInv /\ TypeOK /\ x \in Node /\ x <= allocated
  BY ListTypes DEF Inv, Shape, PrivateInv
<1>2. /\ forward' \in Pointers /\ forward'[x][l].to = q /\ ~forward'[x][l].marked
      /\ \A n \in Node, j \in Level : n # x \/ j # l => forward'[n][j] = forward[n][j]
  BY DEF Rewires
<1>3. \A c \in Node \ {x} : x \notin Way(forward, l, c)
  BY <1>1, WayJoined DEF ListInv
<1>4. \A c \in Node \ {x} : Way(forward', l, c) = Way(forward, l, c)
  <2> SUFFICES ASSUME NEW c \in Node \ {x}
               PROVE  Way(forward', l, c) = Way(forward, l, c)
    OBVIOUS
  <2>1. Way(forward, l, c) \subseteq Node
    BY <1>1, WayClosed
  <2>2. \A a \in Way(forward, l, c) : forward'[a][l].to = forward[a][l].to
    BY <1>2, <1>3, <2>1
  <2>. QED
    BY <1>1, <1>2, <2>2, WaySame
<1>5. \A j \in Level, c \in Node : c # x \/ j # l => Way(forward', j, c) = Way(forward, j, c)
  BY <1>1, <1>4, OtherWays
<1>6. HeaderInv' /\ MarkInv' /\ HandInv'
  BY MarksKept
<1>7. LinkInv'
  <2> SUFFICES ASSUME NEW n \in Node, NEW j \in Level, forward'[n][j].to # NULL
               PROVE  /\ forward'[n][j].to \in Joined[j]
                      /\ Lt(key, n, forward'[n][j].to) /\ n <= allocated
    BY DEF LinkInv
  <2>1. CASE n # x \/ j # l
    BY <1>1, <1>2, <2>1 DEF LinkInv, ListInv
  <2>2. CASE n = x /\ j = l
    BY <1>1, <1>2, <2>2 DEF Lt
  <2>. QED
    BY <2>1, <2>2
<1>8. LinkedInv'
  <2> SUFFICES ASSUME NEW n \in Node, NEW j \in Level, n \in Joined[j], ~forward'[n][j].marked
               PROVE  n \in Way(forward', j, Header)
    BY DEF LinkedInv, InList
  <2>1. ~forward[n][j].marked
    BY <1>2
  <2>2. n \in Way(forward, j, Header)
    BY <1>1, <2>1 DEF LinkedInv, ListInv, InList
  <2>. QED
    BY <1>5, <2>2
<1>9. \A j \in Level : \A n : n \in Way(forward', j, Header) => InList(n, j)
  BY <1>5 DEF InList
<1>10. GoneInv'
  BY <1>1, <1>9 DEF GoneInv, ListInv, InList
<1>11. Frame(t)
  <2>1. \A j \in Level : \A c \in Joined[j], n \in Tower :
          n \in Way(forward, j, c) /\ n \in Way(forward', j, Header) => n \in Way(forward', j, c)
    BY <1>5, JoinedNode
  <2>2. Live' \subseteq Live
    <3> SUFFICES ASSUME NEW n \in Tower, n \in Joined[0], ~forward'[n][0].marked
                 PROVE  ~forward[n][0].marked
      BY DEF Live
    <3>. QED
      BY <1>2
  <2>3. \A n \in Tower, j \in Level : forward'[n][j] # forward[n][j] =>
          n = th[t].tower /\ Linking(th[t])
    BY <1>2
  <2>4. \A n \in Tower, j \in Level :
          /\ forward[n][j].marked => forward'[n][j] = forward[n][j]
          /\ forward'[n][j].marked /\ ~forward[n][j].marked
               => n = th[t].tower /\ th[t].op = "remove"
    BY ONLY Marks(t) DEF Marks
  <2>. QED
    BY <1>9, <2>1, <2>2, <2>3, <2>4 DEF Frame, Others
<1>. QED
  BY <1>6, <1>7, <1>8, <1>10, <1>11 DEF ListInv

\* A tower is linked on level l between p and what p led to.
LEMMA CasLinks ==
  ASSUME Inv, Shape, NEW t \in Thread, Others(t), Marks(t),
         UNCHANGED <<key, level, allocated, retired>>,
         Linking(th[t]), NEW x \in Tower, x = th[t].tower, NEW l \in Level,
         \A j \in Level : Joined'[j] = Joined[j] \cup (IF j = l THEN {x} ELSE {}),
         NEW p \in Node, p \in Joined[l], ~forward[p][l].marked, Lt(key, p, x), p <= allocated,
         forward[x][l].to = forward[p][l].to, Rewires(p, l, x),
         x \notin retired, l = 0 => \A m \in Live : key[m] # key[x]
  PROVE  Frame(t) /\ ListInv'
<1> USE Constants
<1>1. /\ forward \in Pointers /\ ListInv /\ TypeOK /\ x \in Node /\ x # NULL
  BY ListTypes DEF Inv, Shape
<1>2. /\ forward' \in Pointers /\ forward'[p][l].to = x /\ ~forward'[p][l].marked
      /\ \A n \in Node, j \in Level : n # p \/ j # l => forward'[n][j] = forward[n][j]
  BY DEF Rewires
<1>3. p # x
  BY <1>1 DEF Lt, TypeOK
<1>4. \A c \in Node : /\ Way(forward, l, c) \subseteq Way(forward', l, c)
                      /\ Way(forward', l, c) \subseteq Way(forward, l, c) \cup {x}
  <2>1. \A a \in Node : a # p => forward'[a][l].to = forward[a][l].to
    BY <1>2
  <2>2. /\ forward \in Pointers /\ forward' \in Pointers
        /\ forward[x][l].to = forward[p][l].to /\ forward'[p][l].to = x
    BY <1>1, <1>2
  <2>. QED
    BY ONLY <1>1, <1>3, <2>1, <2>2, p \in Node, l \in Level, WayWith
<1>5. \A j \in Level, c \in Node : j # l => Way(forward', j, c) = Way(forward, j, c)
  BY <1>1, OtherWays
<1>6. HeaderInv' /\ MarkInv' /\ HandInv'
  BY MarksKept
<1>7. LinkInv'
  <2> SUFFICES ASSUME NEW n \in Node, NEW j \in Level, forward'[n][j].to # NULL
               PROVE  /\ forward'[n][j].to \in Joined'[j]
                      /\ Lt(key, n, forward'[n][j].to) /\ n <= allocated
    BY DEF LinkInv
  <2>1. CASE n # p \/ j # l
    BY <1>1, <1>2, <2>1 DEF LinkInv, ListInv
  <2>2. CASE n = p /\ j = l
    BY <1>2, <2>2
  <2>. QED
    BY <2>1, <2>2
<1>8. x \in Way(forward', l, Header)
  <2>1. p \in Way(forward, l, Header)
    BY <1>1 DEF LinkedInv, ListInv, InList
  <2>2. p \in Way(forward', l, Header) /\ Closed(Way(forward', l, Header), forward', l)
    BY <1>2, <1>4, <2>1, WayClosed
  <2>3. forward'[p][l].to \in Way(forward', l, Header) \cup {NULL}
    BY ONLY <2>2 DEF Closed
  <2>. QED
    BY <1>1, <1>2, <2>3
<1>9. LinkedInv'
  <2> SUFFICES ASSUME NEW n \in Node, NEW j \in Level, n \in Joined'[j], ~forward'[n][j].marked
               PROVE  n \in Way(forward', j, Header)
    BY DEF LinkedInv, InList
  <2>1. CASE n = x /\ j = l
    BY <1>8, <2>1
  <2>2. CASE n # x \/ j # l
    <3>1. ~forward[n][j].marked
      BY <1>2
    <3>2. n \in Joined[j]
      <4>1. Joined'[j] = Joined[j] \cup (IF j = l THEN {x} ELSE {})
        OBVIOUS
      <4>. QED
        BY ONLY <2>2, <4>1, n \in Joined'[j]
    <3>3. n \in Way(forward, j, Header)
      BY <1>1, <3>1, <3>2 DEF LinkedInv, ListInv, InList
    <3>. QED
      BY <1>4, <1>5, <3>3
  <2>. QED
    BY <2>1, <2>2
<1>10. \A j \in Level : \A n : n \in Way(forward', j, Header) => InList(n, j) \/ n = x
  BY <1>4, <1>5 DEF InList
<1>11. GoneInv'
  BY <1>1, <1>10 DEF GoneInv, ListInv, InList
<1>12. Frame(t)
  <2>1. \A j \in Level : \A c \in Joined[j], n \in Tower :
          n \in Way(forward, j, c) => n \in Way(forward', j, c)
    BY <1>4, <1>5, JoinedNode
  <2>2. ASSUME NEW n \in Live', n \notin Live
        PROVE  n = x /\ \A m \in Live : key[m] # key[n]
    <3>1. n \in Tower /\ n \in Joined'[0] /\ ~forward'[n][0].marked
      BY <2>2 DEF Live
    <3>2. ~forward[n][0].marked
      BY <1>2, <3>1
    <3>3. n \notin Joined[0]
      BY <2>2, <3>1, <3>2 DEF Live
    <3>4. n = x /\ l = 0
      BY <3>1, <3>3
    <3>. QED
      BY <3>4
  <2>3. \A n \in Tower, j \in Level : forward'[n][j] # forward[n][j] => n \in Joined[j]
    BY <1>2
  <2>4. \A n \in Tower, j \in Level :
          /\ forward[n][j].marked => forward'[n][j] = forward[n][j]
          /\ forward'[n][j].marked /\ ~forward[n][j].marked
               => n = th[t].tower /\ th[t].op = "remove"
    BY ONLY Marks(t) DEF Marks
  <2>5. \A j \in Level : Joined[j] \subseteq Joined'[j]
    OBVIOUS
  <2>. QED
    BY <1>10, <2>1, <2>2, <2>3, <2>4, <2>5 DEF Frame, Others
<1>. QED
  BY <1>6, <1>7, <1>9, <1>11, <1>12 DEF ListInv

\* A tower is allocated.
LEMMA TowerLinks ==
  ASSUME Inv, Shape, NEW t \in Thread, Others(t), Marks(t), UNCHANGED <<forward, retired>>,
         \A j \in Level : Joined'[j] = Joined[j],
         TypeOK',
         \A n \in Tower : n <= allocated =>
           n <= allocated' /\ key'[n] = key[n] /\ level'[n] = level[n]
  PROVE  Frame(t) /\ ListInv'
<1> USE Constants
<1>1. /\ forward \in Pointers /\ ListInv /\ TypeOK
  BY ListTypes DEF Inv, Shape
<1>2. HeaderInv' /\ MarkInv' /\ HandInv'
  BY MarksKept
<1>3. LinkInv'
  <2> SUFFICES ASSUME NEW n \in Node, NEW j \in Level, forward[n][j].to # NULL
               PROVE  /\ forward[n][j].to \in Joined[j]
                      /\ Lt(key', n, forward[n][j].to) /\ n <= allocated'
    BY DEF LinkInv
  <2>1. forward[n][j].to \in Joined[j] /\ Lt(key, n, forward[n][j].to) /\ n <= allocated
    BY <1>1 DEF LinkInv, ListInv
  <2>2. forward[n][j].to \in Tower /\ forward[n][j].to <= allocated
    BY <1>1, <2>1, PointerType, JoinedNode
  <2>3. n \in Tower => key'[n] = key[n] /\ n <= allocated'
    BY <2>1
  <2>4. Header <= allocated'
    BY DEF Header, TypeOK
  <2>. QED
    BY <2>1, <2>2, <2>3, <2>4 DEF Lt, Node, Header
<1>4. LinkedInv'
  BY <1>1 DEF ListInv, LinkedInv, InList
<1>5. GoneInv'
  BY <1>1 DEF ListInv, GoneInv, InList
<1>6. Live' = Live
  BY DEF Live
<1>7. Frame(t)
  BY <1>6 DEF Frame, Others, InList
<1>. QED
  BY <1>2, <1>3, <1>4, <1>5, <1>7 DEF ListInv
-----------------------------------------------------------------------------
(***************************************************************************)
(* What a step does to the local states and to the map.                    *)
(***************************************************************************)
\* Thread t goes to the local state s.
Goes(t, s) == Become(t, s) \/ TakeEffect(t, s)

\* What Become and TakeEffect do to the local states.
LEMMA NearStep ==
  ASSUME TypeOK, NEW t \in Thread, NEW s \in ThreadState, Goes(t, s)
  PROVE  /\ Others(t) /\ Alike(th'[t], s) /\ th'[t].val = s.val /\ th'[t].out = s.out
         /\ Become(t, s) => th'[t] = s
         /\ TakeEffect(t, s) => th'[t].results = {Success}
         /\ \A u \in Thread \ {t} : TakeEffect(t, s) /\ th[u].op = "search" /\ th[u].key = s.key
              => s.val \in th'[u].results
<1>0. th = [u \in Thread |-> th[u]] /\ \A u \in Thread : th[u] \in ThreadState
  BY DEF TypeOK
<1>1. /\ Alike(th'[t], s)
      /\ \A u \in Thread \ {t} : Alike(th'[u], th[u])
  BY BecomeStep, TakeEffectStep DEF Goes
<1>2. CASE Become(t, s)
  <2>1. th'[t] = s /\ \A u \in Thread \ {t} : th'[u] = th[u]
    BY <1>0, <1>2 DEF Become
  <2>2. Others(t)
    BY <1>1, <2>1 DEF Others, Near
  <2>3. TakeEffect(t, s) => th'[t].results = {Success}
    BY DEF TakeEffect, ThreadState
  <2>4. ASSUME NEW u \in Thread \ {t}, TakeEffect(t, s), th[u].op = "search", th[u].key = s.key
        PROVE  s.val \in th'[u].results
    BY <1>0, <2>4 DEF TakeEffect, ThreadState
  <2>. QED
    BY <1>1, <2>1, <2>2, <2>3, <2>4
<1>3. CASE TakeEffect(t, s)
  <2>1. /\ th'[t] = [s EXCEPT !.results = {Success}]
        /\ \A u \in Thread \ {t} : th'[u] =
             IF th[u].op = "search" /\ th[u].key = s.key
             THEN [th[u] EXCEPT !.results = @ \cup {s.val}] ELSE th[u]
    BY <1>3 DEF TakeEffect
  <2>2. th'[t].val = s.val /\ th'[t].out = s.out /\ th'[t].results = {Success}
    BY <2>1 DEF ThreadState
  <2>3. ASSUME NEW u \in Thread \ {t}
        PROVE  /\ Near(th'[u], th[u])
               /\ th[u].op = "search" /\ th[u].key = s.key => s.val \in th'[u].results
    <3>1. CASE th[u].op = "search" /\ th[u].key = s.key
      <4> DEFINE R == th[u].results \cup {s.val}
      <4>1. th'[u] = [th[u] EXCEPT !.results = R]
        BY <2>1, <3>1
      <4>2. th'[u].out = th[u].out /\ th'[u].val = th[u].val /\ th'[u].results = R
        BY <1>0, <4>1 DEF ThreadState
      <4>. QED
        BY <1>1, <3>1, <4>2 DEF Near
    <3>2. CASE ~(th[u].op = "search" /\ th[u].key = s.key)
      BY <1>1, <2>1, <3>2 DEF Near
    <3>. QED
      BY <3>1, <3>2
  <2>4. Become(t, s) => th'[t] = s
    BY <1>0 DEF Become
  <2>. QED
    BY <1>1, <2>2, <2>3, <2>4 DEF Others
<1>. QED
  BY <1>2, <1>3 DEF Goes

\* Nothing is linked, and t has the same level to link next.
LEMMA JoinedSame ==
  ASSUME Inv, NEW t \in Thread, Others(t), UNCHANGED <<level, allocated>>,
         Linking(th'[t]) = Linking(th[t]),
         Linking(th[t]) => th'[t].tower = th[t].tower /\ LinkLevel(th'[t]) = LinkLevel(th[t])
  PROVE  \A l \in Level : Joined'[l] = Joined[l]
<1>1. ASSUME NEW u \in Thread
      PROVE  /\ Linking(th'[u]) = Linking(th[u])
             /\ Linking(th[u]) => /\ th'[u].tower = th[u].tower
                                  /\ LinkLevel(th'[u]) = LinkLevel(th[u])
  <2>1. u # t => Alike(th'[u], th[u])
    BY DEF Others, Near
  <2>. QED
    BY <2>1 DEF Alike, Linking, LinkLevel
<1>2. \A n \in Tower, l \in Level :
        (\A u \in Thread : Linking(th'[u]) /\ th'[u].tower = n => l < LinkLevel(th'[u]))
        <=> (\A u \in Thread : Linking(th[u]) /\ th[u].tower = n => l < LinkLevel(th[u]))
  BY <1>1
<1>. QED
  BY <1>2 DEF Joined

\* The map keeps what it holds for k.
LEMMA MapKept ==
  ASSUME TypeOK, TypeOK', ListInv, ListInv', NEW k \in Key,
         \A n \in Tower : n \in Live' /\ key'[n] = k <=> n \in Live /\ key[n] = k,
         \A n \in Live : key[n] = k => value'[n] = value[n]
  PROVE  Map'[k] = Map[k]
<1>1. Held /\ Held'
  BY HeldNow, HeldNext DEF ListInv
<1>2. Live \subseteq Tower /\ Live' \subseteq Tower
  BY DEF Live
<1>3. CASE \E n \in Live : key[n] = k
  BY <1>1, <1>2, <1>3 DEF Held
<1>4. CASE \A n \in Live : key[n] # k
  BY <1>1, <1>2, <1>4 DEF Held
<1>. QED
  BY <1>3, <1>4

\* The searches of the others may report what the map holds after the step.
LEMMA OthersSee ==
  ASSUME Shape, NEW t \in Thread, Others(t),
         \A u \in Thread \ {t} : th[u].op = "search" /\ th[u].key \in Key =>
           Map'[th[u].key] = Map[th[u].key] \/ Map'[th[u].key] \in th'[u].results
  PROVE  \A u \in Thread \ {t} : SeenInv(th[u])'
<1> SUFFICES ASSUME NEW u \in Thread \ {t}
             PROVE  SeenInv(th[u])'
  OBVIOUS
<1>1. SeenInv(th[u]) /\ Near(th'[u], th[u])
  BY DEF Shape, Tracks, Others
<1>2. /\ th'[u].pc = th[u].pc /\ th'[u].op = th[u].op /\ th'[u].key = th[u].key
      /\ th'[u].val = th[u].val /\ th[u].results \subseteq th'[u].results
  BY <1>1 DEF Near, Alike
<1>3. th[u].op = "search" /\ th[u].pc # "Return" => Map'[th[u].key] \in th'[u].results
  BY <1>1, <1>2 DEF SeenInv
<1>. QED
  BY <1>1, <1>2, <1>3 DEF SeenInv

\* The values of the towers of others that are not linked yet stay.
LEMMA OthersValue ==
  ASSUME Shape, NEW t \in Thread, Others(t),
         \A u \in Thread \ {t} : Unlinked(th[u]) => value'[th[u].tower] = value[th[u].tower]
  PROVE  \A u \in Thread \ {t} : ValueInv(th[u])'
<1> SUFFICES ASSUME NEW u \in Thread \ {t}
             PROVE  ValueInv(th[u])'
  OBVIOUS
<1>1. ValueInv(th[u]) /\ Near(th'[u], th[u])
  BY DEF Shape, Tracks, Others
<1>2. /\ th'[u].tower = th[u].tower /\ th'[u].val = th[u].val
      /\ Unlinked(th'[u]) = Unlinked(th[u])
  BY <1>1 DEF Near, Alike, Unlinked, Linking, LinkLevel
<1>. QED
  BY <1>1, <1>2 DEF ValueInv

\* What is left to show of a step.
LEMMA ShapeStep ==
  ASSUME Inv, ApartInv, Shape, NEW t \in Thread, Frame(t), ListInv',
         \A u \in Thread \ {t} : SeenInv(th[u])',
         \A u \in Thread \ {t} : ValueInv(th[u])',
         Tracking(th[t])', SeenInv(th[t])', ValueInv(th[t])'
  PROVE  Shape'
<1>1. LinkedInv'
  BY DEF ListInv
<1>2. \A u \in Thread \ {t} : Tracks(th[u])'
  BY <1>1, OthersTrack
<1>3. Tracks(th[t])'
  BY DEF Tracks
<1>. QED
  BY <1>2, <1>3 DEF Shape

\* The calls keep their keys, and a search that may report what the map holds
\* still may.
LEMMA OwnSeen ==
  ASSUME Shape, NEW t \in Thread,
         th'[t].pc # "Idle", th[t].pc # "Idle", th'[t].op = th[t].op, th'[t].key = th[t].key,
         th'[t].val = th[t].val,
         th[t].op = "search" => th[t].pc # "Return" /\ Map'[th[t].key] = Map[th[t].key]
                                /\ (th'[t].results = th[t].results \/ th'[t].pc = "Return")
  PROVE  SeenInv(th[t])'
<1>1. SeenInv(th[t])
  BY DEF Shape, Tracks
<1>. QED
  BY <1>1 DEF SeenInv
-----------------------------------------------------------------------------
(***************************************************************************)
(* Steps that leave the list as it is.                                     *)
(***************************************************************************)
\* The local state of t changes, with what it has of its tower.
Still(t) ==
  /\ Others(t) /\ UNCHANGED <<forward, key, level, allocated>>
  /\ Linking(th'[t]) = Linking(th[t])
  /\ Linking(th[t]) => th'[t].tower = th[t].tower /\ LinkLevel(th'[t]) = LinkLevel(th[t])
  /\ \A n \in Tower : Marking(th[t], n) => Marking(th'[t], n) \/ forward[n][0].marked
  /\ retired \subseteq retired'
  /\ Retiring(th[t]) => \/ th[t].tower \in retired'
                        \/ Retiring(th'[t]) /\ th'[t].tower = th[t].tower
  /\ \A n \in retired', l \in Level : ~InList(n, l)

\* A step that leaves the pointers alone, and the work on the towers, keeps the list.
LEMMA StillLinks ==
  ASSUME Inv, Shape, NEW t \in Thread, Still(t)
  PROVE  /\ Frame(t) /\ ListInv' /\ Live' = Live
         /\ \A l \in Level : Joined'[l] = Joined[l]
<1>1. \A l \in Level : Joined'[l] = Joined[l]
  BY JoinedSame DEF Still
<1>2. Marks(t)
  BY DEF Still, Marks, Shape, ListInv, HeaderInv
<1>3. forward \in Pointers
  BY ListTypes DEF Inv
<1>4. Frame(t) /\ ListInv'
  BY <1>1, <1>2, <1>3, SameLinks DEF Still
<1>5. Live' = Live
  BY <1>1, Constants DEF Live, Still
<1>. QED
  BY <1>1, <1>4, <1>5

\* What s knows of the list, t knows when it has gone to s.
LEMMA StillTracks ==
  ASSUME NEW t \in Thread, UNCHANGED <<forward, key, level>>, Live' = Live,
         \A l \in Level : Joined'[l] = Joined[l],
         NEW s \in ThreadState, Alike(th'[t], s), s.op = "search" => th'[t].results = s.results,
         Tracking(s)
  PROVE  Tracking(th[t])'
<1> DEFINE q == th'[t]
<1>1. /\ q.pc = s.pc /\ q.op = s.op /\ q.key = s.key /\ q.lvl = s.lvl /\ q.from = s.from
      /\ q.to = s.to /\ q.cur = s.cur /\ q.next = s.next /\ q.link = s.link
      /\ q.tower = s.tower /\ q.preds = s.preds /\ q.succs = s.succs
      /\ Linking(q) = Linking(s) /\ Retiring(q) = Retiring(s) /\ Missed(q) = Missed(s)
  BY DEF Alike, Linking, Retiring, Missed
<1>2. s.lvl \in Level
  BY Fields
<1>3. CurInv(th[t])' /\ AheadInv(th[t])' /\ StoredInv(th[t])'
  BY <1>1, <1>2 DEF Tracking, CurInv, Before, AheadInv, Lt, StoredInv, Unmarked
<1>4. TableInv(th[t])'
  BY <1>1 DEF Tracking, TableInv, Before
<1>5. FindInv(th[t])'
  <2>1. \A n \in Tower, l \in Level : Target(th[t], n, l)' => Target(s, n, l)
    BY <1>1 DEF Target, InList
  <2>. QED
    BY <1>1, <2>1 DEF Tracking, FindInv, Leads
<1>6. TowerInv(th[t])'
  BY <1>1 DEF Tracking, TowerInv
<1>. QED
  BY <1>3, <1>4, <1>5, <1>6 DEF Tracking

\* If the values stay too, so does the map.
LEMMA StillMap ==
  ASSUME TypeOK, TypeOK', ListInv, ListInv', UNCHANGED <<key, value>>, Live' = Live
  PROVE  \A k \in Key : Map'[k] = Map[k]
BY MapKept
-----------------------------------------------------------------------------
(***************************************************************************)
(* A search goes on.                                                       *)
(***************************************************************************)
\* A search at q.cur has passed nothing that it must come to.
At(q) ==
  /\ LocalInv(q, key, level) /\ q.pc \in Searching /\ q.op # "none"
  /\ CurInv(q) /\ TableInv(q) /\ TowerInv(q)
  /\ Linking(q) => \A l \in Level : q.to <= l => q.tower \notin Joined[l]
  /\ Retiring(q) => forward[q.tower][0].marked
  /\ \A m \in Tower, l \in Level : Target(q, m, l) =>
       l <= q.lvl /\ m \in Way(forward, l, q.cur)

\* A thread in fill_tables is such a search.
LEMMA SearchAt ==
  ASSUME Inv, Shape, NEW t \in Thread, th[t].pc \in Searching
  PROVE  At(th[t])
<1> USE Constants
<1> DEFINE r == th[t]
<1>1. /\ r \in ThreadState /\ LocalInv(r, key, level) /\ Tracking(r) /\ SeenInv(r)
  BY Met DEF Shape, Tracks
<1>2. r.op # "none"
  BY <1>1 DEF SeenInv, Searching
<1>3. Linking(r) => \A l \in Level : r.to <= l => r.tower \notin Joined[l]
  <2>1. Linking(r) => r.tower \in Tower
    BY <1>1 DEF Linking, ThreadState, Pointer
  <2>2. LinkLevel(r) = r.to /\ r.to \in Level
    BY <1>1 DEF LinkLevel, ThreadState
  <2>. QED
    BY <2>1, <2>2, NotJoined
<1>4. Retiring(r) => forward[r.tower][0].marked
  BY DEF Inv, RetireInv
<1>5. \A m \in Tower, l \in Level : Target(r, m, l) => l <= r.lvl /\ m \in Way(forward, l, r.cur)
  BY <1>1 DEF Tracking, FindInv, Leads
<1>. QED
  BY <1>1, <1>2, <1>3, <1>4, <1>5 DEF At, Tracking

\* What a search must come to has its key, and is past where the search is.
LEMMA TargetKey ==
  ASSUME Inv, Shape, NEW q, At(q), NEW m \in Tower, NEW l \in Level, Target(q, m, l)
  PROVE  key[m] = q.key /\ Before(q.cur, key[m]) /\ q.cur \in Node /\ q.lvl \in Level
<1>1. q \in ThreadState /\ q.cur \in Node /\ q.lvl \in Level
  BY Fields DEF At, LocalInv, CallInv
<1>2. key[m] = q.key
  BY Constants DEF Target, Retiring, At, LocalInv, CallInv
<1>. QED
  BY <1>1, <1>2 DEF At, CurInv

\* The search of a level ends at n, and what it has found goes to the tables.
Ends(q, n) ==
  /\ n # NULL => n \in Joined[q.lvl] /\ key[n] >= q.key /\ ~forward[n][q.lvl].marked
  /\ \A m \in Tower : Target(q, m, q.lvl) => q.tower = NULL /\ q.lvl = 0 /\ m = n

\* The two nodes at which a level ends belong in the tables.
LEMMA EndsTable ==
  ASSUME Inv, Shape, NEW q, At(q), NEW n \in Pointer, Ends(q, n),
         NEW s, s.key = q.key, s.op = q.op,
         Linking(s) => Linking(q), s.tower = NULL => q.tower = NULL,
         \A l \in Level : /\ s.preds[l] = (IF l = q.lvl THEN q.cur ELSE q.preds[l])
                          /\ s.succs[l] = (IF l = q.lvl THEN n ELSE q.succs[l])
  PROVE  TableInv(s)
<1> USE Constants
<1>1. q \in ThreadState /\ q.lvl \in Level /\ q.key \in Int /\ q.to \in Level /\ q.to <= q.lvl
  BY Fields DEF At, LocalInv, CallInv
<1>2. TableInv(q) /\ q.cur \in Joined[q.lvl] /\ Before(q.cur, q.key)
  BY DEF At, CurInv
<1>3. n # NULL => n \in Tower
  BY DEF Pointer
<1>4. ASSUME n # NULL, Linking(q), key[n] = q.key
      PROVE  FALSE
  <2>1. n \in Joined[q.lvl] /\ ~forward[n][q.lvl].marked /\ n \in Tower /\ n \in Node
    BY <1>3, <1>4 DEF Ends
  <2>2. n \in Joined[0] /\ ~forward[n][0].marked
    <3>1. TypeOK /\ HeaderInv /\ LinkedInv /\ MarkInv /\ 0 <= q.lvl
      BY <1>1 DEF Inv, Shape, ListInv, Level
    <3>. QED
      BY <1>1, <2>1, <3>1, Plain
  <2>3. n = q.tower
    BY <1>4, <2>1, <2>2 DEF Live, At, TowerInv, Linking
  <2>. QED
    BY <1>1, <1>4, <2>1, <2>3 DEF At
<1>. QED
  BY <1>1, <1>2, <1>3, <1>4 DEF TableInv, Before, Ends

\* The tables are filled.
LEMMA FilledTracks ==
  ASSUME Inv, Shape, NEW q, At(q), NEW n \in Pointer, Ends(q, n), q.lvl = q.to,
         NEW u \in ThreadState,
         u.op = q.op, u.key = q.key, u.tower = q.tower, u.results = q.results, u.lvl = q.lvl,
         \A l \in Level : /\ u.preds[l] = (IF l = q.lvl THEN q.cur ELSE q.preds[l])
                          /\ u.succs[l] = (IF l = q.lvl THEN n ELSE q.succs[l]),
         NEW s, s = Filled(u)
  PROVE  Tracking(s)
<1> USE Constants
<1>1. /\ q \in ThreadState /\ q.lvl \in Level /\ q.to \in Level /\ q.pc \in Searching
      /\ q.op \in {"insert", "remove", "search"}
      /\ q.tower = NULL => q.to = 0
      /\ q.tower # NULL => q.op \in {"insert", "remove"}
      /\ q.op = "remove" => q.to = 0
  BY Fields DEF At, LocalInv, CallInv, ThreadState, TowerInv
<1> DEFINE Rest == /\ s.op = q.op /\ s.key = q.key /\ s.results = q.results
                   /\ s.preds = u.preds /\ s.succs = u.succs
<1>0. q.pc # "Return"
  BY <1>1 DEF Searching
<1>2. CASE q.tower # NULL /\ q.op = "insert"
  <2>1. s = [u EXCEPT !.pc = "LinkStore"]
    BY <1>2 DEF Filled
  <2>2. Rest /\ s.pc = "LinkStore" /\ s.tower = q.tower /\ s.lvl = q.lvl
    BY <2>1 DEF ThreadState
  <2>3. TableInv(s)
    BY <1>0, <1>2, <2>2, EndsTable DEF Linking
  <2>4. TowerInv(s)
    BY <1>0, <1>2, <2>2 DEF At, TowerInv, Searching
  <2>. QED
    BY <2>2, <2>3, <2>4 DEF Tracking, CurInv, AheadInv, StoredInv, FindInv, Searching
<1>3. CASE q.tower # NULL /\ q.op = "remove"
  <2>1. s = [u EXCEPT !.pc = "Retire"]
    BY <1>3 DEF Filled
  <2>2. Rest /\ s.pc = "Retire" /\ s.tower = q.tower /\ s.lvl = q.lvl
    BY <2>1 DEF ThreadState
  <2>3. TableInv(s)
    BY <1>3, <2>2, EndsTable DEF Linking
  <2>4. TowerInv(s)
    BY <1>0, <1>3, <2>2 DEF At, TowerInv, Searching
  <2>5. \A m \in Tower, l \in Level : ~Target(s, m, l)
    <3> SUFFICES ASSUME NEW m \in Tower, NEW l \in Level, Target(s, m, l)
                 PROVE  FALSE
      OBVIOUS
    <3>1. Target(q, m, l)
      BY <1>1, <1>3, <2>2 DEF Target, Retiring
    <3>2. l <= q.lvl /\ q.lvl = 0
      BY <1>1, <1>3, <3>1 DEF At
    <3>3. l = q.lvl
      BY <3>2 DEF Level
    <3>. QED
      BY <1>3, <3>1, <3>3 DEF Ends
  <2>. QED
    BY <2>2, <2>3, <2>4, <2>5 DEF Tracking, CurInv, AheadInv, StoredInv, FindInv, Searching
<1>4. CASE q.tower = NULL /\ q.op = "remove" /\ Found(u)
  <2>1. s = [u EXCEPT !.pc = "MarkLoad", !.tower = u.succs[0], !.lvl = level[u.succs[0]]]
    BY <1>4 DEF Filled
  <2>2. Rest /\ s.pc = "MarkLoad" /\ s.tower = u.succs[0] /\ s.lvl = level[u.succs[0]]
    BY <2>1 DEF ThreadState
  <2>3. TableInv(s)
    BY <1>4, <2>2, EndsTable DEF Linking
  <2>4. u.succs[0] = n /\ n \in Tower
    BY <1>1, <1>4 DEF Found, Pointer
  <2>5. level[n] \in Level
    BY <2>4, ListTypes DEF Inv
  <2>6. \A m \in Tower : m \in Live /\ key[m] = s.key => m = s.tower
    BY <1>1, <1>4, <2>2, <2>4 DEF Target, Missed, Ends
  <2>7. TowerInv(s)
    <3>1. \A l \in Level : ~(s.lvl < l /\ l <= level[s.tower])
      BY <2>2, <2>4, <2>5 DEF Level
    <3>2. s.lvl <= level[s.tower]
      BY <2>2, <2>4, <2>5 DEF Level
    <3>. QED
      BY <2>2, <2>6, <3>1, <3>2 DEF TowerInv, Searching
  <2>. QED
    BY <2>2, <2>3, <2>7 DEF Tracking, CurInv, AheadInv, StoredInv, FindInv, Searching
<1>5. CASE q.tower = NULL /\ ~(q.op = "remove" /\ Found(u))
  <2>1. s = [u EXCEPT !.pc = "Place"]
    BY <1>5 DEF Filled
  <2>2. Rest /\ s.pc = "Place" /\ s.tower = q.tower /\ s.lvl = q.lvl
    BY <2>1 DEF ThreadState
  <2>3. TableInv(s)
    <3>1. ~Linking(s)
      BY <1>5, <2>2 DEF Linking
    <3>. QED
      BY <1>5, <2>2, <3>1, EndsTable
  <2>4. TowerInv(s)
    BY <1>5, <2>2 DEF TowerInv, Searching
  <2>5. FindInv(s)
    <3> SUFFICES ASSUME NEW m \in Tower, NEW l \in Level, Target(s, m, l)
                 PROVE  m = s.succs[0]
      BY <2>2 DEF FindInv, Searching
    <3>1. Target(q, m, 0) /\ q.lvl = 0
      BY <1>1, <1>5, <2>2 DEF Target, Retiring, Missed
    <3>2. m = n /\ s.succs[0] = n
      BY <2>2, <3>1 DEF Ends
    <3>. QED
      BY <3>2
  <2>. QED
    BY <2>2, <2>3, <2>4, <2>5 DEF Tracking, CurInv, AheadInv, StoredInv, Searching
<1>. QED
  BY <1>1, <1>2, <1>3, <1>4, <1>5

\* A search that ends a level goes on to the next, or to what its caller does.
LEMMA DoneTracks ==
  ASSUME Inv, Shape, NEW q, At(q), NEW n \in Pointer, Ends(q, n),
         NEW s, s = LevelDone(q, n)
  PROVE  Tracking(s)
<1> USE Constants
<1> DEFINE a == [q EXCEPT !.preds[q.lvl] = q.cur, !.succs[q.lvl] = n, !.next = NULL]
<1>1. /\ q \in ThreadState /\ q.lvl \in Level /\ q.to \in Level /\ q.to <= q.lvl
      /\ q.pc \in Searching /\ q.cur \in Node
  BY Fields DEF At, LocalInv, CallInv
<1>2. /\ a \in ThreadState
      /\ a.op = q.op /\ a.key = q.key /\ a.tower = q.tower /\ a.results = q.results
      /\ a.pc = q.pc /\ a.lvl = q.lvl /\ a.cur = q.cur /\ a.to = q.to /\ a.from = q.from
  BY <1>1 DEF ThreadState, Pointer
<1>3. \A l \in Level : /\ a.preds[l] = (IF l = q.lvl THEN q.cur ELSE q.preds[l])
                       /\ a.succs[l] = (IF l = q.lvl THEN n ELSE q.succs[l])
  BY <1>1 DEF ThreadState
<1>4. s = IF q.lvl = q.to THEN Filled([a EXCEPT !.cur = Header])
                          ELSE [a EXCEPT !.pc = "Load", !.lvl = a.lvl - 1]
  BY <1>1 DEF LevelDone, ThreadState
<1> HIDE DEF a
<1>5. CASE q.lvl = q.to
  <2> DEFINE u == [a EXCEPT !.cur = Header]
  <2>1. /\ u \in ThreadState
        /\ u.op = q.op /\ u.key = q.key /\ u.tower = q.tower /\ u.results = q.results
        /\ u.lvl = q.lvl /\ u.preds = a.preds /\ u.succs = a.succs
    BY <1>2 DEF ThreadState
  <2>2. s = Filled(u)
    BY <1>4, <1>5
  <2> HIDE DEF u
  <2>. QED
    BY <1>3, <1>5, <2>1, <2>2, FilledTracks
<1>6. CASE q.lvl # q.to
  <2>1. s = [a EXCEPT !.pc = "Load", !.lvl = a.lvl - 1]
    BY <1>4, <1>6
  <2>2. /\ s.pc = "Load" /\ s.lvl = q.lvl - 1 /\ s.cur = q.cur
        /\ s.op = q.op /\ s.key = q.key /\ s.tower = q.tower /\ s.results = q.results
        /\ s.to = q.to /\ s.from = q.from /\ s.preds = a.preds /\ s.succs = a.succs
    BY <1>2, <2>1 DEF ThreadState
  <2>3. s.lvl \in Level /\ s.lvl <= q.lvl /\ q.lvl # 0
    BY <1>1, <1>6, <2>2 DEF Level
  <2>4. CurInv(s)
    <3>1. q.cur \in Joined[s.lvl]
      BY <1>1, <2>3, JoinedDown DEF At, CurInv, Inv
    <3>. QED
      BY <2>2, <3>1, <1>1 DEF CurInv, At, Before
  <2>5. TableInv(s)
    BY <1>1, <1>3, <2>2, EndsTable DEF Linking, Searching
  <2>6. FindInv(s)
    <3> SUFFICES ASSUME NEW m \in Tower, NEW l \in Level, Target(s, m, l)
                 PROVE  l <= s.lvl /\ m \in Way(forward, l, s.cur)
      BY <2>2 DEF FindInv, Leads
    <3>1. Target(q, m, l)
      BY <1>1, <2>2 DEF Target, Retiring, Missed, Searching
    <3>2. l # q.lvl
      BY <2>3, <3>1 DEF Ends
    <3>3. l <= q.lvl /\ m \in Way(forward, l, q.cur)
      BY <3>1 DEF At
    <3>. QED
      BY <1>1, <2>2, <3>2, <3>3 DEF Level
  <2>7. TowerInv(s)
    BY <1>1, <2>2 DEF At, TowerInv, Searching
  <2>. QED
    BY <2>2, <2>4, <2>5, <2>6, <2>7 DEF Tracking, AheadInv, StoredInv
<1>. QED
  BY <1>5, <1>6

\* A search meets what q.cur leads to.
LEMMA ArriveTracks ==
  ASSUME Inv, Shape, NEW q, At(q), NEW n, n = forward[q.cur][q.lvl].to,
         NEW s, s = Arrive(q, n)
  PROVE  Tracking(s)
<1> USE Constants
<1>1. /\ q \in ThreadState /\ q.lvl \in Level /\ q.pc \in Searching /\ q.cur \in Node
      /\ forward \in Pointers /\ TypeOK /\ LinkInv
  BY Fields, ListTypes DEF At, LocalInv, CallInv, Inv, Shape, ListInv
<1>2. n \in Pointer /\ (n # NULL => n \in Tower /\ n \in Joined[q.lvl] /\ Lt(key, q.cur, n))
  BY <1>1, PointerType DEF LinkInv
<1>3. ASSUME NEW m \in Tower, Target(q, m, q.lvl)
      PROVE  n # NULL /\ m \in Way(forward, q.lvl, n)
  <2>1. m \in Way(forward, q.lvl, q.cur) /\ Before(q.cur, key[m])
    BY <1>1, <1>3, TargetKey DEF At
  <2>. QED
    BY <1>1, <2>1, Stops
<1>4. CASE n = NULL
  <2>1. Ends(q, n)
    BY <1>3, <1>4 DEF Ends
  <2>. QED
    BY <1>2, <1>4, <2>1, DoneTracks DEF Arrive
<1>5. CASE n # NULL
  <2>1. s = [q EXCEPT !.pc = "Look", !.next = n]
    BY <1>5 DEF Arrive
  <2>2. /\ s.pc = "Look" /\ s.next = n /\ s.lvl = q.lvl /\ s.cur = q.cur
        /\ s.op = q.op /\ s.key = q.key /\ s.tower = q.tower /\ s.results = q.results
        /\ s.to = q.to /\ s.from = q.from /\ s.preds = q.preds /\ s.succs = q.succs
    BY <1>1, <2>1 DEF ThreadState
  <2>3. CurInv(s) /\ TableInv(s) /\ TowerInv(s)
    <3>1. CurInv(s)
      BY <1>1, <2>2 DEF At, CurInv
    <3>2. TableInv(s)
      <4>1. TableInv(q) /\ (Linking(s) => Linking(q))
        BY <1>1, <2>2 DEF At, Linking, Searching
      <4>. QED
        BY ONLY <2>2, <4>1 DEF TableInv
    <3>3. TowerInv(s)
      <4>1. TowerInv(q) /\ q.pc # "Return"
        BY <1>1 DEF At, Searching
      <4>2. s.pc \in Searching /\ s.pc \notin {"MarkLoad", "MarkCas"}
        BY <2>2 DEF Searching
      <4>. QED
        BY ONLY <1>1, <2>2, <4>1, <4>2 DEF TowerInv
    <3>. QED
      BY <3>1, <3>2, <3>3, SMTT(30)
  <2>4. AheadInv(s)
    BY <1>2, <1>5, <2>2, SMTT(30) DEF AheadInv
  <2>5. FindInv(s)
    <3> SUFFICES ASSUME NEW m \in Tower, NEW l \in Level, Target(s, m, l)
                 PROVE  l <= s.lvl /\ Leads(s, m, l)
      BY <2>2 DEF FindInv
    <3>1. Target(q, m, l)
      BY <1>1, <2>2 DEF Target, Retiring, Missed, Searching
    <3>2. l <= q.lvl /\ m \in Way(forward, l, q.cur)
      BY <3>1 DEF At
    <3>3. l = q.lvl => m \in Way(forward, l, n)
      BY <1>3, <3>1
    <3>. QED
      BY <2>2, <3>2, <3>3, SMTT(30) DEF Leads
  <2>. QED
    BY <2>2, <2>3, <2>4, <2>5, Zenon DEF Tracking, StoredInv
<1>. QED
  BY <1>4, <1>5

\* A search passes the tower it is at.
LEMMA PassAt ==
  ASSUME Inv, Shape, NEW t \in Thread, th[t].pc = "Look",
         ~forward[th[t].next][th[t].lvl].marked, key[th[t].next] < th[t].key,
         NEW q, q = [th[t] EXCEPT !.cur = th[t].next]
  PROVE  At(q) /\ q.cur = th[t].next /\ q.lvl = th[t].lvl
<1> USE Constants
<1> DEFINE r == th[t]
<1>1. /\ r \in ThreadState /\ Tracking(r) /\ LocalInv(r, key, level) /\ At(r)
      /\ r.lvl \in Level /\ r.next \in Tower /\ r.next \in Joined[r.lvl]
  BY Met, SearchAt, Fields DEF Shape, Tracks, Tracking, AheadInv, LocalInv, Pointer, Searching
<1>2. /\ q.pc = "Look" /\ q.next = r.next /\ q.lvl = r.lvl /\ q.cur = r.next
      /\ q.op = r.op /\ q.key = r.key /\ q.tower = r.tower /\ q.results = r.results
      /\ q.to = r.to /\ q.from = r.from /\ q.preds = r.preds /\ q.succs = r.succs
      /\ q.link = r.link /\ q \in ThreadState
  BY <1>1 DEF ThreadState
<1>3. LocalInv(q, key, level)
  BY <1>1, <1>2 DEF LocalInv, CallInv, Linking, LinkLevel, Searching
<1>4. CurInv(q) /\ TableInv(q) /\ TowerInv(q)
  <2>1. CurInv(q)
    BY <1>1, <1>2 DEF CurInv, Before
  <2>2. TableInv(q)
    <3>1. TableInv(r) /\ (Linking(q) => Linking(r))
      BY <1>1, <1>2 DEF At, Linking, Searching
    <3>. QED
      BY ONLY <1>2, <3>1 DEF TableInv
  <2>3. TowerInv(q)
    <3>1. TowerInv(r) /\ r.pc = "Look"
      BY <1>1 DEF At
    <3>. QED
      BY ONLY <1>2, <3>1 DEF TowerInv, Searching
  <2>. QED
    BY <2>1, <2>2, <2>3
<1>5. ASSUME NEW m \in Tower, NEW l \in Level, Target(q, m, l)
      PROVE  l <= q.lvl /\ m \in Way(forward, l, q.cur)
  <2>1. Target(r, m, l)
    BY <1>2, <1>5 DEF Target, Retiring, Missed, Searching
  <2>2. l <= r.lvl /\ InList(m, l) /\ key[m] = r.key
    BY <1>1, <2>1, TargetKey, TargetIn DEF At, InList, Shape, ListInv
  <2>3. Before(r.next, key[m])
    BY <2>2 DEF Before
  <2>4. m \in Way(forward, l, r.next)
    <3>1. TypeOK /\ HeaderInv /\ LinkInv /\ LinkedInv /\ MarkInv /\ r.next \in Node
      BY <1>1 DEF Inv, Shape, ListInv
    <3>. QED
      BY <1>1, <2>2, <2>3, <3>1, Passed
  <2>. QED
    BY <1>2, <2>2, <2>4
<1>6. /\ Linking(q) = Linking(r) /\ Retiring(q) = Retiring(r) /\ q.pc \in Searching /\ r.op # "none"
  BY <1>1, <1>2 DEF Linking, Retiring, Searching, At
<1>7. Linking(q) => \A l \in Level : q.to <= l => q.tower \notin Joined[l]
  BY <1>1, <1>2, <1>6 DEF At
<1>8. Retiring(q) => forward[q.tower][0].marked
  BY <1>1, <1>2, <1>6 DEF At
<1>. QED
  BY <1>2, <1>3, <1>4, <1>5, <1>6, <1>7, <1>8 DEF At

\* A search stops at the tower it is at.
LEMMA StopEnds ==
  ASSUME Inv, Shape, NEW t \in Thread, th[t].pc = "Look",
         ~forward[th[t].next][th[t].lvl].marked, key[th[t].next] >= th[t].key
  PROVE  At(th[t]) /\ th[t].next \in Tower /\ Ends(th[t], th[t].next)
<1> USE Constants
<1> DEFINE r == th[t]
<1>1. /\ r \in ThreadState /\ Tracking(r) /\ LocalInv(r, key, level) /\ At(r)
      /\ r.lvl \in Level /\ r.next \in Tower /\ r.next \in Joined[r.lvl]
  BY Met, SearchAt, Fields DEF Shape, Tracks, Tracking, AheadInv, LocalInv, Pointer, Searching
<1>2. ASSUME NEW m \in Tower, Target(r, m, r.lvl)
      PROVE  r.tower = NULL /\ r.lvl = 0 /\ m = r.next
  <2>1. m \in Way(forward, r.lvl, r.next)
    BY <1>1, <1>2 DEF Tracking, FindInv, Leads, Searching
  <2>2. key[m] = r.key /\ r.cur \in Node /\ Before(r.cur, key[m])
    BY <1>1, <1>2, TargetKey
  <2>3. m \in Way(forward, r.lvl, r.cur)
    BY <1>1, <1>2 DEF At
  <2>4. m = r.next
    <3>1. TypeOK /\ LinkInv
      BY DEF Inv, Shape, ListInv
    <3>2. \A a \in Tower : m \in Way(forward, r.lvl, a) /\ key[a] >= key[m] => m = a
      BY <1>1, <2>2, <2>3, <3>1, Stops
    <3>. QED
      BY <1>1, <2>1, <2>2, <3>2
  <2>5. ~Retiring(r) \/ m # r.tower
    <3>1. r.next <= allocated /\ r.lvl <= level[r.next] /\ 0 <= r.lvl
      BY <1>1, JoinedNode DEF Level
    <3>2. MarkInv
      BY DEF Shape, ListInv
    <3>. QED
      BY <1>1, <2>4, <3>1, <3>2 DEF At, MarkInv
  <2>. QED
    BY <1>2, <2>4, <2>5 DEF Target
<1>. QED
  BY <1>1, <1>2 DEF Ends
-----------------------------------------------------------------------------
(***************************************************************************)
(* Each action keeps the shape of the list: those that leave it as it is.  *)
(***************************************************************************)
\* What r is doing to its tower, s is.
Keeps(r, s) ==
  /\ Linking(s) = Linking(r)
  /\ Linking(r) => s.tower = r.tower /\ LinkLevel(s) = LinkLevel(r)
  /\ \A n \in Tower : Marking(r, n) => Marking(s, n) \/ forward[n][0].marked
  /\ Retiring(r) => Retiring(s) /\ s.tower = r.tower

\* The map stays.
MapStays == \A k \in Key : Map'[k] = Map[k]

\* A thread that keeps its work leaves the list to the others as it is.
LEMMA StillStep ==
  ASSUME Inv, Shape, NEW t \in Thread, NEW s \in ThreadState, Goes(t, s), Keeps(th[t], s),
         UNCHANGED <<forward, key, level, allocated, retired>>
  PROVE  Still(t)
<1>1. Others(t) /\ Alike(th'[t], s)
  BY NearStep DEF Inv
<1>2. /\ Linking(th'[t]) = Linking(s) /\ LinkLevel(th'[t]) = LinkLevel(s)
      /\ Retiring(th'[t]) = Retiring(s) /\ th'[t].tower = s.tower
      /\ \A n : Marking(th'[t], n) = Marking(s, n)
  BY <1>1 DEF Alike, Linking, LinkLevel, Retiring, Marking
<1>. QED
  BY <1>1, <1>2 DEF Keeps, Still, Shape, ListInv, GoneInv

\* The list and its values stay.
LEMMA StillShape ==
  ASSUME Inv, Inv', ApartInv, Shape, NEW t \in Thread, NEW s \in ThreadState,
         Goes(t, s), Still(t), UNCHANGED value, Tracking(s), SeenInv(s),
         s.op = "search" => Become(t, s), Unlinked(s) => s.val = th[t].val
  PROVE  Shape' /\ MapStays
<1> DEFINE r == th[t]
<1>1. /\ Others(t) /\ Alike(th'[t], s) /\ th'[t].val = s.val
      /\ s.op = "search" => th'[t].results = s.results
      /\ UNCHANGED <<forward, key, level>>
  BY NearStep DEF Inv, Still
<1>2. /\ th'[t].pc = s.pc /\ th'[t].op = s.op /\ th'[t].key = s.key /\ th'[t].tower = s.tower
      /\ Unlinked(th'[t]) = Unlinked(s)
  BY <1>1 DEF Alike, Unlinked, Linking, LinkLevel
<1>3. Frame(t) /\ ListInv' /\ Live' = Live /\ \A l \in Level : Joined'[l] = Joined[l]
  BY StillLinks
<1>4. TypeOK /\ TypeOK' /\ ListInv
  BY DEF Inv, Shape
<1>5. \A k \in Key : Map'[k] = Map[k]
  BY <1>1, <1>3, <1>4, StillMap
<1>6. \A u \in Thread \ {t} : SeenInv(th[u])'
  BY <1>1, <1>5, OthersSee
<1>7. \A u \in Thread \ {t} : ValueInv(th[u])'
  BY <1>1, OthersValue
<1>8. Tracking(th[t])'
  BY <1>1, <1>3, StillTracks
<1>9. SeenInv(th[t])'
  BY <1>1, <1>2, <1>5 DEF SeenInv
<1>10. ValueInv(th[t])'
  <2>1. ValueInv(r)
    BY DEF Shape, Tracks
  <2>2. Unlinked(th'[t]) => Unlinked(r) /\ th'[t].tower = r.tower
    BY DEF Still, Unlinked
  <2>. QED
    BY <1>1, <1>2, <2>1, <2>2 DEF ValueInv
<1>. QED
  BY <1>5, <1>3, <1>6, <1>7, <1>8, <1>9, <1>10, ShapeStep DEF MapStays

\* A step that writes nothing shared keeps the shape, if its thread still tracks the list.
LEMMA QuietStep ==
  ASSUME Inv, Inv', ApartInv, Shape, NEW t \in Thread, NEW s \in ThreadState,
         Goes(t, s), Keeps(th[t], s), Tracking(s),
         UNCHANGED <<forward, key, value, level, allocated, retired>>,
         th[t].pc \notin {"Idle", "Return"}, s.pc # "Idle",
         s.op = th[t].op, s.key = th[t].key, s.val = th[t].val,
         s.op = "search" => Become(t, s) /\ (s.results = th[t].results \/ s.pc = "Return")
  PROVE  Shape' /\ MapStays
<1>1. Still(t)
  BY StillStep
<1>2. SeenInv(th[t])
  BY DEF Shape, Tracks
<1>3. SeenInv(s)
  BY <1>2 DEF SeenInv
<1>. QED
  BY <1>1, <1>3, StillShape

\* A step of a search keeps the call.
SameCall(r, s) ==
  /\ s.op = r.op /\ s.key = r.key /\ s.val = r.val /\ s.results = r.results /\ s.out = r.out
  /\ s.pc \notin {"Idle", "Return"}

\* A search that goes on keeps its call's work ...
LEMMA SearchKeepsCall ==
  ASSUME NEW r \in ThreadState, r.pc \in Searching, NEW n, NEW s, GoesOn(r, s, n)
  PROVE  Keeps(r, s) /\ s \in ThreadState
<1>1. /\ s \in ThreadState
      /\ Linking(r) => r.tower # NULL
      /\ Retiring(r) => r.tower # NULL
      /\ \A m \in Tower : ~Marking(r, m)
  BY DEF GoesOn, LocalInv, CallInv, Linking, Retiring, Marking, Searching
<1>. QED
  BY <1>1 DEF Keeps, GoesOn

\* ... and its call, when it ends a level ...
LEMMA DoneCall ==
  ASSUME TypeOK, NEW r \in ThreadState, r.pc \in Searching, NEW n \in Pointer,
         LocalInv(r, key, level), NEW s, s = LevelDone(r, n)
  PROVE  SameCall(r, s)
<1> USE Constants
<1> DEFINE a == [r EXCEPT !.preds[r.lvl] = r.cur, !.succs[r.lvl] = n, !.next = NULL]
<1>1. /\ a \in ThreadState
      /\ a.op = r.op /\ a.key = r.key /\ a.val = r.val /\ a.results = r.results
      /\ a.out = r.out /\ a.lvl = r.lvl
  BY DEF ThreadState, Pointer
<1>2. s = IF r.lvl = r.to THEN Filled([a EXCEPT !.cur = Header])
                          ELSE [a EXCEPT !.pc = "Load", !.lvl = a.lvl - 1]
  BY <1>1 DEF LevelDone, ThreadState
<1> HIDE DEF a
<1>3. CASE r.lvl # r.to
  BY <1>1, <1>2, <1>3 DEF SameCall, ThreadState
<1>4. CASE r.lvl = r.to
  <2> DEFINE u == [a EXCEPT !.cur = Header]
  <2>1. /\ u \in ThreadState
        /\ u.op = r.op /\ u.key = r.key /\ u.val = r.val /\ u.results = r.results
        /\ u.out = r.out
    BY <1>1 DEF ThreadState
  <2>2. s = Filled(u)
    BY <1>2, <1>4
  <2> HIDE DEF u
  <2>3. \/ s = [u EXCEPT !.pc = "LinkStore"]
        \/ s = [u EXCEPT !.pc = "Retire"]
        \/ s = [u EXCEPT !.pc = "MarkLoad", !.tower = u.succs[0], !.lvl = level[u.succs[0]]]
        \/ s = [u EXCEPT !.pc = "Place"]
    BY <2>2 DEF Filled
  <2>4. \A p \in {"LinkStore", "Retire", "Place"} : s = [u EXCEPT !.pc = p] => SameCall(r, s)
    BY <2>1 DEF SameCall, ThreadState
  <2>5. ASSUME NEW x, NEW l, s = [u EXCEPT !.pc = "MarkLoad", !.tower = x, !.lvl = l]
        PROVE  SameCall(r, s)
    BY <2>1, <2>5 DEF SameCall, ThreadState
  <2>. QED
    BY <2>3, <2>4, <2>5, Zenon
<1>. QED
  BY <1>3, <1>4

\* ... and when it comes to a node.
LEMMA ArriveCall ==
  ASSUME TypeOK, NEW r \in ThreadState, r.pc \in Searching, NEW n \in Pointer,
         LocalInv(r, key, level), NEW s, s = Arrive(r, n)
  PROVE  SameCall(r, s)
<1>1. CASE n = NULL
  BY <1>1, DoneCall DEF Arrive
<1>2. CASE n # NULL
  <2>1. s = [r EXCEPT !.pc = "Look", !.next = n]
    BY <1>2 DEF Arrive
  <2>. QED
    BY <2>1 DEF SameCall, ThreadState
<1>. QED
  BY <1>1, <1>2

\* A search goes on in the same list.
LEMMA SearchShape ==
  ASSUME Inv, Inv', ApartInv, Shape, NEW t \in Thread, th[t].pc \in Searching, NEW s \in ThreadState,
         Become(t, s), Keeps(th[t], s), Tracking(s), SameCall(th[t], s),
         UNCHANGED <<forward, key, value, level, allocated, retired>>
  PROVE  Shape' /\ MapStays
<1>1. th[t].pc \notin {"Idle", "Return"}
  BY DEF Searching
<1>. QED
  BY <1>1, QuietStep DEF Goes, SameCall

\* A search reads where its level goes on: the shape stays,
LEMMA LoadShape ==
  ASSUME Inv, Inv', ApartInv, Shape, NEW t \in Thread, Load(t)
  PROVE  Shape' /\ MapStays
<1> DEFINE r == th[t]
           n == forward[r.cur][r.lvl].to
           s == Arrive(r, n)
<1>1. /\ r \in ThreadState /\ LocalInv(r, key, level) /\ TypeOK /\ r.pc \in Searching /\ At(r)
      /\ Become(t, s) /\ UNCHANGED <<forward, key, value, level, allocated, retired>>
  BY Met, SearchAt DEF Load, Searching, shared, Inv
<1>2. n \in Pointer
  BY <1>1, Fields, Met
<1> HIDE DEF n
<1>3. Tracking(s)
  BY <1>1, ArriveTracks DEF n
<1>4. GoesOn(r, s, n)
  BY <1>1, <1>2, ArriveStep
<1>5. SameCall(r, s)
  BY <1>1, <1>2, ArriveCall
<1>6. Keeps(r, s) /\ s \in ThreadState
  BY <1>1, <1>4, SearchKeepsCall
<1> HIDE DEF s
<1>. QED
  BY <1>1, <1>3, <1>5, <1>6, SearchShape

\* as it does when the search looks at the next tower.
LEMMA LookShape ==
  ASSUME Inv, Inv', ApartInv, Shape, NEW t \in Thread, Look(t)
  PROVE  Shape' /\ MapStays
<1> USE Constants
<1> DEFINE r == th[t]
           after == forward[r.next][r.lvl]
<1>1. /\ r \in ThreadState /\ LocalInv(r, key, level) /\ TypeOK /\ r.pc \in Searching /\ At(r)
      /\ r.pc = "Look" /\ Tracking(r)
      /\ UNCHANGED <<forward, key, value, level, allocated, retired>>
  BY Met, SearchAt DEF Look, Searching, shared, Inv, Shape, Tracks
<1>2. r.next \in Tower /\ r.lvl \in Level /\ after \in Link /\ after.to \in Pointer
  BY <1>1, Fields, Met DEF LocalInv, Pointer
<1>3. CASE after.marked /\ Become(t, [r EXCEPT !.pc = "Unlink", !.link = after])
  <2> DEFINE s == [r EXCEPT !.pc = "Unlink", !.link = after]
  <2>1. /\ s \in ThreadState
        /\ s.pc = "Unlink" /\ s.op = r.op /\ s.key = r.key /\ s.tower = r.tower
        /\ s.val = r.val /\ s.results = r.results /\ s.out = r.out
        /\ s.lvl = r.lvl /\ s.from = r.from /\ s.to = r.to
        /\ s.cur = r.cur /\ s.next = r.next /\ s.link = after
        /\ s.preds = r.preds /\ s.succs = r.succs
    BY <1>1, <1>2 DEF ThreadState
  <2>2. Become(t, s)
    BY <1>3
  <2> HIDE DEF s
  <2>3. Keeps(r, s)
    BY <1>1, <2>1 DEF Keeps, Linking, LinkLevel, Retiring, Marking, Searching
  <2>4. SameCall(r, s)
    BY <2>1 DEF SameCall
  <2>5. CurInv(s) /\ AheadInv(s) /\ StoredInv(s)
    BY <1>1, <1>3, <2>1 DEF Tracking, CurInv, AheadInv, StoredInv, Before
  <2>6. TableInv(s)
    BY <1>1, <2>1 DEF Tracking, TableInv, Linking, Before
  <2>7. TowerInv(s)
    BY <1>1, <2>1 DEF Tracking, TowerInv, Searching
  <2>8. FindInv(s)
    <3>1. \A m \in Tower, l \in Level : Target(s, m, l) => Target(r, m, l)
      BY <1>1, <2>1 DEF Target, Retiring, Missed, Searching
    <3>. QED
      BY <1>1, <2>1, <3>1 DEF Tracking, FindInv, Leads, Searching
  <2>. QED
    BY <1>1, <2>1, <2>2, <2>3, <2>4, <2>5, <2>6, <2>7, <2>8, SearchShape DEF Tracking
<1>4. CASE /\ ~after.marked /\ key[r.next] < r.key
           /\ Become(t, Arrive([r EXCEPT !.cur = r.next], after.to))
  <2> DEFINE q == [r EXCEPT !.cur = r.next]
             s == Arrive(q, after.to)
  <2>1. /\ q \in ThreadState /\ q.tower = r.tower /\ q.pc = "Look" /\ q.to = r.to
        /\ q.op = r.op /\ q.key = r.key /\ q.val = r.val /\ q.results = r.results
        /\ q.out = r.out
    BY <1>1, <1>2 DEF ThreadState
  <2>2. At(q) /\ q.cur = r.next /\ q.lvl = r.lvl
    BY <1>1, <1>4, PassAt
  <2>3. Become(t, s)
    BY <1>4
  <2> HIDE DEF q
  <2>4. LocalInv(q, key, level) /\ q.pc \in Searching
    BY <2>2 DEF At
  <2>5. Tracking(s)
    BY <2>2, ArriveTracks
  <2>6. GoesOn(q, s, after.to)
    BY <1>1, <1>2, <2>4, ArriveStep
  <2>7. SameCall(q, s)
    BY <1>1, <1>2, <2>1, <2>4, ArriveCall
  <2>8. Keeps(q, s) /\ s \in ThreadState
    BY <2>1, <2>4, <2>6, SearchKeepsCall
  <2> HIDE DEF s
  <2>9. Keeps(r, s)
    BY <1>1, <2>1, <2>8 DEF Keeps, Linking, LinkLevel, Retiring, Marking, Searching
  <2>10. SameCall(r, s)
    BY <2>1, <2>7 DEF SameCall
  <2>. QED
    BY <1>1, <2>3, <2>5, <2>8, <2>9, <2>10, SearchShape
<1>5. CASE ~after.marked /\ key[r.next] >= r.key /\ Become(t, LevelDone(r, r.next))
  <2> DEFINE s == LevelDone(r, r.next)
  <2>1. Ends(r, r.next) /\ r.next \in Pointer
    BY <1>1, <1>2, <1>5, StopEnds
  <2>2. Tracking(s)
    BY <1>1, <2>1, DoneTracks
  <2>3. GoesOn(r, s, r.next)
    BY <1>1, <2>1, DoneStep
  <2>4. SameCall(r, s)
    BY <1>1, <2>1, DoneCall
  <2>5. Keeps(r, s) /\ s \in ThreadState
    BY <1>1, <2>3, SearchKeepsCall
  <2>6. Become(t, s)
    BY <1>5
  <2> HIDE DEF s
  <2>. QED
    BY <1>1, <2>2, <2>4, <2>5, <2>6, SearchShape
<1>. QED
  BY <1>3, <1>4, <1>5 DEF Look
-----------------------------------------------------------------------------
\* A search that starts at the header has all before it.
Fresh(s) ==
  /\ s.pc = "Load" /\ s.lvl = s.from /\ s.cur = Header
  /\ \A l \in Level : s.preds[l] = Header /\ s.succs[l] = NULL
  /\ Retiring(s) => s.from = TopLevel

\* Such a search tracks the list ...
LEMMA FreshTracks ==
  ASSUME LinkedInv, NEW s \in ThreadState, Fresh(s), TowerInv(s)
  PROVE  Tracking(s)
<1> USE Constants
<1>1. /\ s.from \in Level /\ s.pc = "Load" /\ s.lvl = s.from /\ s.cur = Header
      /\ \A l \in Level : s.preds[l] = Header /\ s.succs[l] = NULL
  BY Fields DEF Fresh, ThreadState
<1>2. \A l \in Level : Header \in Joined[l]
  BY DEF Joined
<1>3. CurInv(s) /\ AheadInv(s) /\ StoredInv(s)
  BY <1>1, <1>2 DEF CurInv, AheadInv, StoredInv, Before
<1>4. TableInv(s)
  BY <1>1, <1>2 DEF TableInv, Before
<1>5. FindInv(s)
  <2> SUFFICES ASSUME NEW m \in Tower, NEW l \in Level, Target(s, m, l)
               PROVE  l <= s.from /\ m \in Way(forward, l, Header)
    BY <1>1 DEF FindInv, Leads
  <2>1. m \in Way(forward, l, Header)
    BY TargetIn
  <2>2. l = 0 \/ s.from = TopLevel
    BY DEF Target, Fresh
  <2>. QED
    BY <1>1, <2>1, <2>2 DEF Level
<1>. QED
  BY <1>3, <1>4, <1>5 DEF Tracking

\* ... in a state ...
LEMMA FreshNow ==
  TypeOK /\ LinkedInv => \A t \in Thread : Fresh(th[t]) /\ TowerInv(th[t]) => Tracking(th[t])
BY FreshTracks, ListTypes

\* ... and in the next one.
LEMMA FreshNext ==
  (TypeOK /\ LinkedInv)' =>
    (\A t \in Thread : Fresh(th[t]) /\ TowerInv(th[t]) => Tracking(th[t]))'
BY FreshNow, PTL

\* A call that is over, or no call, only has tables left.
LEMMA RestTracks ==
  ASSUME NEW s, s.pc = "Return" \/ (s.pc = "Idle" /\ s.tower = NULL), TableInv(s)
  PROVE  Tracking(s)
<1>1. s.pc \notin Searching \cup {"LinkCas", "Place", "Retire", "MarkLoad", "MarkCas"}
  BY DEF Searching
<1>2. CurInv(s) /\ AheadInv(s) /\ StoredInv(s) /\ FindInv(s)
  BY <1>1 DEF CurInv, AheadInv, StoredInv, FindInv, Searching
<1>3. TowerInv(s)
  BY <1>1 DEF TowerInv
<1>. QED
  BY <1>2, <1>3 DEF Tracking

\* A call ends.
LEMMA EndingTracks ==
  ASSUME NEW r \in ThreadState, TableInv(r), NEW o \in Outcome,
         NEW s, s \in {Ending(r), Ending([r EXCEPT !.out = o])}
  PROVE  /\ Tracking(s) /\ s \in ThreadState /\ s.pc = "Return" /\ s.op = r.op
         /\ s.key = r.key /\ s.val = r.val /\ s.results = r.results /\ s.tower = r.tower
         /\ ~Linking(s)
<1>1. /\ s \in ThreadState
      /\ s.pc = "Return" /\ s.op = r.op /\ s.key = r.key /\ s.tower = r.tower
      /\ s.val = r.val /\ s.results = r.results /\ s.preds = r.preds /\ s.succs = r.succs
  <2>1. CASE s = Ending(r)
    BY <2>1 DEF Ending, ThreadState
  <2>2. CASE s = Ending([r EXCEPT !.out = o])
    BY <2>2 DEF Ending, ThreadState
  <2>. QED
    BY <2>1, <2>2
<1>2. TableInv(s) /\ ~Linking(s)
  BY <1>1 DEF TableInv, Linking
<1>. QED
  BY <1>1, <1>2, RestTracks

\* What r has in its hands when it ends: nothing.
LEMMA EndingShape ==
  ASSUME Inv, Inv', ApartInv, Shape, NEW t \in Thread, NEW o \in Outcome,
         NEW s \in {Ending(th[t]), Ending([th[t] EXCEPT !.out = o])},
         Goes(t, s), th[t].op = "search" => Become(t, s),
         th[t].pc \notin {"Idle", "Return"}, ~Linking(th[t]), ~Retiring(th[t]),
         \A n \in Tower : Marking(th[t], n) => forward[n][0].marked,
         UNCHANGED <<forward, key, value, level, allocated, retired>>
  PROVE  Shape' /\ MapStays
<1>1. th[t] \in ThreadState /\ TableInv(th[t])
  BY Met DEF Shape, Tracks, Tracking
<1>2. /\ Tracking(s) /\ s \in ThreadState /\ s.pc = "Return" /\ s.op = th[t].op
      /\ s.key = th[t].key /\ s.val = th[t].val /\ s.tower = th[t].tower /\ ~Linking(s)
  BY <1>1, EndingTracks
<1>3. Keeps(th[t], s)
  BY <1>2 DEF Keeps, Linking
<1>. QED
  BY <1>2, <1>3, QuietStep

\* The calls that end without a write to the list keep its shape.
LEMMA EndShape ==
  ASSUME Inv, Inv', ApartInv, Shape, NEW t \in Thread,
         NoMemory(t) \/ RemoveAbsent(t) \/ ReadValue(t) \/ NoElement(t)
  PROVE  Shape' /\ MapStays
<1> USE Constants
<1> DEFINE r == th[t]
<1>1. /\ r \in ThreadState /\ LocalInv(r, key, level) /\ r.pc = "Place"
      /\ UNCHANGED <<forward, key, value, level, allocated, retired>>
  BY Met DEF NoMemory, RemoveAbsent, ReadValue, NoElement, Placed, shared
<1>2. ~Linking(r) /\ ~Retiring(r) /\ \A n \in Tower : ~Marking(r, n)
  BY <1>1 DEF LocalInv, CallInv, Linking, Retiring, Marking
<1>3. Success \in Outcome /\ Absent \in Outcome /\ Failure \in Outcome /\ Value \subseteq Outcome
  BY DEF Outcome
<1>4. ASSUME NEW o \in Outcome, NEW s \in {Ending(r), Ending([r EXCEPT !.out = o])},
             Goes(t, s), r.op = "search" => Become(t, s)
      PROVE  Shape' /\ MapStays
  BY <1>1, <1>2, <1>4, EndingShape
<1>5. CASE NoMemory(t) \/ NoElement(t)
  BY <1>3, <1>4, <1>5 DEF NoMemory, NoElement, Goes
<1>6. CASE RemoveAbsent(t)
  BY <1>3, <1>4, <1>6 DEF RemoveAbsent, Placed, Goes
<1>7. CASE ReadValue(t)
  <2>1. value[r.succs[0]] \in Value \cup {Absent}
    BY <1>1, <1>7 DEF ReadValue, Placed, Found, ThreadState, Pointer, Inv, TypeOK
  <2>. QED
    BY <1>3, <1>4, <1>7, <2>1 DEF ReadValue, Goes
<1>. QED
  BY <1>5, <1>6, <1>7
-----------------------------------------------------------------------------
\* A call goes from one access to its tower to the next.
LEMMA HandStep ==
  ASSUME NEW r \in ThreadState, Tracking(r), NEW s \in ThreadState,
         s.op = r.op, s.key = r.key, s.tower = r.tower, s.lvl = r.lvl,
         s.preds = r.preds, s.succs = r.succs, r.tower # NULL,
         \/ r.pc = "MaxStore" /\ s.pc = "LinkStore"
         \/ r.pc \in {"MarkLoad", "MarkCas"} /\ s.pc \in {"MarkLoad", "MarkCas"}
  PROVE  Tracking(s) /\ Keeps(r, s)
<1>1. /\ Linking(s) = Linking(r) /\ LinkLevel(s) = LinkLevel(r) /\ ~Retiring(r)
      /\ \A n : Marking(s, n) = Marking(r, n)
  BY DEF Linking, LinkLevel, Retiring, Marking, Searching
<1>2. s.pc \notin Searching \cup {"LinkCas", "Place", "Retire"}
  BY DEF Searching
<1>3. CurInv(s) /\ AheadInv(s) /\ StoredInv(s) /\ FindInv(s)
  BY <1>2 DEF CurInv, AheadInv, StoredInv, FindInv, Searching
<1>4. TableInv(s)
  BY <1>1 DEF Tracking, TableInv
<1>5. TowerInv(s)
  BY <1>2 DEF Tracking, TowerInv
<1>. QED
  BY <1>1, <1>3, <1>4, <1>5 DEF Tracking, Keeps

\* Such a step keeps the shape.
LEMMA HandShape ==
  ASSUME Inv, Inv', ApartInv, Shape, NEW t \in Thread, NEW s \in ThreadState,
         Become(t, s), SameCall(th[t], s), th[t].op # "search",
         s.tower = th[t].tower, s.lvl = th[t].lvl,
         s.preds = th[t].preds, s.succs = th[t].succs, th[t].tower # NULL,
         \/ th[t].pc = "MaxStore" /\ s.pc = "LinkStore"
         \/ th[t].pc \in {"MarkLoad", "MarkCas"} /\ s.pc \in {"MarkLoad", "MarkCas"},
         UNCHANGED <<forward, key, value, level, allocated, retired>>
  PROVE  Shape' /\ MapStays
<1>1. th[t] \in ThreadState /\ Tracking(th[t])
  BY Met DEF Shape, Tracks
<1>2. Tracking(s) /\ Keeps(th[t], s)
  BY <1>1, HandStep DEF SameCall
<1>. QED
  BY <1>2, QuietStep DEF SameCall, Goes

\* An insertion raises max_level: the shape stays,
LEMMA MaxStoreShape ==
  ASSUME Inv, Inv', ApartInv, Shape, NEW t \in Thread, MaxStore(t)
  PROVE  Shape' /\ MapStays
<1> DEFINE r == th[t]
           s == [r EXCEPT !.pc = "LinkStore"]
<1>1. /\ r \in ThreadState /\ LocalInv(r, key, level) /\ r.pc = "MaxStore" /\ Become(t, s)
      /\ UNCHANGED <<forward, key, value, level, allocated, retired>>
  BY Met DEF MaxStore
<1>2. /\ s \in ThreadState /\ s.pc = "LinkStore" /\ SameCall(r, s)
      /\ s.tower = r.tower /\ s.lvl = r.lvl /\ s.preds = r.preds /\ s.succs = r.succs
  BY <1>1 DEF SameCall, ThreadState
<1> HIDE DEF s
<1>3. r.op # "search" /\ r.tower # NULL
  BY <1>1 DEF LocalInv, CallInv
<1>. QED
  BY <1>1, <1>2, <1>3, HandShape

\* as it does when a removal reads the pointer to mark.
LEMMA MarkLoadShape ==
  ASSUME Inv, Inv', ApartInv, Shape, NEW t \in Thread, MarkLoad(t)
  PROVE  Shape' /\ MapStays
<1> USE Constants
<1> DEFINE r == th[t]
           now == forward[r.tower][r.lvl]
           link == IF r.lvl = 0 THEN Unmarked(now.to) ELSE now
           s == [r EXCEPT !.pc = "MarkCas", !.link = link]
<1>1. /\ r \in ThreadState /\ LocalInv(r, key, level) /\ r.pc = "MarkLoad" /\ Become(t, s)
      /\ UNCHANGED <<forward, key, value, level, allocated, retired>>
  BY Met DEF MarkLoad, shared
<1>2. r.tower \in Tower /\ r.lvl \in Level /\ r.op # "search" /\ r.tower # NULL
  BY <1>1 DEF LocalInv, CallInv, ThreadState, Pointer
<1>3. link \in Link
  BY <1>2, Met DEF Unmarked, Link
<1> HIDE DEF link
<1>4. /\ s \in ThreadState /\ s.pc = "MarkCas" /\ SameCall(r, s)
      /\ s.tower = r.tower /\ s.lvl = r.lvl /\ s.preds = r.preds /\ s.succs = r.succs
  BY <1>1, <1>3 DEF SameCall, ThreadState
<1> HIDE DEF s
<1>. QED
  BY <1>1, <1>2, <1>4, HandShape

\* The mark is not set: somebody else has changed the pointer.
LEMMA MarkFailsShape ==
  ASSUME Inv, Inv', ApartInv, Shape, NEW t \in Thread, MarkCas(t),
         CasFails(th[t].tower, th[t].lvl, th[t].link)
  PROVE  Shape' /\ MapStays
<1> USE Constants
<1> DEFINE r == th[t]
<1>1. /\ r \in ThreadState /\ LocalInv(r, key, level) /\ r.pc = "MarkCas"
      /\ UNCHANGED <<forward, key, value, level, allocated, retired>>
  BY Met DEF MarkCas, CasFails
<1>2. r.op = "remove" /\ r.tower # NULL
  BY <1>1 DEF LocalInv, CallInv
<1>3. CASE forward[r.tower][0].marked /\ TakeEffect(t, Ending(r))
  <2>1. Success \in Outcome
    BY DEF Outcome
  <2>2. ~Linking(r) /\ ~Retiring(r) /\ \A n \in Tower : Marking(r, n) => forward[n][0].marked
    BY <1>1, <1>2, <1>3 DEF Linking, Retiring, Marking, Searching
  <2>3. Goes(t, Ending(r))
    BY <1>3 DEF Goes
  <2>. QED
    BY <1>1, <1>2, <2>1, <2>2, <2>3, EndingShape
<1>4. CASE Become(t, [r EXCEPT !.pc = "MarkLoad"])
  <2> DEFINE s == [r EXCEPT !.pc = "MarkLoad"]
  <2>1. /\ s \in ThreadState /\ s.pc = "MarkLoad" /\ SameCall(r, s)
        /\ s.tower = r.tower /\ s.lvl = r.lvl /\ s.preds = r.preds /\ s.succs = r.succs
    BY <1>1 DEF SameCall, ThreadState
  <2>2. Become(t, s)
    BY <1>4
  <2> HIDE DEF s
  <2>. QED
    BY <1>1, <1>2, <2>1, <2>2, HandShape
<1>. QED
  BY <1>3, <1>4 DEF MarkCas, Cas, CasFails

\* A search starts again, in the same list.
LEMMA RefillShape ==
  ASSUME Inv, Inv', ApartInv, Shape, NEW t \in Thread, NEW from, NEW to,
         MayRefill(th[t], from, to), th[t].pc # "MarkCas", Retiring(th[t]) => from = TopLevel,
         th[t].op = "remove" => to = 0 /\ from = TopLevel,
         Become(t, Fill(th[t], from, to)),
         UNCHANGED <<forward, key, value, level, allocated, retired>>
  PROVE  Shape' /\ MapStays
<1> DEFINE r == th[t]
           s == Fill(r, from, to)
<1>1. r \in ThreadState /\ LocalInv(r, key, level) /\ Tracking(r) /\ LinkedInv
  BY Met DEF Shape, Tracks, ListInv
<1>2. Started(s, r, from, to) /\ Become(t, s)
  BY <1>1, FillStep DEF MayRefill
<1> HIDE DEF s
<1>3. r.pc \in Searching \cup {"LinkCas"} /\ r.pc \notin {"Idle", "Return"}
  BY DEF MayRefill, Searching
<1>4. /\ s \in ThreadState /\ s.op = r.op /\ s.tower = r.tower /\ s.pc = "Load" /\ s.to = to
      /\ s.from = from /\ s.key = r.key
  BY <1>2 DEF Started
<1>5. Linking(s) = Linking(r) /\ (Linking(r) => LinkLevel(s) = LinkLevel(r))
      /\ \A n \in Tower : ~Marking(r, n)
  BY <1>3, <1>4 DEF Linking, LinkLevel, Marking, MayRefill, Searching
<1>6. /\ Retiring(r) => Retiring(s)
      /\ Retiring(s) => Retiring(r)
  <2>1. r.pc = "LinkCas" => r.op = "insert"
    BY <1>1 DEF LocalInv, CallInv
  <2>. QED
    BY <1>3, <1>4, <2>1 DEF Retiring, Searching
<1>7. Fresh(s)
  BY <1>2, <1>6 DEF Fresh, Started
<1>8. TowerInv(s)
  BY <1>1, <1>3, <1>4 DEF Tracking, TowerInv, Searching
<1>9. Tracking(s)
  BY <1>1, <1>4, <1>7, <1>8, FreshTracks
<1>10. Keeps(r, s)
  BY <1>4, <1>5, <1>6 DEF Keeps
<1>11. SameCall(r, s)
  BY <1>2 DEF SameCall, Started
<1>. QED
  BY <1>2, <1>3, <1>4, <1>9, <1>10, <1>11, QuietStep DEF SameCall, Goes

\* A compare-and-swap that was to unlink fails: the search starts again, and the shape stays,
LEMMA UnlinkFailsShape ==
  ASSUME Inv, Inv', ApartInv, Shape, NEW t \in Thread, Unlink(t),
         UNCHANGED forward, Become(t, Reset(th[t]))
  PROVE  Shape' /\ MapStays
<1> DEFINE r == th[t]
<1>1. /\ r \in ThreadState /\ LocalInv(r, key, level) /\ r.pc = "Unlink" /\ TowerInv(r)
      /\ UNCHANGED <<forward, key, value, level, allocated, retired>>
  BY Met DEF Unlink, Shape, Tracks, Tracking
<1>2. r = [r EXCEPT !.from = r.from, !.to = r.to]
  BY <1>1 DEF ThreadState
<1>3. Become(t, Fill(r, r.from, r.to))
  BY <1>2 DEF Fill
<1>4. r.pc \in Searching
  BY <1>1 DEF Searching
<1>5. /\ r.from \in Level /\ r.to \in Level /\ r.to <= r.from /\ (r.tower = NULL => r.to = 0)
      /\ Linking(r) => r.to = LinkLevel(r)
  BY <1>1, <1>4, Fields DEF LocalInv, CallInv, LinkLevel
<1>6. MayRefill(r, r.from, r.to)
  BY <1>4, <1>5 DEF MayRefill
<1>7. r.op = "remove" => r.to = 0 /\ r.from = TopLevel
  BY <1>1, <1>4 DEF TowerInv
<1>. QED
  BY <1>1, <1>3, <1>6, <1>7, RefillShape DEF Retiring

\* as it does when one that was to link fails, and the tables are filled again.
LEMMA LinkFailsShape ==
  ASSUME Inv, Inv', ApartInv, Shape, NEW t \in Thread, LinkCas(t),
         UNCHANGED forward, Become(t, Refill(th[t]))
  PROVE  Shape' /\ MapStays
<1> USE Constants
<1> DEFINE r == th[t]
<1>1. /\ r \in ThreadState /\ LocalInv(r, key, level) /\ r.pc = "LinkCas"
      /\ UNCHANGED <<forward, key, value, level, allocated, retired>>
  BY Met DEF LinkCas
<1>2. r.tower # NULL /\ r.op = "insert" /\ r.lvl \in Level
  BY <1>1, Fields DEF LocalInv, CallInv
<1>3. MayRefill(r, TopLevel, r.lvl)
  BY <1>1, <1>2 DEF MayRefill, LinkLevel, Searching, Level
<1>. QED
  BY <1>1, <1>2, <1>3, RefillShape DEF Refill, Retiring

\* A new value for a key of the map keeps the shape.
LEMMA UpdateShape ==
  ASSUME Inv, Inv', ApartInv, Shape, NEW t \in Thread, UpdateValue(t)
  PROVE  Shape' /\ \A k \in Key : Map'[k] = IF k = th[t].key THEN th[t].val ELSE Map[k]
<1> USE Constants
<1> DEFINE r == th[t]
           n == r.succs[0]
           s == Ending(r)
<1>1. /\ r \in ThreadState /\ LocalInv(r, key, level) /\ r.pc = "Place" /\ r.op = "insert"
      /\ TakeEffect(t, s) /\ Found(r) /\ TableInv(r) /\ SeenInv(r)
      /\ UNCHANGED <<forward, key, level, allocated, retired>>
      /\ value' = [value EXCEPT ![n] = r.val]
  BY Met DEF UpdateValue, Placed, Shape, Tracks, Tracking
<1>2. n \in Tower /\ key[n] = r.key /\ n \in Live /\ r.tower = NULL /\ r.key \in Key
  <2>1. n \in Tower /\ key[n] = r.key /\ r.tower = NULL
    BY <1>1, Fields DEF Found, Pointer, LocalInv, CallInv
  <2>2. n \in Joined[0] /\ ~forward[n][0].marked
    BY <1>1, <2>1 DEF TableInv
  <2>. QED
    BY <1>1, <2>1, <2>2 DEF Live, SeenInv
<1>3. /\ value \in [Tower -> Value \cup {Absent}] /\ r.val \in Value \cup {Absent}
      /\ TypeOK /\ TypeOK' /\ ListInv
  BY <1>1 DEF Inv, TypeOK, ThreadState, Shape
<1>4. value'[n] = r.val /\ \A m \in Tower : m # n => value'[m] = value[m]
  BY <1>1, <1>2, <1>3
<1>5. Success \in Outcome
  BY DEF Outcome
<1>6. /\ Tracking(s) /\ s \in ThreadState /\ s.pc = "Return" /\ s.op = r.op
      /\ s.key = r.key /\ s.val = r.val /\ s.tower = r.tower /\ ~Linking(s)
  BY <1>1, <1>5, EndingTracks
<1> HIDE DEF s
<1>7. ~Linking(r) /\ ~Retiring(r) /\ \A m \in Tower : ~Marking(r, m)
  BY <1>1, <1>2 DEF Linking, Retiring, Marking
<1>8. Keeps(r, s)
  BY <1>6, <1>7 DEF Keeps, Linking
<1>9. Goes(t, s)
  BY <1>1 DEF Goes
<1>10. /\ Others(t) /\ Alike(th'[t], s) /\ th'[t].val = s.val
       /\ \A u \in Thread \ {t} : th[u].op = "search" /\ th[u].key = s.key => s.val \in th'[u].results
  BY <1>1, <1>3, <1>6, <1>9, NearStep
<1>11. Still(t)
  BY <1>1, <1>6, <1>8, <1>9, StillStep
<1>12. Frame(t) /\ ListInv' /\ Live' = Live /\ \A l \in Level : Joined'[l] = Joined[l]
  BY <1>11, StillLinks
<1>13. \A k \in Key : Map'[k] = IF k = r.key THEN r.val ELSE Map[k]
  <2>1. Held'
    BY <1>3, <1>12, HeldNext DEF ListInv
  <2>2. Map'[r.key] = r.val
    BY <1>1, <1>2, <1>4, <1>12, <2>1 DEF Held
  <2>3. ASSUME NEW k \in Key, k # r.key
        PROVE  Map'[k] = Map[k]
    <3>1. \A m \in Live : key[m] = k => value'[m] = value[m]
      BY <1>2, <1>4, <2>3 DEF Live
    <3>. QED
      BY <1>1, <1>3, <1>12, <3>1, MapKept
  <2>. QED
    BY <2>2, <2>3
<1>14. \A u \in Thread \ {t} : SeenInv(th[u])'
  BY <1>6, <1>10, <1>13, OthersSee
<1>15. \A u \in Thread \ {t} : ValueInv(th[u])'
  <2>1. ASSUME NEW u \in Thread \ {t}, Unlinked(th[u])
        PROVE  th[u].tower \in Tower /\ th[u].tower # n
    <3>1. th[u].tower \in Tower
      BY <2>1, Met, Fields DEF Unlinked, Linking, Pointer
    <3>2. Private(th[u].tower)
      BY <2>1 DEF Private
    <3>3. ~Private(n)
      BY <1>2, Met DEF Refers
    <3>. QED
      BY <3>1, <3>2, <3>3
  <2>. QED
    BY <1>4, <1>10, <2>1, OthersValue
<1>16. Tracking(th[t])'
  BY <1>1, <1>6, <1>10, <1>12, StillTracks
<1>17. /\ th'[t].pc = "Return" /\ th'[t].op = "insert" /\ th'[t].key = r.key /\ th'[t].val = r.val
  BY <1>1, <1>6, <1>10 DEF Alike
<1>18. SeenInv(th[t])'
  BY <1>1, <1>17, OwnSeen
<1>19. ValueInv(th[t])'
  BY <1>17 DEF ValueInv, Unlinked, Linking
<1>. QED
  BY <1>12, <1>13, <1>14, <1>15, <1>16, <1>18, <1>19, ShapeStep
-----------------------------------------------------------------------------
\* A call returns: the shape stays,
LEMMA ReturnShape ==
  ASSUME Inv, Inv', ApartInv, Shape, NEW t \in Thread, Return(t)
  PROVE  Shape' /\ MapStays
<1> USE Constants, NoCallType
<1> DEFINE r == th[t]
<1>1. /\ r \in ThreadState /\ r.pc = "Return" /\ Become(t, NoCall)
      /\ UNCHANGED <<forward, key, value, level, allocated, retired>>
  BY Met DEF Return, shared
<1>2. ~Linking(NoCall) /\ ~Linking(r) /\ ~Retiring(r) /\ \A n \in Tower : ~Marking(r, n)
  BY <1>1 DEF Linking, Retiring, Marking, Searching
<1>3. Keeps(r, NoCall)
  BY <1>2 DEF Keeps, Linking
<1>4. TableInv(NoCall)
  <2>1. \A l \in Level : NoCall.preds[l] = Header /\ NoCall.succs[l] = NULL
    BY DEF NoCall
  <2>. QED
    BY <2>1 DEF TableInv, Before, Joined
<1>5. Tracking(NoCall)
  BY <1>4, RestTracks
<1>6. SeenInv(NoCall)
  BY DEF SeenInv
<1>7. Goes(t, NoCall)
  BY <1>1 DEF Goes
<1>8. Still(t)
  BY <1>1, <1>3, <1>7, StillStep
<1>. QED
  BY <1>1, <1>2, <1>5, <1>6, <1>7, <1>8, StillShape DEF Unlinked

\* as it does when a call begins with a search.
LEMMA BeginShape ==
  ASSUME Inv, Inv', ApartInv, Shape, NEW t \in Thread, NEW c \in Calls[t], BeginCall(t, c)
  PROVE  Shape' /\ MapStays
<1> USE Constants
<1>1. /\ c \in Call /\ c.op \in {"insert", "remove", "search"} /\ c.key \in Int
      /\ c.val \in Value \cup {Absent} /\ c.key \in Key
      /\ c.op \in {"remove", "search"} => c.val = Absent
  <2>1. c \in Call
    OBVIOUS
  <2>. QED
    BY <2>1 DEF Call, Key
<1>2. PICK rs \in SUBSET Outcome, from \in Level :
        /\ Begin(t, c, rs, from)
        /\ c.op = "remove" => from = TopLevel
        /\ c.op = "search" => ValueOf(c.key) \in rs
  <2>1. {Failure} \subseteq Outcome /\ {} \subseteq Outcome
    BY DEF Outcome
  <2>2. {ValueOf(c.key)} \subseteq Outcome
    BY ValueOfType DEF Inv, Outcome
  <2>3. max_level \in Level
    BY DEF Inv, TypeOK
  <2>. QED
    BY <2>1, <2>2, <2>3 DEF BeginCall, BeginInsert, BeginRemove, BeginSearch
<1> DEFINE q == [NoCall EXCEPT !.op = c.op, !.key = c.key, !.val = c.val, !.results = rs]
           s == Fill(q, from, 0)
           r == th[t]
<1>3. /\ q \in ThreadState
      /\ q.op = c.op /\ q.key = c.key /\ q.val = c.val /\ q.results = rs /\ q.tower = NULL
  BY <1>1, NoCallType DEF ThreadState
<1> HIDE DEF q
<1>4. Started(s, q, from, 0)
  <2>1. 0 \in Level /\ 0 <= from
    BY DEF Level
  <2>. QED
    BY <1>3, <2>1, FillStep
<1>5. /\ r \in ThreadState /\ r.pc = "Idle" /\ Become(t, s) /\ SeenInv(r) /\ LinkedInv
      /\ UNCHANGED <<forward, key, value, level, allocated, retired>>
  BY <1>2, Met DEF Begin, s, q, shared, Shape, Tracks, ListInv
<1> HIDE DEF s
<1>6. /\ s \in ThreadState /\ s.op = c.op /\ s.key = c.key /\ s.val = c.val /\ s.results = rs
      /\ s.tower = NULL /\ s.pc = "Load" /\ s.to = 0 /\ s.from = from
  BY <1>3, <1>4 DEF Started
<1>7. r.op = "none"
  BY <1>5 DEF SeenInv
<1>8. /\ ~Linking(r) /\ ~Retiring(r) /\ \A n \in Tower : ~Marking(r, n)
      /\ ~Linking(s) /\ ~Retiring(s)
  BY <1>5, <1>6, <1>7 DEF Linking, Retiring, Marking
<1>9. Keeps(r, s)
  BY <1>8 DEF Keeps, Linking
<1>10. Fresh(s)
  BY <1>4, <1>8 DEF Fresh, Started
<1>11. TowerInv(s)
  BY <1>2, <1>6 DEF TowerInv
<1>12. Tracking(s)
  BY <1>5, <1>6, <1>10, <1>11, FreshTracks
<1>13. SeenInv(s)
  BY <1>1, <1>2, <1>6 DEF SeenInv, Map
<1>14. Goes(t, s)
  BY <1>5 DEF Goes
<1>15. Still(t)
  BY <1>5, <1>6, <1>9, <1>14, StillStep
<1>. QED
  BY <1>5, <1>6, <1>8, <1>12, <1>13, <1>14, <1>15, StillShape DEF Unlinked

\* What is handed to add_to_reclaim_list is out of every level: the search before it unlinked it.
LEMMA RetireShape ==
  ASSUME Inv, Inv', ApartInv, Shape, NEW t \in Thread, Retire(t)
  PROVE  Shape' /\ MapStays
<1> USE Constants
<1> DEFINE r == th[t]
           s == Ending(r)
<1>1. /\ r \in ThreadState /\ LocalInv(r, key, level) /\ r.pc = "Retire" /\ Become(t, s)
      /\ UNCHANGED <<forward, key, value, level, allocated, max_level>>
      /\ retired' = retired \cup {r.tower} /\ TableInv(r) /\ FindInv(r) /\ SeenInv(r)
  BY Met DEF Retire, Shape, Tracks, Tracking
<1>2. Retiring(r) /\ r.tower \in Tower /\ r.op = "remove"
  BY <1>1, Fields DEF LocalInv, CallInv, Retiring, Pointer
<1>3. \A l \in Level : ~InList(r.tower, l)
  BY <1>1, <1>2 DEF FindInv, Target
<1>4. Success \in Outcome
  BY DEF Outcome
<1>5. /\ Tracking(s) /\ s \in ThreadState /\ s.pc = "Return" /\ s.op = r.op
      /\ s.key = r.key /\ s.val = r.val /\ s.tower = r.tower /\ ~Linking(s)
  BY <1>1, <1>4, EndingTracks
<1> HIDE DEF s
<1>6. SeenInv(s)
  BY <1>1, <1>2, <1>5 DEF SeenInv
<1>7. Goes(t, s)
  BY <1>1 DEF Goes
<1>8. Others(t) /\ Alike(th'[t], s)
  BY <1>5, <1>7, NearStep DEF Inv
<1>9. ~Linking(r) /\ ~Linking(th'[t]) /\ \A n \in Tower : ~Marking(r, n)
  BY <1>1, <1>2, <1>5, <1>8 DEF Linking, Marking, Alike
<1>10. Still(t)
  BY <1>1, <1>2, <1>3, <1>8, <1>9 DEF Still, Linking, Shape, ListInv, GoneInv
<1>. QED
  BY <1>1, <1>2, <1>5, <1>6, <1>7, <1>10, StillShape DEF Unlinked
-----------------------------------------------------------------------------
(***************************************************************************)
(* A removal marks its tower on a level.                                   *)
(***************************************************************************)
\* A tower in the hands of a removal is linked on all its levels.
LEMMA RemovedJoined ==
  ASSUME Inv, ApartInv, NEW t \in Thread, th[t].op = "remove", th[t].tower # NULL,
         NEW l \in Level, l <= level[th[t].tower]
  PROVE  th[t].tower \in Joined[l]
<1> USE Constants
<1>1. /\ th[t].tower \in Tower /\ th[t].tower <= allocated /\ key[th[t].tower] = th[t].key
  BY Met, Fields DEF Inv, PrivateInv, LocalInv, CallInv, Pointer
<1>2. ASSUME NEW u \in Thread, Linking(th[u]), th[u].tower = th[t].tower
      PROVE  FALSE
  <2>1. u # t /\ th[u].op = "insert" /\ th[u].tower # NULL
    BY <1>2 DEF Linking
  <2>2. key[th[u].tower] = th[u].key
    BY <2>1, Met DEF LocalInv, CallInv
  <2>. QED
    BY <1>1, <1>2, <2>1, <2>2, Alone
<1>. QED
  BY <1>1, <1>2 DEF Joined

\* The mark of x on level l is set, or was.
MarksAt(x, l) ==
  /\ forward' \in Pointers
  /\ \A n \in Node, j \in Level : n # x \/ j # l => forward'[n][j] = forward[n][j]
  /\ forward'[x][l].marked /\ forward'[x][l].to = forward[x][l].to
  /\ forward[x][l].marked => forward'[x][l] = forward[x][l]

\* A compare-and-swap that sets the mark does no more.
LEMMA MarkWrites ==
  ASSUME Inv, NEW x \in Tower, NEW l \in Level, NEW link, Cas(x, l, link, Marked(link.to))
  PROVE  MarksAt(x, l)
<1> USE Constants
<1> DEFINE new == Marked(link.to)
<1>1. forward \in Pointers /\ forward[x][l] = link /\ link \in Link
  BY ListTypes, Met DEF Inv, Cas
<1>2. new \in Link /\ new.marked /\ new.to = link.to /\ (link.marked => new = link)
  BY <1>1 DEF Marked, Link
<1>3. forward' = [forward EXCEPT ![x][l] = new]
  BY DEF Cas
<1> HIDE DEF new
<1>4. x \in Node
  OBVIOUS
<1>5. forward' \in Pointers
  <2>1. forward \in Pointers /\ new \in Link
    BY <1>1, <1>2
  <2>. QED
    BY ONLY <1>3, <1>4, <2>1, l \in Level, Written
<1>6. forward'[x][l] = new
  BY ONLY <1>1, <1>2, <1>3, <1>4, l \in Level DEF Pointers
<1>7. \A n \in Node, j \in Level : n # x \/ j # l => forward'[n][j] = forward[n][j]
  BY ONLY <1>1, <1>2, <1>3, <1>4, l \in Level, Written
<1>. QED
  BY ONLY <1>1, <1>2, <1>5, <1>6, <1>7 DEF MarksAt

\* The list after a mark: what is marked on the bottom level leaves the map.
LEMMA MarkedLinks ==
  ASSUME Inv, ApartInv, Shape, NEW t \in Thread, th[t].pc = "MarkCas",
         NEW x \in Tower, x = th[t].tower, NEW l \in Level, l = th[t].lvl, MarksAt(x, l),
         Others(t), UNCHANGED <<key, level, allocated, retired>>,
         th'[t].op = "remove", th'[t].tower = x,
         IF l = 0 THEN th'[t].pc = "Load" ELSE th'[t].pc = "MarkLoad"
  PROVE  /\ Frame(t) /\ ListInv' /\ \A j \in Level : Joined'[j] = Joined[j]
         /\ Live' = IF l = 0 THEN Live \ {x} ELSE Live
<1> USE Constants
<1> DEFINE r == th[t]
<1>1. r \in ThreadState /\ LocalInv(r, key, level) /\ TowerInv(r) /\ ListInv /\ TypeOK
  BY Met DEF Shape, Tracks, Tracking, Inv
<1>2. r.op = "remove" /\ r.tower # NULL
  BY <1>1 DEF LocalInv, CallInv
<1>3. /\ l <= level[x] /\ level[x] \in Level
      /\ \A j \in Level : l < j /\ j <= level[x] => forward[x][j].marked
  BY <1>1, ListTypes DEF TowerInv
<1>4. x \in Joined[l] /\ x \in Joined[0]
  <2>1. 0 <= level[x]
    BY <1>3 DEF Level
  <2>. QED
    BY <1>2, <1>3, <2>1, RemovedJoined
<1>5. /\ ~Linking(r) /\ ~Linking(th'[t]) /\ ~Retiring(r)
      /\ IF l = 0 THEN Retiring(th'[t]) ELSE Marking(th'[t], x)
      /\ \A n : Marking(r, n) => n = x
  BY <1>2 DEF Linking, Retiring, Marking, Searching
<1>6. \A j \in Level : Joined'[j] = Joined[j]
  BY <1>5, JoinedSame DEF Linking
<1>7. Marks(t)
  <2>1. \A j \in Level : ~forward'[Header][j].marked
    BY <1>1 DEF MarksAt, ListInv, HeaderInv
  <2>2. ASSUME NEW n \in Tower, NEW j \in Level
        PROVE  /\ forward[n][j].marked => forward'[n][j] = forward[n][j]
               /\ forward'[n][j].marked /\ ~forward[n][j].marked => n = x /\ j = l
    BY DEF MarksAt
  <2>3. \A n \in Tower : Marking(r, n) => Marking(th'[t], n) \/ forward'[n][0].marked
    BY <1>5 DEF MarksAt
  <2>. QED
    BY <1>2, <1>3, <1>4, <1>5, <2>1, <2>2, <2>3 DEF Marks
<1>8. \A n \in Node, j \in Level : forward'[n][j].to = forward[n][j].to
  BY DEF MarksAt
<1>9. \A n \in Tower, j \in Level : forward'[n][j] # forward[n][j] => n \in Joined[j]
  BY <1>4 DEF MarksAt
<1>10. \A n \in retired', j \in Level : ~InList(n, j)
  BY <1>1 DEF ListInv, GoneInv
<1>11. Frame(t) /\ ListInv'
  BY <1>6, <1>7, <1>8, <1>9, <1>10, SameLinks DEF MarksAt
<1>12. Live' = IF l = 0 THEN Live \ {x} ELSE Live
  <2>1. \A n \in Tower : n \in Live' <=> n \in Joined[0] /\ ~forward'[n][0].marked
    BY <1>6 DEF Live
  <2>2. \A n \in Tower : n \in Live <=> n \in Joined[0] /\ ~forward[n][0].marked
    BY DEF Live
  <2>3. Live \subseteq Tower /\ Live' \subseteq Tower
    BY DEF Live
  <2>4. \A n \in Tower : n # x \/ l # 0 => forward'[n][0] = forward[n][0]
    BY DEF MarksAt
  <2>5. l = 0 => forward'[x][0].marked
    BY DEF MarksAt
  <2>6. CASE l = 0
    <3>1. \A n \in Tower : n \in Live' <=> n \in Live /\ n # x
      BY ONLY <2>1, <2>2, <2>4, <2>5, <2>6
    <3>. QED
      BY ONLY <2>3, <2>6, <3>1
  <2>7. CASE l # 0
    <3>1. \A n \in Tower : n \in Live' <=> n \in Live
      BY ONLY <2>1, <2>2, <2>4, <2>7
    <3>. QED
      BY ONLY <2>3, <2>7, <3>1
  <2>. QED
    BY <2>6, <2>7
<1>. QED
  BY <1>6, <1>11, <1>12

\* Without the bottom mark, the map stays.
LEMMA MarkOnShape ==
  ASSUME Inv, Inv', ApartInv, Shape, NEW t \in Thread, MarkCas(t), th[t].lvl # 0,
         Cas(th[t].tower, th[t].lvl, th[t].link, Marked(th[t].link.to)),
         Become(t, [th[t] EXCEPT !.pc = "MarkLoad", !.lvl = @ - 1])
  PROVE  Shape' /\ MapStays
<1> USE Constants
<1> DEFINE r == th[t]
           s == [r EXCEPT !.pc = "MarkLoad", !.lvl = r.lvl - 1]
<1>1. /\ r \in ThreadState /\ LocalInv(r, key, level) /\ Tracking(r) /\ SeenInv(r)
      /\ r.pc = "MarkCas" /\ UNCHANGED <<key, value, level, allocated, max_level, retired>>
      /\ TypeOK /\ TypeOK' /\ ListInv
  BY Met DEF MarkCas, Shape, Tracks, Inv
<1>2. /\ r.tower \in Tower /\ r.lvl \in Level /\ r.op = "remove" /\ r.tower # NULL
      /\ r.lvl - 1 \in Level /\ level[r.tower] \in Level
  <2>1. r.tower \in Tower /\ r.op = "remove" /\ r.tower # NULL
    BY <1>1, Fields DEF LocalInv, CallInv, Pointer
  <2>2. r.lvl \in Level /\ r.lvl # 0
    BY <1>1, Fields
  <2>3. r.lvl - 1 \in Level
    BY <2>2 DEF Level
  <2>4. level[r.tower] \in Level
    BY <1>1, <2>1, ListTypes
  <2>. QED
    BY <2>1, <2>2, <2>3, <2>4
<1>3. /\ s \in ThreadState /\ s.pc = "MarkLoad" /\ SameCall(r, s) /\ s.lvl = r.lvl - 1
      /\ s.tower = r.tower /\ s.preds = r.preds /\ s.succs = r.succs
  BY <1>1, <1>2 DEF SameCall, ThreadState
<1>4. Become(t, s)
  BY <1>1 DEF ThreadState
<1> HIDE DEF s
<1>5. th'[t] = s /\ Others(t)
  BY <1>1, <1>3, <1>4, NearStep DEF Goes
<1>6. MarksAt(r.tower, r.lvl)
  BY <1>2, MarkWrites
<1>7. /\ Frame(t) /\ ListInv' /\ \A j \in Level : Joined'[j] = Joined[j]
      /\ Live' = Live
  BY <1>1, <1>2, <1>3, <1>5, <1>6, MarkedLinks DEF SameCall
<1>8. \A k \in Key : Map'[k] = Map[k]
  BY <1>1, <1>7, StillMap
<1>9. \A u \in Thread \ {t} : SeenInv(th[u])'
  BY <1>5, <1>8, OthersSee
<1>10. \A u \in Thread \ {t} : ValueInv(th[u])'
  BY <1>1, <1>5, OthersValue
<1>11. /\ th'[t].pc = "MarkLoad" /\ th'[t].op = "remove" /\ th'[t].key = r.key
       /\ th'[t].val = r.val /\ th'[t].tower = r.tower /\ th'[t].lvl = r.lvl - 1
       /\ th'[t].preds = r.preds /\ th'[t].succs = r.succs
  BY <1>2, <1>3, <1>5 DEF SameCall
<1>12. SeenInv(th[t])'
  BY <1>1, <1>2, <1>11, OwnSeen
<1>13. ValueInv(th[t])'
  BY <1>11 DEF ValueInv, Unlinked, Linking
<1>14. CurInv(th[t])' /\ AheadInv(th[t])' /\ StoredInv(th[t])' /\ FindInv(th[t])'
  BY <1>11 DEF CurInv, AheadInv, StoredInv, FindInv, Searching
<1>15. TableInv(th[t])'
  BY <1>1, <1>2, <1>7, <1>11 DEF Tracking, TableInv, Before, Linking
<1>16. TowerInv(th[t])'
  <2>1. \A n \in Tower : n \in Live' /\ key'[n] = r.key => n = r.tower
    BY <1>1, <1>2, <1>7 DEF Tracking, TowerInv
  <2>2. \A j \in Level : r.lvl < j /\ j <= level[r.tower] => forward[r.tower][j].marked
    BY <1>1 DEF Tracking, TowerInv
  <2>3. r.lvl <= level[r.tower]
    BY <1>1, SMTT(30) DEF Tracking, TowerInv
  <2>4. \A j \in Level : r.lvl - 1 < j /\ j <= level[r.tower] => forward'[r.tower][j].marked
    <3> SUFFICES ASSUME NEW j \in Level, r.lvl - 1 < j, j <= level[r.tower]
                 PROVE  forward'[r.tower][j].marked
      OBVIOUS
    <3>1. j = r.lvl \/ r.lvl < j
      BY <1>2 DEF Level
    <3>. QED
      BY <1>2, <1>6, <2>2, <3>1 DEF MarksAt
  <2>5. r.lvl - 1 <= level'[r.tower] /\ level' = level
    BY <1>1, <1>2, <2>3 DEF Level
  <2>. QED
    BY <1>11, <2>1, <2>4, <2>5 DEF TowerInv, Searching
<1>17. Tracking(th[t])'
  BY <1>14, <1>15, <1>16 DEF Tracking
<1>. QED
  BY <1>8, <1>7, <1>9, <1>10, <1>12, <1>13, <1>17, ShapeStep DEF MapStays

\* With the bottom mark, the key is out of the map.
LEMMA MarkBottomShape ==
  ASSUME Inv, Inv', ApartInv, Shape, NEW t \in Thread, MarkCas(t), th[t].lvl = 0,
         Cas(th[t].tower, th[t].lvl, th[t].link, Marked(th[t].link.to)),
         TakeEffect(t, UnlinkTower(th[t]))
  PROVE  Shape' /\ Map'[th[t].key] = Absent
         /\ \A k \in Key \ {th[t].key} : Map'[k] = Map[k]
<1> USE Constants
<1> DEFINE r == th[t]
           s == Fill(r, TopLevel, 0)
<1>1. /\ r \in ThreadState /\ LocalInv(r, key, level) /\ Tracking(r) /\ SeenInv(r)
      /\ r.pc = "MarkCas" /\ UNCHANGED <<key, value, level, allocated, max_level, retired>>
      /\ TypeOK /\ TypeOK' /\ ListInv
  BY Met DEF MarkCas, Shape, Tracks, Inv
<1>2. r.tower \in Tower /\ r.lvl \in Level /\ r.op = "remove" /\ r.tower # NULL /\ r.key \in Key
      /\ r.val = Absent
  BY <1>1, Fields DEF LocalInv, CallInv, Pointer, SeenInv
<1>3. Started(s, r, TopLevel, 0)
  <2>1. 0 <= TopLevel
    OBVIOUS
  <2>. QED
    BY <1>1, <2>1, FillStep
<1>4. TakeEffect(t, s)
  BY DEF UnlinkTower
<1> HIDE DEF s
<1>5. /\ s \in ThreadState /\ s.op = "remove" /\ s.key = r.key /\ s.val = Absent
      /\ s.tower = r.tower /\ s.pc = "Load" /\ s.to = 0 /\ s.from = TopLevel /\ s.lvl = TopLevel
      /\ s.cur = Header /\ \A l \in Level : s.preds[l] = Header /\ s.succs[l] = NULL
  BY <1>2, <1>3 DEF Started
<1>6. /\ Others(t) /\ Alike(th'[t], s) /\ th'[t].val = Absent
      /\ \A u \in Thread \ {t} : th[u].op = "search" /\ th[u].key = r.key => Absent \in th'[u].results
  BY <1>1, <1>4, <1>5, NearStep DEF Goes
<1>7. /\ th'[t].op = "remove" /\ th'[t].key = r.key
      /\ th'[t].tower = r.tower /\ th'[t].pc = "Load" /\ th'[t].to = 0 /\ th'[t].from = TopLevel
      /\ th'[t].lvl = TopLevel
      /\ th'[t].cur = Header
      /\ \A l \in Level : th'[t].preds[l] = Header /\ th'[t].succs[l] = NULL
  BY <1>5, <1>6 DEF Alike
<1>8. MarksAt(r.tower, r.lvl)
  BY <1>2, MarkWrites
<1>9. /\ Frame(t) /\ ListInv' /\ \A j \in Level : Joined'[j] = Joined[j]
      /\ Live' = Live \ {r.tower}
  BY <1>1, <1>2, <1>6, <1>7, <1>8, MarkedLinks
<1>10. \A n \in Tower : n \in Live /\ key[n] = r.key => n = r.tower
  BY <1>1, <1>2 DEF Tracking, TowerInv
<1>11. key[r.tower] = r.key /\ Live \subseteq Tower
  BY <1>1, <1>2 DEF LocalInv, CallInv, Live
<1>12. Map'[r.key] = Absent
  <2>1. Held'
    BY <1>1, <1>9, HeldNext DEF ListInv
  <2>2. \A n \in Live' : key'[n] # r.key
    BY <1>1, <1>9, <1>10, <1>11
  <2>. QED
    BY <1>2, <2>1, <2>2 DEF Held
<1>13. \A k \in Key \ {r.key} : Map'[k] = Map[k]
  BY <1>1, <1>9, <1>11, MapKept
<1>14. \A u \in Thread \ {t} : SeenInv(th[u])'
  BY <1>6, <1>12, <1>13, OthersSee
<1>15. \A u \in Thread \ {t} : ValueInv(th[u])'
  BY <1>1, <1>6, OthersValue
<1>16. SeenInv(th[t])'
  BY <1>1, <1>2, <1>6, <1>7, OwnSeen
<1>17. ValueInv(th[t])'
  BY <1>7 DEF ValueInv, Unlinked, Linking
<1>18. TowerInv(th[t])'
  <2>1. \A n \in Tower : n \in Live' /\ key'[n] = r.key => n = r.tower
    BY <1>1, <1>9, <1>10
  <2>. QED
    BY <1>7, <2>1 DEF TowerInv
<1>19. Fresh(th[t])'
  BY <1>7 DEF Fresh
<1>20. Tracking(th[t])'
  BY <1>1, <1>9, <1>18, <1>19, FreshNext DEF ListInv
<1>. QED
  BY <1>9, <1>12, <1>13, <1>14, <1>15, <1>16, <1>17, <1>20, ShapeStep

\* A mark keeps the shape.
LEMMA MarkShape ==
  ASSUME Inv, Inv', ApartInv, Shape, NEW t \in Thread, MarkCas(t)
  PROVE  Shape'
<1>1. CASE CasFails(th[t].tower, th[t].lvl, th[t].link)
  BY <1>1, MarkFailsShape
<1>2. CASE Cas(th[t].tower, th[t].lvl, th[t].link, Marked(th[t].link.to))
  <2>1. forward[th[t].tower][th[t].lvl] = th[t].link
    BY <1>2 DEF Cas
  <2>2. \/ th[t].lvl = 0 /\ TakeEffect(t, UnlinkTower(th[t]))
        \/ th[t].lvl # 0 /\ Become(t, [th[t] EXCEPT !.pc = "MarkLoad", !.lvl = @ - 1])
    BY <2>1 DEF MarkCas, CasFails
  <2>. QED
    BY <1>2, <2>2, MarkOnShape, MarkBottomShape, Zenon
<1>. QED
  BY <1>1, <1>2 DEF MarkCas
-----------------------------------------------------------------------------
(***************************************************************************)
(* The steps that write where a pointer leads to.                          *)
(***************************************************************************)
\* A write to an unmarked pointer that links nothing leaves the towers in the map.
LEMMA PlainLive ==
  ASSUME NEW p \in Node, NEW l \in Level, NEW q, Rewires(p, l, q), ~forward[p][l].marked,
         Joined'[0] = Joined[0]
  PROVE  Live' = Live
<1>1. \A n \in Tower : forward'[n][0].marked <=> forward[n][0].marked
  BY Constants DEF Rewires
<1>. QED
  BY <1>1 DEF Live

\* A search that unlinks a marked tower still comes to what it must.
LEMMA UnlinkTracks ==
  ASSUME Inv, Shape, NEW t \in Thread, th[t].pc = "Unlink", Frame(t), LinkedInv',
         Live' = Live, \A l \in Level : Joined'[l] = Joined[l], UNCHANGED <<key, level>>,
         \A n \in Node, l \in Level : forward'[n][l].marked => forward[n][l].marked,
         NEW s \in ThreadState, th'[t] = s, s.pc = "Load", SameCall(th[t], s),
         s.tower = th[t].tower, s.lvl = th[t].lvl, s.cur = th[t].cur, s.to = th[t].to,
         s.from = th[t].from, s.preds = th[t].preds, s.succs = th[t].succs
  PROVE  Tracking(th[t])'
<1> USE Constants
<1> DEFINE r == th[t]
<1>1. /\ r \in ThreadState /\ TypeOK /\ CurInv(r) /\ TableInv(r) /\ FindInv(r) /\ TowerInv(r)
      /\ r.lvl \in Level /\ r.pc \in Searching
      /\ \A l \in Level : r.succs[l] \in Pointer
  BY Met, Fields DEF Shape, Tracks, Tracking, Inv, Searching
<1>2. /\ s.op = r.op /\ s.key = r.key /\ s.results = r.results
      /\ Linking(s) = Linking(r) /\ Retiring(s) = Retiring(r) /\ Missed(s) = Missed(r)
  BY <1>1 DEF SameCall, Linking, Retiring, Missed, Searching
<1>3. CurInv(th[t])' /\ AheadInv(th[t])' /\ StoredInv(th[t])'
  BY <1>1, <1>2 DEF CurInv, Before, AheadInv, StoredInv
<1>4. TableInv(th[t])'
  <2>1. \A l \in Level : r.succs[l] # NULL => r.succs[l] \in Node
    BY <1>1 DEF Pointer
  <2>2. \A l \in Level :
          /\ r.preds[l] \in Joined[l] /\ (r.preds[l] = Header \/ key[r.preds[l]] < r.key)
          /\ r.succs[l] # NULL =>
               /\ r.succs[l] \in Joined[l] /\ key[r.succs[l]] >= r.key
               /\ Linking(r) => key[r.succs[l]] # r.key
               /\ r.op = "insert" /\ r.tower = NULL /\ key[r.succs[l]] = r.key
                    => ~forward'[r.succs[l]][l].marked
    BY <1>1, <2>1 DEF TableInv, Before
  <2>3. /\ th[t]' = s /\ s.preds = r.preds /\ s.succs = r.succs /\ s.tower = r.tower
        /\ key' = key /\ \A l \in Level : Joined'[l] = Joined[l]
    OBVIOUS
  <2>. QED
    BY ONLY <1>2, <2>2, <2>3 DEF TableInv, Before
<1>5. FindInv(th[t])'
  <2> SUFFICES ASSUME NEW n \in Tower, NEW l \in Level, Target(th[t], n, l)'
               PROVE  l <= r.lvl /\ n \in Way(forward', l, r.cur)
    BY DEF FindInv, Leads
  <2>1. n \in Way(forward', l, Header)
    BY DEF LinkedInv, Target, Live, InList
  <2>2. Retiring(r) => ~Linking(r)
    BY DEF Retiring, Linking
  <2>3. Target(r, n, l)
    BY <1>2, <2>2 DEF Target, InList, Frame
  <2>4. l <= r.lvl /\ n \in Way(forward, l, r.cur)
    BY <1>1, <2>3 DEF FindInv, Leads
  <2>5. r.cur \in Joined[l]
    BY <1>1, <2>4, JoinedDown DEF CurInv
  <2>. QED
    BY <2>1, <2>4, <2>5 DEF Frame
<1>6. TowerInv(th[t])'
  BY <1>1, <1>2 DEF TowerInv, Searching
<1>. QED
  BY <1>3, <1>4, <1>5, <1>6 DEF Tracking

\* To unlink a marked tower keeps the shape.
LEMMA UnlinkShape ==
  ASSUME Inv, Inv', ApartInv, Shape, NEW t \in Thread, Unlink(t)
  PROVE  Shape' /\ MapStays
<1> USE Constants
<1> DEFINE r == th[t]
           x == r.next
           l == r.lvl
           y == forward[x][l].to
           s == [r EXCEPT !.pc = "Load", !.next = NULL, !.link = NoCall.link]
<1>1. CASE UNCHANGED forward /\ Become(t, Reset(r))
  BY <1>1, UnlinkFailsShape
<1>2. CASE Cas(r.cur, l, Unmarked(x), Unmarked(r.link.to)) /\ Become(t, s)
  <2>1. /\ r \in ThreadState /\ LocalInv(r, key, level) /\ r.pc = "Unlink"
        /\ CurInv(r) /\ AheadInv(r) /\ SeenInv(r) /\ ValueInv(r) /\ ListInv /\ TypeOK /\ TypeOK'
        /\ UNCHANGED <<key, value, level, allocated, max_level, retired>>
    BY Met DEF Unlink, Shape, Tracks, Tracking, Inv
  <2>2. /\ r.cur \in Node /\ x \in Tower /\ l \in Level /\ r.cur \in Joined[l] /\ x \in Joined[l]
        /\ forward[x][l] = r.link /\ forward[x][l].marked
    BY <2>1, Fields DEF LocalInv, Pointer, CurInv, AheadInv, Searching
  <2>3. /\ forward[r.cur][l] = Unmarked(x) /\ ~forward[r.cur][l].marked /\ y \in Pointer
        /\ forward' = [forward EXCEPT ![r.cur][l] = Unmarked(y)]
    BY <1>2, <2>2, Met DEF Cas, Unmarked
  <2>4. /\ s \in ThreadState /\ s.pc = "Load" /\ SameCall(r, s)
        /\ s.tower = r.tower /\ s.lvl = r.lvl /\ s.cur = r.cur /\ s.to = r.to
        /\ s.from = r.from /\ s.preds = r.preds /\ s.succs = r.succs
    BY <2>1, NoCallType DEF SameCall, ThreadState
  <2> HIDE DEF s
  <2>5. Others(t) /\ th'[t] = s
    BY <1>2, <2>1, <2>4, NearStep DEF Goes
  <2>6. /\ Linking(th'[t]) = Linking(r) /\ LinkLevel(th'[t]) = LinkLevel(r)
        /\ Retiring(th'[t]) = Retiring(r) /\ \A n : ~Marking(r, n)
    BY <2>1, <2>4, <2>5 DEF SameCall, Linking, LinkLevel, Retiring, Marking, Searching
  <2>7. \A j \in Level : Joined'[j] = Joined[j]
    BY <2>1, <2>4, <2>5, <2>6, JoinedSame
  <2>8. Marks(t)
    BY <2>1, <2>2, <2>3, <2>4, <2>5, <2>6, PlainMarks
  <2>9. Frame(t) /\ ListInv'
    BY <2>1, <2>2, <2>3, <2>5, <2>7, <2>8, UnlinkLinks
  <2>10. Rewires(r.cur, l, y)
    BY <2>1, <2>2, <2>3, Rewired
  <2>11. Live' = Live
    BY <2>2, <2>3, <2>7, <2>10, PlainLive
  <2>12. \A k \in Key : Map'[k] = Map[k]
    BY <2>1, <2>9, <2>11, StillMap
  <2>13. \A u \in Thread \ {t} : SeenInv(th[u])'
    BY <2>5, <2>12, OthersSee
  <2>14. \A u \in Thread \ {t} : ValueInv(th[u])'
    BY <2>1, <2>5, OthersValue
  <2>15. \A n \in Node, j \in Level : forward'[n][j].marked => forward[n][j].marked
    BY <2>10 DEF Rewires
  <2>16. Tracking(th[t])'
    BY <2>1, <2>4, <2>5, <2>7, <2>9, <2>11, <2>15, UnlinkTracks DEF ListInv
  <2>17. SeenInv(th[t])'
    BY <2>1, <2>4, <2>5, <2>12, OwnSeen DEF SameCall, SeenInv
  <2>18. ValueInv(th[t])'
    BY <2>1, <2>4, <2>5, <2>6 DEF SameCall, ValueInv, Unlinked
  <2>. QED
    BY <2>9, <2>12, <2>13, <2>14, <2>16, <2>17, <2>18, ShapeStep DEF MapStays
<1>. QED
  BY <1>1, <1>2 DEF Unlink, CasFails
-----------------------------------------------------------------------------
\* What is known of an insertion that is about to link its tower on level r.lvl.
LEMMA LinkerKnows ==
  ASSUME Inv, ApartInv, Shape, NEW t \in Thread, th[t].pc \in {"LinkStore", "LinkCas"}
  PROVE  /\ th[t] \in ThreadState /\ LocalInv(th[t], key, level)
         /\ Tracking(th[t]) /\ SeenInv(th[t]) /\ ValueInv(th[t])
         /\ th[t].op = "insert" /\ Linking(th[t]) /\ LinkLevel(th[t]) = th[t].lvl
         /\ th[t].lvl \in Level /\ th[t].tower \in Tower /\ th[t].tower <= allocated
         /\ th[t].tower # NULL
         /\ th[t].key \in Key /\ key[th[t].tower] = th[t].key
         /\ th[t].lvl <= level[th[t].tower] /\ level[th[t].tower] \in Level
         /\ th[t].tower \notin Joined[th[t].lvl]
         /\ ~forward[th[t].tower][th[t].lvl].marked
         /\ th[t].succs[th[t].lvl] \in Pointer /\ th[t].preds[th[t].lvl] \in Node
         /\ ~Retiring(th[t]) /\ \A n : ~Marking(th[t], n)
         /\ TypeOK
<1> USE Constants
<1> DEFINE r == th[t]
<1>1. /\ r \in ThreadState /\ LocalInv(r, key, level)
      /\ Tracking(r) /\ SeenInv(r) /\ ValueInv(r) /\ TypeOK
  BY Met DEF Shape, Tracks, Inv
<1>2. r.op = "insert" /\ r.tower # NULL /\ r.pc # "Return" /\ r.pc \notin Searching
  BY <1>1 DEF LocalInv, CallInv, Searching
<1>3. Linking(r) /\ LinkLevel(r) = r.lvl /\ ~Retiring(r) /\ \A n : ~Marking(r, n)
  BY <1>1, <1>2 DEF Linking, LinkLevel, Retiring, Marking, Searching
<1>4. r.tower \in Tower /\ r.lvl \in Level /\ r.succs[r.lvl] \in Pointer /\ r.preds[r.lvl] \in Node
  BY <1>1, <1>2, Fields DEF Pointer
<1>5. r.tower <= allocated /\ key[r.tower] = r.key /\ r.lvl <= level[r.tower]
  BY <1>1, <1>2, <1>3 DEF LocalInv, CallInv, Inv, PrivateInv
<1>6. level[r.tower] \in Level
  BY <1>1, <1>4, ListTypes
<1>7. r.tower \notin Joined[r.lvl]
  BY <1>3, <1>4, NotJoined DEF Level
<1>8. ~forward[r.tower][r.lvl].marked
  BY <1>3, <1>4 DEF Inv, ApartInv, Apart, WholeInv, Level
<1>9. r.key \in Key
  BY <1>1, <1>2 DEF SeenInv
<1>. QED
  BY <1>1, <1>2, <1>3, <1>4, <1>5, <1>6, <1>7, <1>8, <1>9

\* To store where a tower is to lead, before it is linked on that level, keeps the shape.
LEMMA StoreShape ==
  ASSUME Inv, Inv', ApartInv, Shape, NEW t \in Thread, LinkStore(t)
  PROVE  Shape' /\ MapStays
<1> USE Constants
<1> DEFINE r == th[t]
           x == r.tower
           l == r.lvl
           q == r.succs[l]
           s == [r EXCEPT !.pc = "LinkCas"]
<1>1. /\ r.pc = "LinkStore" /\ Become(t, s) /\ TypeOK /\ TypeOK' /\ ListInv
      /\ forward' = [forward EXCEPT ![x][l] = Unmarked(q)]
      /\ UNCHANGED <<key, value, level, allocated, max_level, retired>>
  BY DEF LinkStore, Inv, Shape
<1>2. /\ r \in ThreadState /\ LocalInv(r, key, level)
      /\ Tracking(r) /\ SeenInv(r) /\ ValueInv(r)
      /\ r.op = "insert" /\ Linking(r) /\ LinkLevel(r) = l
      /\ l \in Level /\ x \in Tower /\ x \in Node /\ key[x] = r.key /\ x # NULL
      /\ x \notin Joined[l] /\ ~forward[x][l].marked
      /\ q \in Pointer /\ ~Retiring(r) /\ \A n : ~Marking(r, n)
  BY <1>1, LinkerKnows
<1>3. /\ s \in ThreadState /\ s.pc = "LinkCas" /\ SameCall(r, s) /\ s.tower = x /\ s.lvl = l
      /\ s.preds = r.preds /\ s.succs = r.succs
  BY <1>1, <1>2 DEF SameCall, ThreadState
<1> HIDE DEF s
<1>4. Others(t) /\ th'[t] = s
  BY <1>1, <1>3, NearStep DEF Goes
<1>5. Linking(s) = Linking(r) /\ LinkLevel(s) = LinkLevel(r)
  BY <1>1, <1>2, <1>3 DEF SameCall, Linking, LinkLevel, Searching
<1>6. \A j \in Level : Joined'[j] = Joined[j]
  BY <1>1, <1>3, <1>4, <1>5, JoinedSame
<1>7. Rewires(x, l, q)
  BY <1>1, <1>2, Rewired
<1>8. Marks(t)
  BY <1>1, <1>2, PlainMarks
<1>9. q # NULL => q \in Joined[l] /\ key[x] < key[q]
  <2>1. q # NULL => q \in Joined[l] /\ key[q] >= r.key /\ key[q] # r.key /\ q \in Tower
    BY <1>2 DEF Tracking, TableInv, Pointer
  <2>2. key[x] \in Int /\ (q # NULL => key[q] \in Int)
    BY <1>1, <1>2, <2>1, ListTypes
  <2>. QED
    BY <1>2, <2>1, <2>2
<1>10. Frame(t) /\ ListInv'
  BY <1>1, <1>2, <1>4, <1>6, <1>7, <1>8, <1>9, StoreLinks
<1>11. Live' = Live
  BY <1>2, <1>6, <1>7, PlainLive
<1>12. \A k \in Key : Map'[k] = Map[k]
  BY <1>1, <1>10, <1>11, StillMap
<1>13. \A u \in Thread \ {t} : SeenInv(th[u])'
  BY <1>4, <1>12, OthersSee
<1>14. \A u \in Thread \ {t} : ValueInv(th[u])'
  BY <1>1, <1>4, OthersValue
<1>15. SeenInv(th[t])'
  BY <1>1, <1>2, <1>3, <1>4, OwnSeen DEF SameCall
<1>16. ValueInv(th[t])'
  BY <1>1, <1>2, <1>3, <1>4, <1>5 DEF SameCall, ValueInv, Unlinked
<1>17. CurInv(th[t])' /\ AheadInv(th[t])' /\ FindInv(th[t])'
  BY <1>3, <1>4 DEF CurInv, AheadInv, FindInv, Searching
<1>18. StoredInv(th[t])'
  BY <1>3, <1>4, <1>7 DEF StoredInv, Rewires, Unmarked
<1>19. TableInv(th[t])'
  BY <1>1, <1>2, <1>3, <1>4, <1>5, <1>6 DEF SameCall, Tracking, TableInv, Before
<1>20. TowerInv(th[t])'
  BY <1>1, <1>2, <1>3, <1>4, <1>11 DEF SameCall, Tracking, TowerInv, Searching
<1>21. Tracking(th[t])'
  BY <1>17, <1>18, <1>19, <1>20 DEF Tracking
<1>. QED
  BY <1>12, <1>10, <1>13, <1>14, <1>15, <1>16, <1>21, ShapeStep DEF MapStays

\* A tower is linked on one more level.
LEMMA JoinedMore ==
  ASSUME Inv, ApartInv, NEW t \in Thread, Others(t), UNCHANGED <<level, allocated>>,
         NEW x \in Tower, x = th[t].tower, x <= allocated, NEW l \in Level, Linking(th[t]),
         LinkLevel(th[t]) = l, l <= level[x], level[x] \in Level,
         \/ ~Linking(th'[t]) /\ l = level[x]
         \/ Linking(th'[t]) /\ th'[t].tower = x /\ LinkLevel(th'[t]) = l + 1
  PROVE  \A j \in Level : Joined'[j] = Joined[j] \cup (IF j = l THEN {x} ELSE {})
<1> USE Constants
<1>1. ASSUME NEW u \in Thread \ {t}
      PROVE  /\ Linking(th'[u]) = Linking(th[u]) /\ th'[u].tower = th[u].tower
             /\ LinkLevel(th'[u]) = LinkLevel(th[u])
             /\ Linking(th[u]) => th[u].tower # x
  <2>1. Alike(th'[u], th[u])
    BY DEF Others, Near
  <2>2. Linking(th[u]) => th[u].tower # x
    BY OwnTower DEF Linking
  <2>. QED
    BY <2>1, <2>2 DEF Alike, Linking, LinkLevel
<1> DEFINE Past(n, j) == \A u \in Thread : Linking(th[u]) /\ th[u].tower = n => j < LinkLevel(th[u])
           Gone(n, j) == \A u \in Thread : Linking(th'[u]) /\ th'[u].tower = n => j < LinkLevel(th'[u])
<1>2. \A n \in Tower, j \in Level : n # x => (Gone(n, j) <=> Past(n, j))
  BY <1>1
<1>3. \A j \in Level : Past(x, j) <=> j < l
  BY <1>1
<1>4. \A j \in Level : j <= level[x] => (Gone(x, j) <=> j <= l)
  <2>1. CASE ~Linking(th'[t]) /\ l = level[x]
    BY <1>1, <2>1
  <2>2. CASE Linking(th'[t]) /\ th'[t].tower = x /\ LinkLevel(th'[t]) = l + 1
    <3>1. \A j \in Level : j < l + 1 <=> j <= l
      BY DEF Level
    <3>. QED
      BY <1>1, <2>2, <3>1
  <2>. QED
    BY <2>1, <2>2
<1>5. \A n \in Tower, j \in Level :
        n \in Joined[j] <=> n <= allocated /\ j <= level[n] /\ Past(n, j)
  BY DEF Joined
<1>6. \A n \in Tower, j \in Level :
        n \in Joined'[j] <=> n <= allocated /\ j <= level[n] /\ Gone(n, j)
  BY DEF Joined
<1>7. \A j \in Level : /\ Header \in Joined[j] /\ Header \in Joined'[j]
                       /\ Joined[j] \subseteq Tower \cup {Header}
                       /\ Joined'[j] \subseteq Tower \cup {Header}
  BY DEF Joined
<1> HIDE DEF Past, Gone
<1>8. \A n \in Tower, j \in Level : n # x => (n \in Joined'[j] <=> n \in Joined[j])
  BY <1>2, <1>5, <1>6
<1>9. \A j \in Level : (x \in Joined[j] <=> j < l) /\ (x \in Joined'[j] <=> j <= l)
  <2> SUFFICES ASSUME NEW j \in Level
               PROVE  (x \in Joined[j] <=> j < l) /\ (x \in Joined'[j] <=> j <= l)
    OBVIOUS
  <2>1. j <= l => j <= level[x]
    BY DEF Level
  <2>2. j < l => j <= l
    BY DEF Level
  <2>. QED
    BY <1>3, <1>4, <1>5, <1>6, <2>1, <2>2
<1>. QED
  <2> SUFFICES ASSUME NEW j \in Level
               PROVE  Joined'[j] = Joined[j] \cup (IF j = l THEN {x} ELSE {})
    OBVIOUS
  <2>1. j <= l <=> j < l \/ j = l
    BY DEF Level
  <2>2. \A n \in Tower : n \in Joined'[j] <=> n \in Joined[j] \/ (n = x /\ j = l)
    BY <1>8, <1>9, <2>1
  <2>. QED
    BY <1>7, <2>2
-----------------------------------------------------------------------------
\* Where an insertion goes on when a level is linked.
LEMMA LinkedStep ==
  ASSUME NEW r \in ThreadState, r.pc = "LinkCas", r.op = "insert", r.tower # NULL,
         r.lvl \in Level, level[r.tower] \in Level, r.lvl <= level[r.tower],
         NEW s, s = Linked(r)
  PROVE  /\ s \in ThreadState /\ s.op = "insert" /\ s.key = r.key /\ s.val = r.val
         /\ s.tower = r.tower /\ s.preds = r.preds /\ s.succs = r.succs
         /\ s.out = r.out /\ s.results = r.results
         /\ s.pc \in {"LinkStore", "Return"} /\ ~Unlinked(s)
         /\ \/ ~Linking(s) /\ r.lvl = level[r.tower]
            \/ Linking(s) /\ LinkLevel(s) = r.lvl + 1
<1> USE Constants
<1>1. CASE r.lvl = level[r.tower]
  <2>1. s = [r EXCEPT !.pc = "Return"]
    BY <1>1 DEF Linked, Ending
  <2>2. /\ s \in ThreadState /\ s.op = "insert" /\ s.key = r.key /\ s.val = r.val
        /\ s.tower = r.tower /\ s.preds = r.preds /\ s.succs = r.succs /\ s.pc = "Return"
        /\ s.out = r.out /\ s.results = r.results
    BY <2>1 DEF ThreadState
  <2>. QED
    BY <1>1, <2>2 DEF Linking, Unlinked
<1>2. CASE r.lvl # level[r.tower]
  <2>1. r.lvl + 1 \in Level /\ r.lvl + 1 # 0
    BY <1>2 DEF Level
  <2>2. s = [r EXCEPT !.pc = "LinkStore", !.lvl = r.lvl + 1]
    BY <1>2 DEF Linked, ThreadState
  <2>3. /\ s \in ThreadState /\ s.op = "insert" /\ s.key = r.key /\ s.val = r.val
        /\ s.tower = r.tower /\ s.preds = r.preds /\ s.succs = r.succs /\ s.pc = "LinkStore"
        /\ s.lvl = r.lvl + 1 /\ s.out = r.out /\ s.results = r.results
    BY <2>1, <2>2 DEF ThreadState
  <2>. QED
    BY <2>1, <2>3 DEF Linking, LinkLevel, Unlinked, Searching
<1>. QED
  BY <1>1, <1>2

\* The compare-and-swap of LinkCas puts the tower of t in the list.
LEMMA LinkLinks ==
  ASSUME Inv, Inv', ApartInv, Shape, NEW t \in Thread, th[t].pc = "LinkCas",
         Cas(th[t].preds[th[t].lvl], th[t].lvl, Unmarked(th[t].succs[th[t].lvl]),
             Unmarked(th[t].tower)),
         UNCHANGED <<key, value, level, allocated, max_level, retired>>,
         NEW s, s = Linked(th[t]), Goes(t, s)
  PROVE  /\ Frame(t) /\ ListInv' /\ \A j \in Level : Joined[j] \subseteq Joined'[j]
         /\ Live' = IF th[t].lvl = 0 THEN Live \cup {th[t].tower} ELSE Live
         /\ th[t].lvl = 0 => \A m \in Live : key[m] # th[t].key
<1> USE Constants
<1> DEFINE r == th[t]
           x == r.tower
           l == r.lvl
           p == r.preds[l]
           q == r.succs[l]
<1>1. /\ r \in ThreadState /\ LocalInv(r, key, level) /\ Tracking(r)
      /\ r.op = "insert" /\ Linking(r) /\ LinkLevel(r) = l
      /\ l \in Level /\ x \in Tower /\ x <= allocated /\ x # NULL /\ x \in Pointer
      /\ key[x] = r.key /\ l <= level[x] /\ level[x] \in Level
      /\ x \notin Joined[l] /\ ~forward[x][l].marked
      /\ q \in Pointer /\ p \in Node /\ ~Retiring(r) /\ (\A n : ~Marking(r, n))
      /\ TypeOK /\ ListInv
  BY LinkerKnows DEF Shape
<1>2. /\ s \in ThreadState /\ s.tower = x
      /\ \/ ~Linking(s) /\ l = level[x]
         \/ Linking(s) /\ LinkLevel(s) = l + 1
  BY <1>1, LinkedStep
<1>3. Others(t) /\ Alike(th'[t], s)
  BY <1>1, <1>2, NearStep
<1>4. \/ ~Linking(th'[t]) /\ l = level[x]
      \/ Linking(th'[t]) /\ th'[t].tower = x /\ LinkLevel(th'[t]) = l + 1
  <2>1. /\ Linking(th'[t]) = Linking(s) /\ LinkLevel(th'[t]) = LinkLevel(s)
        /\ th'[t].tower = s.tower
    BY <1>3 DEF Alike, Linking, LinkLevel
  <2>. QED
    BY <1>2, <2>1
<1>5. \A j \in Level : Joined'[j] = Joined[j] \cup (IF j = l THEN {x} ELSE {})
  <2>1. /\ x \in Tower /\ x = th[t].tower /\ x <= allocated /\ l \in Level /\ Linking(th[t])
        /\ LinkLevel(th[t]) = l /\ l <= level[x] /\ level[x] \in Level /\ Others(t)
        /\ UNCHANGED <<level, allocated>>
    BY <1>1, <1>3
  <2> HIDE DEF x, l
  <2>. QED
    BY <1>4, <2>1, JoinedMore
<1>6. forward[p][l] = Unmarked(q) /\ ~forward[p][l].marked /\ forward[p][l].to = q
      /\ forward' = [forward EXCEPT ![p][l] = Unmarked(x)]
  BY SMTT(30) DEF Cas, Unmarked
<1>7. Rewires(p, l, x)
  BY <1>1, <1>6, Rewired, Zenon
<1>8. Marks(t)
  BY <1>1, <1>6, PlainMarks, Zenon
<1>9. forward[x][l].to = q
  BY <1>1 DEF Tracking, StoredInv, Unmarked
<1>10. p \in Joined[l] /\ Lt(key, p, x) /\ p <= allocated
  <2>1. p \in Joined[l] /\ Before(p, r.key)
    BY <1>1 DEF Tracking, TableInv
  <2>2. p <= allocated
    <3>1. allocated \in Nat
      BY <1>1 DEF TypeOK
    <3>2. p # Header => p <= allocated
      BY <1>1, <2>1, JoinedNode
    <3>3. Header <= allocated
      BY <3>1 DEF Header
    <3>. QED
      BY <3>2, <3>3
  <2>. QED
    BY <1>1, <2>1, <2>2 DEF Before, Lt
<1>11. x \notin retired
  <2> SUFFICES ASSUME x \in retired PROVE FALSE
    OBVIOUS
  <2>1. forward[x][0].marked
    BY DEF Inv, RetireInv
  <2>2. \A j \in Level : 0 <= j /\ j <= level[x] => forward[x][j].marked
    BY <1>1, <2>1 DEF ListInv, MarkInv
  <2>3. 0 <= l
    BY <1>1 DEF Level
  <2>. QED
    BY <1>1, <2>2, <2>3
<1>12. l = 0 => \A m \in Live : key[m] # r.key
  <2> SUFFICES ASSUME l = 0, NEW m \in Live, key[m] = r.key PROVE FALSE
    OBVIOUS
  <2>1. m = x
    BY <1>1 DEF Tracking, TowerInv, Live
  <2>. QED
    BY <1>1, <2>1 DEF Live
<1>13. Frame(t) /\ ListInv'
  <2>1. /\ Others(t) /\ Marks(t) /\ UNCHANGED <<key, level, allocated, retired>>
        /\ Linking(th[t]) /\ x \in Tower /\ x = th[t].tower /\ l \in Level /\ p \in Node
        /\ p \in Joined[l] /\ ~forward[p][l].marked /\ Lt(key, p, x) /\ p <= allocated
        /\ forward[x][l].to = forward[p][l].to /\ Rewires(p, l, x) /\ x \notin retired
        /\ (l = 0 => \A m \in Live : key[m] # key[x])
    BY <1>1, <1>3, <1>6, <1>7, <1>8, <1>9, <1>10, <1>11, <1>12
  <2>2. \A j \in Level : Joined'[j] = Joined[j] \cup (IF j = l THEN {x} ELSE {})
    BY <1>5
  <2> HIDE DEF r, x, l, p, q
  <2>. QED
    BY <2>1, <2>2, CasLinks, Zenon
<1>14. Live' = IF l = 0 THEN Live \cup {x} ELSE Live
  <2>1. \A n \in Tower : forward'[n][0].marked <=> forward[n][0].marked
    <3>1. Rewires(p, l, x) /\ ~forward[p][l].marked
      BY <1>6, <1>7
    <3> HIDE DEF r, x, l, p, q
    <3>. QED
      BY ONLY <3>1, Constants DEF Rewires
  <2>2. Joined'[0] = IF l = 0 THEN Joined[0] \cup {x} ELSE Joined[0]
    BY <1>5
  <2>3. l = 0 => ~forward[x][0].marked
    BY <1>1
  <2>. QED
    BY <1>1, <2>1, <2>2, <2>3 DEF Live
<1>. QED
  BY <1>5, <1>12, <1>13, <1>14

\* An insertion that has linked a level still tracks the list.
LEMMA LinkedTracks ==
  ASSUME Inv, Shape, NEW t \in Thread, th[t].pc = "LinkCas", ApartInv,
         \A j \in Level : Joined[j] \subseteq Joined'[j], Live' \subseteq Live \cup {th[t].tower},
         UNCHANGED <<key, level>>,
         th'[t].op = "insert", th'[t].key = th[t].key, th'[t].tower = th[t].tower,
         th'[t].preds = th[t].preds, th'[t].succs = th[t].succs,
         th'[t].pc \in {"LinkStore", "Return"}
  PROVE  Tracking(th[t])'
<1> DEFINE r == th[t]
<1>1. r.op = "insert" /\ Linking(r) /\ Tracking(r) /\ r.tower # NULL
  BY LinkerKnows
<1>2. /\ CurInv(th[t])' /\ AheadInv(th[t])' /\ StoredInv(th[t])' /\ FindInv(th[t])'
  BY DEF CurInv, AheadInv, StoredInv, FindInv, Searching
<1>3. TableInv(th[t])'
  BY <1>1 DEF Tracking, TableInv, Before
<1>4. TowerInv(th[t])'
  <2>1. \A n \in Tower : n \in Live' /\ key[n] = r.key => n = r.tower
    BY <1>1 DEF Tracking, TowerInv
  <2>. QED
    BY <2>1 DEF TowerInv
<1>. QED
  BY <1>2, <1>3, <1>4 DEF Tracking

\* On the bottom level, the key of the tower comes into the map; above, the map stays.
LEMMA LinkOnShape ==
  ASSUME Inv, Inv', ApartInv, Shape, NEW t \in Thread, th[t].pc = "LinkCas",
         Cas(th[t].preds[th[t].lvl], th[t].lvl, Unmarked(th[t].succs[th[t].lvl]),
             Unmarked(th[t].tower)),
         UNCHANGED <<key, value, level, allocated, max_level, retired>>,
         Goes(t, Linked(th[t])), th[t].lvl = 0 => TakeEffect(t, Linked(th[t]))
  PROVE  Shape' /\ \A k \in Key :
           Map'[k] = IF th[t].lvl = 0 /\ k = th[t].key THEN th[t].val ELSE Map[k]
<1> USE Constants
<1> DEFINE r == th[t]
           x == r.tower
           l == r.lvl
           s == Linked(r)
<1>1. /\ r \in ThreadState /\ LocalInv(r, key, level) /\ SeenInv(r) /\ ValueInv(r)
      /\ r.op = "insert" /\ Linking(r) /\ LinkLevel(r) = l /\ r.tower # NULL
      /\ l \in Level /\ x \in Tower /\ level[x] \in Level /\ l <= level[x]
      /\ r.key \in Key /\ key[x] = r.key
      /\ TypeOK /\ TypeOK' /\ ListInv
  BY LinkerKnows DEF Inv, Shape
<1>2. /\ Frame(t) /\ ListInv' /\ \A j \in Level : Joined[j] \subseteq Joined'[j]
      /\ Live' = IF l = 0 THEN Live \cup {x} ELSE Live
      /\ l = 0 => \A m \in Live : key[m] # r.key
  BY LinkLinks
<1>3. /\ s \in ThreadState /\ s.op = "insert" /\ s.key = r.key /\ s.val = r.val
      /\ s.tower = x /\ s.preds = r.preds /\ s.succs = r.succs
      /\ s.pc \in {"LinkStore", "Return"} /\ ~Unlinked(s)
  BY <1>1, LinkedStep
<1> HIDE DEF s
<1>4. /\ Others(t) /\ Alike(th'[t], s) /\ th'[t].val = r.val
      /\ l = 0 => \A u \in Thread \ {t} : th[u].op = "search" /\ th[u].key = r.key
                    => r.val \in th'[u].results
  BY <1>1, <1>3, NearStep DEF s
<1>5. /\ th'[t].op = "insert" /\ th'[t].key = r.key /\ th'[t].tower = x
      /\ th'[t].preds = r.preds /\ th'[t].succs = r.succs
      /\ th'[t].pc \in {"LinkStore", "Return"} /\ ~Unlinked(th'[t])
  BY <1>3, <1>4 DEF Alike, Unlinked, Linking, LinkLevel
<1>6. \A k \in Key : Map'[k] = IF l = 0 /\ k = r.key THEN r.val ELSE Map[k]
  <2>1. CASE l # 0
    BY <1>1, <1>2, <2>1, StillMap
  <2>2. CASE l = 0
    <3>1. Held'
      BY <1>1, <1>2, HeldNext DEF ListInv
    <3>2. value[x] = r.val
      BY <1>1, <2>2 DEF ValueInv, Unlinked
    <3>3. Map'[r.key] = r.val
      BY <1>1, <1>2, <2>2, <3>1, <3>2 DEF Held
    <3>4. \A k \in Key \ {r.key} : Map'[k] = Map[k]
      BY <1>1, <1>2, <2>2, MapKept
    <3>. QED
      BY <2>2, <3>3, <3>4
  <2>. QED
    BY <2>1, <2>2
<1>7. \A u \in Thread \ {t} : SeenInv(th[u])'
  BY <1>4, <1>6, OthersSee
<1>8. \A u \in Thread \ {t} : ValueInv(th[u])'
  BY <1>4, OthersValue
<1>9. SeenInv(th[t])'
  BY <1>1, <1>4, <1>5, OwnSeen
<1>10. ValueInv(th[t])'
  BY <1>5 DEF ValueInv
<1>11. Tracking(th[t])'
  BY <1>2, <1>5, LinkedTracks
<1>. QED
  BY <1>2, <1>6, <1>7, <1>8, <1>9, <1>10, <1>11, ShapeStep

\* To link a tower on a level keeps the shape.
LEMMA LinkCasShape ==
  ASSUME Inv, Inv', ApartInv, Shape, NEW t \in Thread, LinkCas(t)
  PROVE  Shape'
<1> DEFINE r == th[t]
<1>1. CASE CasFails(r.preds[r.lvl], r.lvl, Unmarked(r.succs[r.lvl])) /\ Become(t, Refill(r))
  BY <1>1, LinkFailsShape DEF CasFails
<1>2. CASE /\ Cas(r.preds[r.lvl], r.lvl, Unmarked(r.succs[r.lvl]), Unmarked(r.tower))
           /\ IF r.lvl = 0 THEN TakeEffect(t, Linked(r)) ELSE Become(t, Linked(r))
  BY <1>2, LinkOnShape DEF LinkCas, Goes
<1>. QED
  BY <1>1, <1>2 DEF LinkCas
-----------------------------------------------------------------------------
(***************************************************************************)
(* An insertion allocates its tower.                                       *)
(***************************************************************************)
\* Its search has ended at no tower of the key: none is in the map, nor in the tables.
LEMMA KeyFree ==
  ASSUME Inv, Shape, NEW t \in Thread, th[t].pc = "Place", th[t].op = "insert", ~Found(th[t])
  PROVE  /\ \A m \in Live : key[m] # th[t].key
         /\ \A l \in Level : th[t].succs[l] # NULL => key[th[t].succs[l]] # th[t].key
<1> USE Constants
<1> DEFINE r == th[t]
<1>1. /\ r \in ThreadState /\ LocalInv(r, key, level) /\ FindInv(r) /\ TableInv(r)
      /\ TypeOK /\ HeaderInv /\ LinkedInv /\ MarkInv
  BY Met DEF Inv, Shape, Tracks, Tracking, ListInv
<1>2. r.tower = NULL /\ ~Missed(r)
  BY <1>1 DEF LocalInv, CallInv, Missed
<1>3. ASSUME NEW m \in Live, key[m] = r.key
      PROVE  FALSE
  <2>1. m \in Tower /\ Target(r, m, 0)
    BY <1>2, <1>3 DEF Target, Live
  <2>2. m = r.succs[0]
    BY <1>1, <2>1 DEF FindInv
  <2>. QED
    BY <1>3, <2>1, <2>2 DEF Found
<1>4. ASSUME NEW l \in Level, r.succs[l] # NULL, key[r.succs[l]] = r.key
      PROVE  FALSE
  <2> DEFINE n == r.succs[l]
  <2>1. n \in Tower /\ n \in Node
    BY <1>1, <1>4, Fields DEF Pointer
  <2>2. n \in Joined[l] /\ ~forward[n][l].marked
    BY <1>1, <1>2, <1>4 DEF TableInv
  <2>3. n \in Joined[0] /\ ~forward[n][0].marked
    <3>1. 0 <= l
      BY DEF Level
    <3> HIDE DEF n
    <3>. QED
      BY <1>1, <2>1, <2>2, <3>1, Plain
  <2>4. n \in Live
    BY <2>1, <2>3 DEF Live
  <2>. QED
    BY <1>3, <1>4, <2>4
<1>. QED
  BY <1>3, <1>4

\* A new tower is in the hands of its insertion only.
LEMMA NewTowerShape ==
  ASSUME Inv, Inv', ApartInv, Shape, NEW t \in Thread, NewTower(t)
  PROVE  Shape' /\ MapStays
<1> USE Constants
<1> DEFINE r == th[t]
           n == allocated + 1
<1>1. /\ r \in ThreadState /\ LocalInv(r, key, level) /\ r.pc = "Place" /\ r.op = "insert"
      /\ ~Found(r) /\ SeenInv(r) /\ TableInv(r) /\ TypeOK /\ TypeOK' /\ ListInv
      /\ allocated \in Nat /\ allocated < Towers /\ allocated' = n
      /\ key' = [key EXCEPT ![n] = r.key] /\ value' = [value EXCEPT ![n] = r.val]
      /\ UNCHANGED <<forward, max_level, retired>>
  BY Met DEF NewTower, Placed, Inv, TypeOK, Shape, Tracks, Tracking
<1>2. PICK lev \in Level :
        /\ level' = [level EXCEPT ![n] = lev]
        /\ Become(t, [r EXCEPT !.tower = n,
                               !.pc = IF lev > max_level THEN "MaxStore" ELSE "LinkStore"])
  BY Zenon DEF NewTower, generate_level
<1> DEFINE pc == IF lev > max_level THEN "MaxStore" ELSE "LinkStore"
           s  == [r EXCEPT !.tower = n, !.pc = pc]
<1>3. /\ n \in Tower /\ n \in Pointer /\ n # NULL /\ allocated <= n
      /\ \A m \in Tower : m <= allocated => m # n /\ m <= n
      /\ ~(n <= allocated)
  BY <1>1 DEF Tower, Pointer, NULL
<1>31. \A m \in Tower : m <= n /\ m # n => m <= allocated
  BY <1>1 DEF Tower
<1>4. pc \in {"MaxStore", "LinkStore"} /\ Become(t, s)
  BY <1>2
<1> HIDE DEF pc, n
<1>5. r.tower = NULL /\ r.lvl = 0
  BY <1>1 DEF LocalInv, CallInv
<1>6. /\ s \in ThreadState
      /\ s.pc = pc /\ s.op = "insert" /\ s.key = r.key /\ s.val = r.val /\ s.tower = n
      /\ s.lvl = 0 /\ s.preds = r.preds /\ s.succs = r.succs
  BY <1>1, <1>3, <1>4, <1>5 DEF ThreadState
<1> HIDE DEF s
<1>7. Others(t) /\ th'[t] = s
  BY <1>1, <1>4, <1>6, NearStep DEF Goes
<1>8. Linking(s) /\ LinkLevel(s) = 0 /\ ~Linking(r) /\ ~Retiring(r) /\ \A m : ~Marking(r, m)
  BY <1>1, <1>3, <1>4, <1>5, <1>6 DEF Linking, LinkLevel, Retiring, Marking, Searching
<1>9. /\ key'[n] = r.key /\ value'[n] = r.val
      /\ \A m \in Tower : m # n => key'[m] = key[m] /\ level'[m] = level[m] /\ value'[m] = value[m]
  BY <1>1, <1>2, <1>3 DEF TypeOK
<1>10. \A u \in Thread : th[u].tower # n
  BY <1>3, Met, Fields DEF Inv, PrivateInv, Pointer
<1>11. \A j \in Level : Joined'[j] = Joined[j]
  <2>1. ASSUME NEW u \in Thread \ {t}
        PROVE  /\ Linking(th'[u]) = Linking(th[u]) /\ th'[u].tower = th[u].tower
               /\ LinkLevel(th'[u]) = LinkLevel(th[u])
    BY <1>7 DEF Others, Near, Alike, Linking, LinkLevel
  <2>2. ASSUME NEW j \in Level, NEW m \in Tower, m # n
        PROVE  (\A u \in Thread : Linking(th'[u]) /\ th'[u].tower = m => j < LinkLevel(th'[u]))
               <=> (\A u \in Thread : Linking(th[u]) /\ th[u].tower = m => j < LinkLevel(th[u]))
    BY <1>6, <1>7, <1>8, <2>1, <2>2
  <2>3. \A j \in Level : n \notin Joined[j]
    BY <1>3 DEF Joined
  <2>4. \A j \in Level : n \notin Joined'[j]
    <3> SUFFICES ASSUME NEW j \in Level, n \in Joined'[j] PROVE FALSE
      OBVIOUS
    <3>1. Linking(th'[t]) /\ th'[t].tower = n /\ LinkLevel(th'[t]) = 0
      BY <1>6, <1>7, <1>8
    <3>2. j < 0
      BY <1>3, <3>1 DEF Joined
    <3>. QED
      BY <3>2 DEF Level
  <2>5. ASSUME NEW j \in Level, NEW m \in Tower, m # n
        PROVE  m \in Joined'[j] <=> m \in Joined[j]
    <3>1. m <= allocated' <=> m <= allocated
      BY <1>1, <1>3, <1>31, <2>5
    <3>2. level'[m] = level[m]
      BY <1>9, <2>5
    <3>. QED
      BY <2>2, <2>5, <3>1, <3>2 DEF Joined
  <2>6. \A j \in Level : /\ Header \in Joined[j] /\ Header \in Joined'[j]
                         /\ Joined[j] \subseteq Tower \cup {Header}
                         /\ Joined'[j] \subseteq Tower \cup {Header}
    BY DEF Joined
  <2> SUFFICES ASSUME NEW j \in Level PROVE Joined'[j] = Joined[j]
    OBVIOUS
  <2>7. \A m \in Tower : m \in Joined'[j] <=> m \in Joined[j]
    BY <2>3, <2>4, <2>5
  <2>8. /\ Header \in Joined[j] /\ Header \in Joined'[j]
        /\ Joined[j] \subseteq Tower \cup {Header} /\ Joined'[j] \subseteq Tower \cup {Header}
    BY <2>6
  <2>9. Joined'[j] \subseteq Joined[j] /\ Joined[j] \subseteq Joined'[j]
    BY ONLY <2>7, <2>8
  <2>. QED
    BY ONLY <2>9
<1>12. Marks(t)
  BY <1>1, <1>8 DEF Marks, ListInv, HeaderInv
<1>13. \A m \in Tower : m <= allocated =>
         m <= allocated' /\ key'[m] = key[m] /\ level'[m] = level[m] /\ value'[m] = value[m]
  BY <1>1, <1>3, <1>9
<1>14. Frame(t) /\ ListInv'
  BY <1>1, <1>7, <1>11, <1>12, <1>13, TowerLinks
<1>15. Live' = Live
  BY <1>1, <1>11 DEF Live
<1>16. \A m \in Live : key'[m] = key[m] /\ value'[m] = value[m] /\ m \in Tower
  BY <1>13, JoinedNode DEF Live
<1>17. \A k \in Key : Map'[k] = Map[k]
  BY <1>1, <1>14, <1>15, <1>16, MapKept
<1>18. \A u \in Thread \ {t} : SeenInv(th[u])'
  BY <1>7, <1>17, OthersSee
<1>19. \A u \in Thread \ {t} : ValueInv(th[u])'
  <2>1. \A u \in Thread : Unlinked(th[u]) => th[u].tower \in Tower
    BY Met, Fields DEF Unlinked, Linking, Pointer
  <2>. QED
    BY <1>7, <1>9, <1>10, <2>1, OthersValue
<1>20. SeenInv(th[t])'
  BY <1>1, <1>4, <1>6, <1>7, OwnSeen
<1>21. ValueInv(th[t])'
  BY <1>6, <1>7, <1>9 DEF ValueInv
<1>22. /\ \A m \in Live : key[m] # r.key
       /\ \A l \in Level : r.succs[l] # NULL => key[r.succs[l]] # r.key
  BY <1>1, KeyFree
<1>23. CurInv(th[t])' /\ AheadInv(th[t])' /\ StoredInv(th[t])' /\ FindInv(th[t])'
  BY <1>4, <1>6, <1>7 DEF CurInv, AheadInv, StoredInv, FindInv, Searching
<1>24. TableInv(th[t])'
  <2> SUFFICES ASSUME NEW l \in Level
               PROVE  /\ r.preds[l] \in Joined[l]
                      /\ r.preds[l] = Header \/ key'[r.preds[l]] < r.key
                      /\ r.succs[l] # NULL =>
                           /\ r.succs[l] \in Joined[l] /\ key'[r.succs[l]] >= r.key
                           /\ key'[r.succs[l]] # r.key
    BY <1>3, <1>6, <1>7, <1>11 DEF TableInv, Before
  <2>1. /\ r.preds[l] \in Joined[l] /\ (r.preds[l] = Header \/ key[r.preds[l]] < r.key)
        /\ r.succs[l] # NULL => r.succs[l] \in Joined[l] /\ key[r.succs[l]] >= r.key
    BY <1>1 DEF TableInv, Before
  <2>2. r.preds[l] # Header => key'[r.preds[l]] = key[r.preds[l]]
    BY <1>13, <2>1, JoinedNode
  <2>3. r.succs[l] # NULL => key'[r.succs[l]] = key[r.succs[l]]
    <3>1. r.succs[l] \in Pointer
      BY <1>1, Fields
    <3>. QED
      BY <1>13, <2>1, <3>1, JoinedNode DEF Pointer
  <2>. QED
    BY <1>22, <2>1, <2>2, <2>3
<1>25. TowerInv(th[t])'
  <2>1. \A m \in Tower : m \in Live' /\ key'[m] = r.key => m = n
    BY <1>15, <1>16, <1>22
  <2>. QED
    BY <1>4, <1>6, <1>7, <2>1 DEF TowerInv
<1>26. Tracking(th[t])'
  BY <1>23, <1>24, <1>25 DEF Tracking
<1>. QED
  BY <1>17, <1>14, <1>18, <1>19, <1>20, <1>21, <1>26, ShapeStep DEF MapStays

-----------------------------------------------------------------------------
\* The empty list has the shape.
LEMMA InitShape == Init => Shape
<1> USE Constants, NoCallType
<1> SUFFICES ASSUME Init PROVE Shape
  OBVIOUS
<1>1. Inv /\ TypeOK
  BY InitInv DEF Inv
<1>2. /\ \A n \in Node, l \in Level : forward[n][l].to = NULL /\ ~forward[n][l].marked
      /\ allocated = 0 /\ retired = {} /\ th = [t \in Thread |-> NoCall]
  BY DEF Init, NewList, Unmarked
<1>3. \A l \in Level : Joined[l] = {Header}
  <2>1. \A n \in Tower : ~(n <= 0)
    BY DEF Tower
  <2>. QED
    BY <1>2, <2>1 DEF Joined
<1>4. ListInv
  <2>1. HeaderInv /\ LinkInv /\ MarkInv /\ HandInv /\ GoneInv
    BY <1>2 DEF HeaderInv, LinkInv, MarkInv, HandInv, GoneInv
  <2>2. LinkedInv
    BY <1>1, <1>3, WayClosed, ListTypes DEF LinkedInv, InList
  <2>. QED
    BY <2>1, <2>2 DEF ListInv
<1>5. Tracking(NoCall)
  <2>1. NoCall.pc = "Idle" /\ NoCall.tower = NULL
        /\ \A l \in Level : NoCall.preds[l] = Header /\ NoCall.succs[l] = NULL
    BY DEF NoCall
  <2>2. TableInv(NoCall)
    BY <1>3, <2>1 DEF TableInv, Before
  <2>. QED
    BY <2>1, <2>2, RestTracks
<1>6. SeenInv(NoCall) /\ ValueInv(NoCall)
  BY DEF SeenInv, ValueInv, Unlinked, Linking
<1>7. \A t \in Thread : Tracks(th[t])
  BY <1>2, <1>5, <1>6, Zenon DEF Tracks
<1>. QED
  BY <1>4, <1>7 DEF Shape

\* A step that leaves the list alone keeps it,
LEMMA SameShape ==
  ASSUME Shape, UNCHANGED vars
  PROVE  Shape'
<1>1. UNCHANGED <<forward, key, value, level, allocated, retired, th>>
  BY DEF vars, shared
<1>2. Joined' = Joined
  BY <1>1 DEF Joined
<1>3. Live' = Live
  BY <1>1, <1>2 DEF Live
<1>4. Map' = Map
  BY <1>1 DEF Map, ValueOf, Holding, Chain
<1>5. ListInv'
  BY <1>1, <1>2 DEF Shape, ListInv, HeaderInv, LinkInv, LinkedInv, MarkInv, HandInv, GoneInv, InList
<1>6. ASSUME NEW t \in Thread
      PROVE  Tracks(th[t])'
  <2>1. Tracks(th[t])
    BY DEF Shape
  <2>2. CurInv(th[t])' /\ AheadInv(th[t])' /\ TableInv(th[t])' /\ StoredInv(th[t])' /\ TowerInv(th[t])'
    BY <1>1, <1>2, <1>3, <2>1
    DEF Tracks, Tracking, CurInv, Before, AheadInv, Lt, TableInv, StoredInv, TowerInv
  <2>3. FindInv(th[t])'
    BY <1>1, <1>3, <2>1 DEF Tracks, Tracking, FindInv, Target, Leads, InList
  <2>4. SeenInv(th[t])' /\ ValueInv(th[t])'
    BY <1>1, <1>4, <2>1 DEF Tracks, SeenInv, ValueInv
  <2>. QED
    BY <2>2, <2>3, <2>4 DEF Tracks, Tracking
<1>. QED
  BY <1>5, <1>6 DEF Shape

\* and so does every step of a call under way.
LEMMA WorkShape ==
  ASSUME Inv, Inv', ApartInv, Shape, NEW t \in Thread, Work(t)
  PROVE  Shape'
BY LoadShape, LookShape, UnlinkShape, UpdateShape, EndShape, NewTowerShape,
   MaxStoreShape, StoreShape, LinkCasShape, MarkLoadShape, MarkShape, RetireShape DEF Work
-----------------------------------------------------------------------------
\* What the levels lead to, in the terms of Chain.
LEMMA ChainIn ==
  ASSUME TypeOK, LinkInv, NEW l \in Level
  PROVE  /\ Chain(l) \subseteq Tower
         /\ \A n \in Tower : n \in Chain(l) <=> InList(n, l)
         /\ \A n \in Chain(l) : n \in Joined[l] /\ n <= allocated /\ l <= level[n]
<1> USE Constants
<1>1. /\ forward \in Pointers /\ key \in [Tower -> Int]
      /\ Ascending(forward, l, key)
  BY ListTypes, Orders
<1>2. Chain(l) = Way(forward, l, Header) \ {Header}
  BY <1>1, ChainWay
<1>3. ASSUME NEW n \in Chain(l)
      PROVE  n \in Tower /\ n \in Joined[l] /\ n <= allocated /\ l <= level[n]
  <2>1. n \in Joined[l] /\ n \in Tower
    BY <1>2, <1>3, WayJoined
  <2>. QED
    BY <2>1, JoinedNode
<1>. QED
  BY <1>2, <1>3 DEF InList

\* With the shape, what is retired is out of every level,
LEMMA UnlinkedShape ==
  ASSUME Inv, Shape
  PROVE  RetiredUnlinked
BY ChainIn DEF Inv, Shape, ListInv, GoneInv, RetiredUnlinked

\* and the levels are well formed.
LEMMA WellFormedShape ==
  ASSUME Inv, Shape
  PROVE  ListShape
<1> USE Constants
<1>1. /\ TypeOK /\ HeaderInv /\ LinkInv /\ LinkedInv /\ MarkInv /\ HandInv /\ GoneInv
      /\ \A t \in Thread : SeenInv(th[t])
  BY DEF Inv, Shape, ListInv, Tracks
<1>2. /\ 1 .. allocated \subseteq Tower
      /\ \A n \in Tower : n \in 1 .. allocated <=> n <= allocated
  BY <1>1 DEF TypeOK, Tower
<1>3. \A l \in Level, n \in 1 .. allocated :
        forward[n][l].to # NULL => key[n] < key[forward[n][l].to]
  BY <1>1, <1>2 DEF LinkInv, Lt
<1>4. ASSUME \A t \in Thread : th[t].pc = "Idle"
      PROVE  /\ Chain(0) \cap retired = {}
             /\ Chain(0) \cup retired = 1 .. allocated
             /\ \A l \in Level : Chain(l) = {n \in Chain(0) : level[n] >= l}
  <2>1. \A t \in Thread : /\ ~Linking(th[t]) /\ ~Retiring(th[t])
                          /\ \A n : ~Marking(th[t], n)
    BY <1>1, <1>4, Zenon DEF SeenInv, Linking, Retiring, Marking
  <2>2. \A l \in Level, n \in Tower : n \in Joined[l] <=> n <= allocated /\ l <= level[n]
    BY <2>1 DEF Joined
  <2>3. ASSUME NEW n \in Tower, NEW l \in Level, forward[n][l].marked
        PROVE  n \in retired
    BY <1>1, <2>1, <2>3 DEF MarkInv, HandInv
  <2>4. ASSUME NEW l \in Level
        PROVE  /\ Chain(l) \subseteq Tower
               /\ \A n \in Tower : n \in Chain(l) <=> InList(n, l)
               /\ \A n \in Chain(l) : n <= allocated /\ l <= level[n]
    BY <1>1, ChainIn
  <2>5. ASSUME NEW n \in retired
        PROVE  n \in Tower /\ n <= allocated /\ \A l \in Level : ~InList(n, l)
    <3>1. n \in Tower /\ forward[n][0].marked
      BY DEF Inv, TypeOK, RetireInv
    <3>. QED
      BY <1>1, <2>2, <3>1 DEF MarkInv, GoneInv
  <2>6. ASSUME NEW n \in Tower, NEW l \in Level, n <= allocated, l <= level[n], n \notin retired
        PROVE  n \in Chain(l)
    BY <1>1, <2>2, <2>3, <2>4, <2>6 DEF LinkedInv
  <2>7. \A n \in Tower : 0 <= level[n]
    BY <1>1, ListTypes DEF Level
  <2>8. \A n \in Tower, l \in Level : level[n] >= l <=> l <= level[n]
    BY <1>1, ListTypes DEF Level
  <2>9. Chain(0) \cap retired = {}
    BY <2>4, <2>5
  <2>10. Chain(0) \cup retired = 1 .. allocated
    BY <1>2, <2>4, <2>5, <2>6, <2>7
  <2>11. ASSUME NEW l \in Level
         PROVE  Chain(l) = {n \in Chain(0) : level[n] >= l}
    BY <2>4, <2>5, <2>6, <2>7, <2>8
  <2>. QED
    BY <2>9, <2>10, <2>11
<1>. QED
  BY <1>3, <1>4 DEF ListShape
-----------------------------------------------------------------------------
(***************************************************************************)
(* Calls take effect one at a time, as those of AbstractMap do.            *)
(***************************************************************************)
\* A call that has taken effect, and goes on.
Done(r) == (Linking(r) /\ ~Unlinked(r)) \/ Retiring(r)

\* What a call may return before it comes to its end.
OutInv(r) ==
  /\ r.op = "insert" => r.val \in Value
  /\ r.pc # "Return" => r.out = Success
  /\ r.pc # "Return" /\ r.op \in {"insert", "remove"} =>
       r.results = IF Done(r) THEN {Success} ELSE IF r.op = "insert" THEN {Failure} ELSE {}

\* A search that has come to its key may report the value that is there.
FoundInv(r, k, v) ==
  r.pc = "Place" /\ r.op = "search" /\ r.succs[0] # NULL /\ k[r.succs[0]] = r.key
    => v[r.succs[0]] \in r.results

History == \A t \in Thread : OutInv(th[t]) /\ FoundInv(th[t], key, value)

\* The map has its keys, in a state ...
LEMMA MapNow == Map = [k \in Key |-> Map[k]]
BY DEF Map

\* ... and in the next one.
LEMMA MapNext == (Map = [k \in Key |-> Map[k]])'
BY MapNow, PTL

\* The others may still return what they could.
LEMMA HistoryStep ==
  ASSUME Inv, Shape, History, NEW t \in Thread, Others(t),
         \A n \in Tower : n <= allocated => key'[n] = key[n],
         \A u \in Thread \ {t}, n \in Tower :
           n <= allocated /\ th[u].op = "search" /\ th[u].key = key[n] =>
             value'[n] = value[n] \/ value'[n] \in th'[u].results,
         OutInv(th'[t]), FoundInv(th'[t], key', value')
  PROVE  History'
<1> USE Constants
<1> SUFFICES ASSUME NEW u \in Thread \ {t}
             PROVE  OutInv(th'[u]) /\ FoundInv(th'[u], key', value')
  BY DEF History
<1> DEFINE r == th[u]
           n == r.succs[0]
<1>1. /\ r \in ThreadState /\ OutInv(r) /\ FoundInv(r, key, value) /\ TableInv(r)
      /\ Near(th'[u], r)
  BY Met DEF History, Others, Shape, Tracks, Tracking
<1>2. /\ th'[u].pc = r.pc /\ th'[u].op = r.op /\ th'[u].key = r.key /\ th'[u].tower = r.tower
      /\ th'[u].lvl = r.lvl /\ th'[u].to = r.to /\ th'[u].succs = r.succs
      /\ th'[u].out = r.out /\ th'[u].val = r.val /\ r.results \subseteq th'[u].results
      /\ r.op # "search" => th'[u].results = r.results
  BY <1>1 DEF Near, Alike
<1>3. OutInv(th'[u])
  BY <1>1, <1>2 DEF OutInv, Done, Linking, Unlinked, LinkLevel, Retiring
<1>4. n # NULL => n \in Tower /\ n <= allocated
  BY <1>1, Fields, JoinedNode DEF TableInv, Pointer
<1>5. FoundInv(th'[u], key', value')
  BY <1>1, <1>2, <1>4 DEF FoundInv
<1>. QED
  BY <1>3, <1>5

\* A step that carries its call on.
Carries(r, s) == SameCall(r, s) /\ r.pc # "Return" /\ (Done(s) <=> Done(r))

\* To carry a call on is no step of AbstractMap.
LEMMA CarryStep ==
  ASSUME Inv, Shape, History, NEW t \in Thread, NEW s \in ThreadState, Become(t, s), MapStays,
         Carries(th[t], s), FoundInv(s, key', value'),
         \A n \in Tower : n <= allocated => key'[n] = key[n] /\ value'[n] = value[n]
  PROVE  History' /\ UNCHANGED AbstractMap!vars
<1>1. th'[t] = s /\ Others(t) /\ TypeOK /\ OutInv(th[t])
  BY NearStep DEF Inv, Goes, History
<1>2. OutInv(s) /\ CallOf(s) = CallOf(th[t])
  BY <1>1 DEF Carries, SameCall, OutInv, CallOf
<1>3. History'
  BY <1>1, <1>2, HistoryStep
<1>4. Underway' = Underway
  <2>1. \A u \in Thread : CallOf(th'[u]) = CallOf(th[u])
    BY <1>1, <1>2 DEF TypeOK, Become
  <2>. QED
    BY <2>1 DEF Underway
<1>5. Map' = Map
  BY MapNow, MapNext DEF MapStays
<1>. QED
  BY <1>3, <1>4, <1>5 DEF AbstractMap!vars

\* Nor is it one to end with what the call had to return.
LEMMA EndStep ==
  ASSUME Inv, Shape, History, NEW t \in Thread, NEW s \in ThreadState, Become(t, s), MapStays,
         s.pc = "Return", th[t].pc # "Return", s.op \in {"insert", "remove"},
         s.op = th[t].op, s.key = th[t].key, s.val = th[t].val, th[t].results = {s.out},
         UNCHANGED <<key, value>>
  PROVE  History' /\ UNCHANGED AbstractMap!vars
<1>1. th'[t] = s /\ Others(t) /\ TypeOK /\ OutInv(th[t])
  BY NearStep DEF Inv, Goes, History
<1>2. OutInv(s) /\ FoundInv(s, key', value') /\ CallOf(s) = CallOf(th[t])
  BY <1>1 DEF OutInv, FoundInv, CallOf
<1>3. History'
  BY <1>1, <1>2, HistoryStep
<1>4. Underway' = Underway
  <2>1. \A u \in Thread : CallOf(th'[u]) = CallOf(th[u])
    BY <1>1, <1>2 DEF TypeOK, Become
  <2>. QED
    BY <2>1 DEF Underway
<1>5. Map' = Map
  BY MapNow, MapNext DEF MapStays
<1>. QED
  BY <1>3, <1>4, <1>5 DEF AbstractMap!vars

\* A call takes effect, and the searches that see it may report it.
LEMMA EffectStep ==
  ASSUME Inv, Shape, History, NEW t \in Thread, NEW s \in ThreadState, TakeEffect(t, s),
         s.op = th[t].op, s.op \in {"insert", "remove"}, s.key = th[t].key, s.key \in Key,
         s.val = th[t].val, s.out = th[t].out, th[t].pc # "Return", ~Done(th[t]),
         s.pc = "Return" \/ Done(s),
         \A k \in Key : Map'[k] = IF k = s.key THEN s.val ELSE Map[k],
         UNCHANGED key,
         \A n \in Tower : value'[n] = value[n] \/ (key[n] = s.key /\ value'[n] = s.val)
  PROVE  History' /\ AbstractMap!TakeEffect(t)
<1> DEFINE r == th[t]
<1>1. /\ TypeOK /\ Others(t) /\ Alike(th'[t], s) /\ th'[t].val = s.val /\ th'[t].out = s.out
      /\ th'[t].results = {Success}
      /\ \A u \in Thread \ {t} : th[u].op = "search" /\ th[u].key = s.key => s.val \in th'[u].results
      /\ OutInv(r)
  BY NearStep DEF Inv, Goes, History
<1>2. th'[t].pc = s.pc /\ th'[t].op = s.op /\ th'[t].key = s.key /\ (Done(th'[t]) <=> Done(s))
  BY <1>1 DEF Alike, Done, Linking, Unlinked, LinkLevel, Retiring
<1>3. s.out = Success /\ Success \notin r.results
  BY <1>1, OutcomesAssumption DEF OutInv
<1>4. OutInv(th'[t]) /\ FoundInv(th'[t], key', value')
  BY <1>1, <1>2, <1>3 DEF OutInv, FoundInv
<1>5. History'
  <2>1. \A u \in Thread \ {t}, n \in Tower :
          n <= allocated /\ th[u].op = "search" /\ th[u].key = key[n] =>
            value'[n] = value[n] \/ value'[n] \in th'[u].results
    BY <1>1
  <2>. QED
    BY <1>1, <1>4, <2>1, HistoryStep
<1>6. /\ CallOf(r) = [op |-> r.op, key |-> r.key, val |-> r.val, results |-> r.results]
      /\ CallOf(th'[t]) = [op |-> r.op, key |-> r.key, val |-> r.val, results |-> {Success}]
  BY <1>1, <1>2, <1>3 DEF CallOf
<1>7. ASSUME NEW u \in Thread \ {t}
      PROVE  CallOf(th'[u]) = IF CallOf(th[u]).op = "search" /\ CallOf(th[u]).key = r.key
                              THEN [CallOf(th[u]) EXCEPT !.results = @ \cup {r.val}]
                              ELSE CallOf(th[u])
  <2>1. th'[u] = IF th[u].op = "search" /\ th[u].key = r.key
                 THEN [th[u] EXCEPT !.results = th[u].results \cup {r.val}] ELSE th[u]
    BY DEF TakeEffect
  <2>2. th[u] \in ThreadState
    BY <1>1 DEF TypeOK
  <2>3. CASE th[u].op = "search" /\ th[u].key = r.key
    <3>1. /\ th'[u].pc = th[u].pc /\ th'[u].op = "search" /\ th'[u].key = r.key
          /\ th'[u].val = th[u].val /\ th'[u].out = th[u].out
          /\ th'[u].results = th[u].results \cup {r.val}
      BY <2>1, <2>2, <2>3 DEF ThreadState
    <3>. QED
      BY <2>3, <3>1 DEF CallOf
  <2>4. CASE ~(th[u].op = "search" /\ th[u].key = r.key)
    BY <2>1, <2>4 DEF CallOf
  <2>. QED
    BY <2>3, <2>4
<1>8. Map' = [Map EXCEPT ![r.key] = r.val]
  BY MapNow, MapNext
<1>9. /\ Underway[t] = CallOf(r) /\ \A u \in Thread : Underway[u] = CallOf(th[u])
      /\ Underway' = [u \in Thread |-> CallOf(th'[u])]
  BY DEF Underway
<1>10. Underway' = [u \in Thread |->
         CASE u = t -> [Underway[t] EXCEPT !.results = {Success}]
           [] Underway[u].op = "search" /\ Underway[u].key = Underway[t].key
                -> [Underway[u] EXCEPT !.results = @ \cup {Underway[t].val}]
           [] OTHER -> Underway[u]]
  <2>1. ASSUME NEW u \in Thread
        PROVE  CallOf(th'[u]) =
                 CASE u = t -> [Underway[t] EXCEPT !.results = {Success}]
                   [] Underway[u].op = "search" /\ Underway[u].key = Underway[t].key
                        -> [Underway[u] EXCEPT !.results = @ \cup {Underway[t].val}]
                   [] OTHER -> Underway[u]
    <3>1. Underway[t].op # "search" /\ Underway[t].key = r.key /\ Underway[t].val = r.val
      BY <1>6, <1>9
    <3>2. CASE u = t
      <4>1. [Underway[t] EXCEPT !.results = {Success}] = CallOf(th'[t])
        BY <1>6, <1>9
      <4>. QED
        BY <3>1, <3>2, <4>1
    <3>3. CASE u # t
      BY <1>7, <1>9, <3>1, <3>3
    <3>. QED
      BY <3>2, <3>3
  <2>. QED
    BY <1>9, <2>1
<1>11. AbstractMap!TakeEffect(t)
  <2>1. /\ Underway[t].op \in {"insert", "remove"} /\ Success \notin Underway[t].results
        /\ Underway[t].key = r.key /\ Underway[t].val = r.val
    BY <1>3, <1>6, <1>9
  <2>2. Map' = [Map EXCEPT ![Underway[t].key] = Underway[t].val]
    BY <1>8, <2>1
  <2>. QED
    BY <1>10, <2>1, <2>2 DEF AbstractMap!TakeEffect
<1>. QED
  BY <1>5, <1>11
-----------------------------------------------------------------------------
\* A search that goes on carries its call ...
LEMMA SearchCarries ==
  ASSUME NEW r \in ThreadState, r.pc \in Searching, NEW n, NEW s, GoesOn(r, s, n), SameCall(r, s)
  PROVE  Carries(r, s)
<1>1. r.pc # "Return"
  BY DEF Searching
<1>. QED
  BY <1>1 DEF Carries, Done, Unlinked, GoesOn

\* ... and where its last level has ended is what its caller looks at ...
LEMMA DonePlace ==
  ASSUME TypeOK, NEW r \in ThreadState, r.pc \in Searching, NEW n \in Pointer,
         LocalInv(r, key, level), NEW s, s = LevelDone(r, n), s.pc = "Place"
  PROVE  s.succs[0] = n /\ r.lvl = 0
<1> USE Constants
<1> DEFINE a == [r EXCEPT !.preds[r.lvl] = r.cur, !.succs[r.lvl] = n, !.next = NULL]
<1>1. /\ a \in ThreadState
      /\ a.op = r.op /\ a.tower = r.tower /\ a.lvl = r.lvl /\ a.succs[r.lvl] = n
  BY DEF ThreadState, Pointer
<1>2. s = IF r.lvl = r.to THEN Filled([a EXCEPT !.cur = Header])
                          ELSE [a EXCEPT !.pc = "Load", !.lvl = a.lvl - 1]
  BY <1>1 DEF LevelDone, ThreadState
<1> HIDE DEF a
<1>3. r.lvl = r.to
  <2>1. [a EXCEPT !.pc = "Load", !.lvl = a.lvl - 1].pc = "Load"
    BY <1>1 DEF ThreadState
  <2>. QED
    BY <1>2, <2>1
<1> DEFINE u == [a EXCEPT !.cur = Header]
<1>4. u \in ThreadState /\ u.op = r.op /\ u.tower = r.tower /\ u.succs[r.lvl] = n /\ s = Filled(u)
  BY <1>1, <1>2, <1>3 DEF ThreadState
<1> HIDE DEF u
<1>5. \A x, l : \A p \in {"LinkStore", "Retire", "MarkLoad"} :
        /\ [u EXCEPT !.pc = p].pc = p
        /\ [u EXCEPT !.pc = p, !.tower = x, !.lvl = l].pc = p
  BY <1>4 DEF ThreadState
<1>6. u.tower = NULL /\ s = [u EXCEPT !.pc = "Place"]
  <2>1. u.tower # NULL => u.op \in {"insert", "remove"}
    BY <1>4 DEF LocalInv, CallInv
  <2>. QED
    BY <1>4, <1>5, <2>1 DEF Filled
<1>7. s.succs = u.succs
  BY <1>4, <1>6 DEF ThreadState
<1>8. r.to = 0
  BY <1>4, <1>6 DEF LocalInv, CallInv
<1>. QED
  BY <1>3, <1>4, <1>7, <1>8

\* ... which is nothing when a level is at its end.
LEMMA ArriveFound ==
  ASSUME TypeOK, NEW r \in ThreadState, r.pc \in Searching, NEW n \in Pointer,
         LocalInv(r, key, level), NEW s, s = Arrive(r, n), NEW k, NEW v
  PROVE  FoundInv(s, k, v)
<1>1. CASE n = NULL
  BY <1>1, DonePlace DEF Arrive, FoundInv
<1>2. CASE n # NULL
  <2>1. s.pc = "Look"
    BY <1>2 DEF Arrive, ThreadState
  <2>. QED
    BY <2>1 DEF FoundInv
<1>. QED
  BY <1>1, <1>2

\* A search reads where its level goes on.
LEMMA LoadMap ==
  ASSUME Inv, Inv', ApartInv, Shape, History, NEW t \in Thread, Load(t)
  PROVE  History' /\ UNCHANGED AbstractMap!vars
<1> DEFINE r == th[t]
           n == forward[r.cur][r.lvl].to
           s == Arrive(r, n)
<1>1. /\ r \in ThreadState /\ LocalInv(r, key, level) /\ TypeOK /\ r.pc \in Searching
      /\ Become(t, s) /\ UNCHANGED <<key, value>> /\ MapStays
  BY Met, LoadShape DEF Load, Searching, shared, Inv
<1>2. n \in Pointer
  BY <1>1, Fields, Met
<1> HIDE DEF n
<1>3. GoesOn(r, s, n) /\ SameCall(r, s) /\ FoundInv(s, key, value)
  BY <1>1, <1>2, ArriveStep, ArriveCall, ArriveFound
<1>4. s \in ThreadState /\ Carries(r, s)
  BY <1>1, <1>3, SearchKeepsCall, SearchCarries
<1> HIDE DEF s
<1>. QED
  BY <1>1, <1>3, <1>4, CarryStep

\* A search looks at the next tower: if that has its key, it is in the map.
LEMMA LookMap ==
  ASSUME Inv, Inv', ApartInv, Shape, History, NEW t \in Thread, Look(t)
  PROVE  History' /\ UNCHANGED AbstractMap!vars
<1> USE Constants
<1> DEFINE r == th[t]
           after == forward[r.next][r.lvl]
<1>1. /\ r \in ThreadState /\ LocalInv(r, key, level) /\ TypeOK /\ r.pc \in Searching
      /\ r.pc = "Look" /\ AheadInv(r) /\ SeenInv(r) /\ MapStays
      /\ UNCHANGED <<key, value>> /\ Held
  BY Met, LookShape, HeldNow, Zenon
  DEF Look, Searching, shared, Inv, Shape, Tracks, Tracking, ListInv
<1>2. r.next \in Tower /\ r.lvl \in Level /\ after \in Link /\ after.to \in Pointer
  BY <1>1, Fields, Met DEF LocalInv, Pointer
<1>3. CASE Become(t, [r EXCEPT !.pc = "Unlink", !.link = after])
  <2> DEFINE s == [r EXCEPT !.pc = "Unlink", !.link = after]
  <2>1. /\ s \in ThreadState /\ s.pc = "Unlink" /\ s.tower = r.tower /\ s.to = r.to
        /\ SameCall(r, s)
    BY <1>1, <1>2 DEF ThreadState, SameCall
  <2>2. Become(t, s)
    BY <1>3
  <2> HIDE DEF s
  <2>3. Carries(r, s)
    BY <1>1, <2>1 DEF Carries, SameCall, Done, Unlinked, Linking, LinkLevel, Retiring, Searching
  <2>4. FoundInv(s, key, value)
    BY <2>1 DEF FoundInv
  <2>. QED
    BY <1>1, <2>1, <2>2, <2>3, <2>4, CarryStep
<1>4. CASE /\ ~after.marked /\ key[r.next] < r.key
           /\ Become(t, Arrive([r EXCEPT !.cur = r.next], after.to))
  <2> DEFINE q == [r EXCEPT !.cur = r.next]
             s == Arrive(q, after.to)
  <2>1. /\ q \in ThreadState /\ q.tower = r.tower /\ q.pc = "Look" /\ q.to = r.to
        /\ SameCall(r, q)
    BY <1>1, <1>2 DEF ThreadState, SameCall
  <2>2. LocalInv(q, key, level) /\ q.pc \in Searching
    BY <1>1, <1>4, PassAt DEF At
  <2>3. Become(t, s)
    BY <1>4
  <2> HIDE DEF q
  <2>4. GoesOn(q, s, after.to) /\ SameCall(q, s) /\ FoundInv(s, key, value)
    BY <1>1, <1>2, <2>1, <2>2, ArriveStep, ArriveCall, ArriveFound, SMTT(30)
  <2>5. s \in ThreadState /\ Carries(q, s)
    BY <2>1, <2>2, <2>4, SearchKeepsCall, SearchCarries
  <2> HIDE DEF s
  <2>6. Carries(r, s)
    BY <1>1, <2>1, <2>5
    DEF Carries, SameCall, Done, Unlinked, Linking, LinkLevel, Retiring, Searching
  <2>. QED
    BY <1>1, <2>3, <2>4, <2>5, <2>6, CarryStep
<1>5. CASE ~after.marked /\ key[r.next] >= r.key /\ Become(t, LevelDone(r, r.next))
  <2> DEFINE s == LevelDone(r, r.next)
  <2>1. r.next \in Pointer
    BY <1>2 DEF Pointer
  <2>2. GoesOn(r, s, r.next) /\ SameCall(r, s)
    BY <1>1, <2>1, DoneStep, DoneCall
  <2>3. s \in ThreadState /\ Carries(r, s)
    BY <1>1, <2>2, SearchKeepsCall, SearchCarries
  <2>4. Become(t, s)
    BY <1>5
  <2>5. s.pc = "Place" => s.succs[0] = r.next /\ r.lvl = 0
    <3>1. s = LevelDone(r, r.next)
      OBVIOUS
    <3> HIDE DEF s
    <3>2. r \in ThreadState /\ LocalInv(r, key, level) /\ TypeOK /\ r.pc \in Searching
      BY <1>1
    <3>. QED
      BY ONLY <2>1, <3>1, <3>2, DonePlace
  <2> HIDE DEF s
  <2>6. FoundInv(s, key, value)
    <3> SUFFICES ASSUME s.pc = "Place", s.op = "search", key[s.succs[0]] = s.key
                 PROVE  value[s.succs[0]] \in s.results
      BY DEF FoundInv
    <3>1. s.succs[0] = r.next /\ r.op = "search" /\ key[r.next] = r.key /\ s.results = r.results
      BY <2>2, <2>5 DEF SameCall
    <3>2. r.next \in Live
      BY <1>1, <1>2, <1>5, <2>5 DEF AheadInv, Live
    <3>3. r.key \in Key /\ Map[r.key] \in r.results
      BY <1>1, <3>1 DEF SeenInv
    <3>. QED
      BY <1>1, <3>1, <3>2, <3>3 DEF Held
  <2>. QED
    BY <1>1, <2>3, <2>4, <2>6, CarryStep
<1>. QED
  BY <1>3, <1>4, <1>5, SMTT(30) DEF Look

\* A search starts again.
LEMMA RefillMap ==
  ASSUME Inv, ApartInv, Shape, History, NEW t \in Thread, NEW from, NEW to,
         MayRefill(th[t], from, to), th[t].pc # "MarkCas",
         Become(t, Fill(th[t], from, to)), MapStays, UNCHANGED <<key, value>>
  PROVE  History' /\ UNCHANGED AbstractMap!vars
<1> DEFINE r == th[t]
           s == Fill(r, from, to)
<1>1. r \in ThreadState /\ LocalInv(r, key, level)
  BY Met
<1>2. Started(s, r, from, to) /\ Become(t, s)
  BY <1>1, FillStep DEF MayRefill
<1> HIDE DEF s
<1>3. r.pc \in Searching \cup {"LinkCas"} /\ r.pc \notin {"Idle", "Return"}
  BY DEF MayRefill, Searching
<1>4. SameCall(r, s) /\ s \in ThreadState /\ s.tower = r.tower /\ s.pc = "Load" /\ s.to = to
  BY <1>2 DEF SameCall, Started
<1>5. /\ Linking(s) = Linking(r) /\ (Linking(r) => LinkLevel(s) = LinkLevel(r))
      /\ Retiring(s) = Retiring(r)
  <2>1. r.pc = "LinkCas" => r.op = "insert"
    BY <1>1 DEF LocalInv, CallInv
  <2>. QED
    BY <1>3, <1>4, <2>1 DEF SameCall, Linking, LinkLevel, Retiring, MayRefill, Searching
<1>6. Carries(r, s)
  BY <1>3, <1>4, <1>5 DEF Carries, Done, Unlinked
<1>7. FoundInv(s, key', value')
  BY <1>4 DEF FoundInv
<1>. QED
  BY <1>2, <1>4, <1>6, <1>7, CarryStep
-----------------------------------------------------------------------------
\* What the end of a call changes in its local state.
LEMMA EndingFields ==
  ASSUME NEW r \in ThreadState, NEW o \in Outcome
  PROVE  /\ Ending(r) \in ThreadState /\ Ending(r).pc = "Return" /\ Ending(r).op = r.op
         /\ Ending(r).key = r.key /\ Ending(r).val = r.val /\ Ending(r).out = r.out
         /\ Ending([r EXCEPT !.out = o]) \in ThreadState
         /\ Ending([r EXCEPT !.out = o]).pc = "Return" /\ Ending([r EXCEPT !.out = o]).op = r.op
         /\ Ending([r EXCEPT !.out = o]).key = r.key /\ Ending([r EXCEPT !.out = o]).val = r.val
         /\ Ending([r EXCEPT !.out = o]).out = o
<1>1. /\ Ending(r) \in ThreadState /\ Ending(r).pc = "Return" /\ Ending(r).op = r.op
      /\ Ending(r).key = r.key /\ Ending(r).val = r.val /\ Ending(r).out = r.out
  BY DEF Ending, ThreadState
<1> DEFINE q == [r EXCEPT !.out = o]
<1>2. q \in ThreadState /\ q.op = r.op /\ q.key = r.key /\ q.val = r.val /\ q.out = o
  BY DEF ThreadState
<1> HIDE DEF q
<1>3. /\ Ending(q) \in ThreadState /\ Ending(q).pc = "Return" /\ Ending(q).op = r.op
      /\ Ending(q).key = r.key /\ Ending(q).val = r.val /\ Ending(q).out = o
  BY <1>2 DEF Ending, ThreadState
<1>. QED
  BY <1>1, <1>3 DEF q

\* A search unlinks a marked tower, or starts again.
LEMMA UnlinkMap ==
  ASSUME Inv, Inv', ApartInv, Shape, History, NEW t \in Thread, Unlink(t)
  PROVE  History' /\ UNCHANGED AbstractMap!vars
<1> DEFINE r == th[t]
<1>1. /\ r \in ThreadState /\ LocalInv(r, key, level) /\ r.pc = "Unlink" /\ r.pc \in Searching
      /\ UNCHANGED <<key, value>> /\ MapStays
  BY Met, UnlinkShape, Zenon DEF Unlink, Searching
<1>2. CASE Become(t, Reset(r))
  <2>1. r = [r EXCEPT !.from = r.from, !.to = r.to]
    BY <1>1 DEF ThreadState
  <2>2. Become(t, Fill(r, r.from, r.to))
    BY <1>2, <2>1 DEF Fill
  <2>3. MayRefill(r, r.from, r.to)
    BY <1>1, Fields DEF MayRefill, LocalInv, CallInv, LinkLevel
  <2>. QED
    BY <1>1, <2>2, <2>3, RefillMap
<1>3. CASE Become(t, [r EXCEPT !.pc = "Load", !.next = NULL, !.link = NoCall.link])
  <2> DEFINE s == [r EXCEPT !.pc = "Load", !.next = NULL, !.link = NoCall.link]
  <2>1. /\ s \in ThreadState /\ s.pc = "Load" /\ SameCall(r, s) /\ s.tower = r.tower
        /\ s.to = r.to
    BY <1>1, NoCallType DEF SameCall, ThreadState
  <2>2. Become(t, s)
    BY <1>3
  <2> HIDE DEF s
  <2>3. Carries(r, s)
    BY <1>1, <2>1 DEF Carries, SameCall, Done, Unlinked, Linking, LinkLevel, Retiring, Searching
  <2>4. FoundInv(s, key, value)
    BY <2>1 DEF FoundInv
  <2>. QED
    BY <1>1, <2>1, <2>2, <2>3, <2>4, CarryStep
<1>. QED
  BY <1>2, <1>3, SMTT(30) DEF Unlink

\* An insertion that finds its key takes effect when it stores the value.
LEMMA UpdateMap ==
  ASSUME Inv, Inv', ApartInv, Shape, History, NEW t \in Thread, UpdateValue(t)
  PROVE  History' /\ AbstractMap!TakeEffect(t)
<1> USE Constants
<1> DEFINE r == th[t]
           s == Ending(r)
<1>1. /\ r \in ThreadState /\ LocalInv(r, key, level) /\ r.pc = "Place" /\ r.op = "insert"
      /\ TakeEffect(t, s) /\ Found(r) /\ SeenInv(r) /\ UNCHANGED key /\ TypeOK
      /\ value' = [value EXCEPT ![r.succs[0]] = r.val]
      /\ \A k \in Key : Map'[k] = IF k = r.key THEN r.val ELSE Map[k]
  BY Met, UpdateShape DEF UpdateValue, Placed, Inv, Shape, Tracks
<1>2. /\ s \in ThreadState /\ s.pc = "Return" /\ s.op = r.op /\ s.key = r.key /\ s.val = r.val
      /\ s.out = r.out
  BY <1>1, EndingFields DEF Outcome
<1> HIDE DEF s
<1>3. r.key \in Key /\ ~Done(r)
  BY <1>1 DEF SeenInv, LocalInv, CallInv, Done, Linking, Retiring
<1>4. \A n \in Tower : value'[n] = value[n] \/ (key[n] = r.key /\ value'[n] = r.val)
  BY <1>1 DEF TypeOK, Found
<1>. QED
  BY <1>1, <1>2, <1>3, <1>4, EffectStep

\* An insertion that gets no memory fails without an effect.
LEMMA NoMemoryMap ==
  ASSUME Inv, Inv', ApartInv, Shape, History, NEW t \in Thread, NoMemory(t)
  PROVE  History' /\ UNCHANGED AbstractMap!vars
<1> DEFINE r == th[t]
           s == Ending([r EXCEPT !.out = Failure])
<1>1. /\ r \in ThreadState /\ LocalInv(r, key, level) /\ r.pc = "Place" /\ r.op = "insert"
      /\ Become(t, s) /\ UNCHANGED <<key, value>> /\ MapStays /\ OutInv(r)
  BY Met, EndShape DEF NoMemory, Placed, shared, History
<1>2. /\ s \in ThreadState /\ s.pc = "Return" /\ s.op = r.op /\ s.key = r.key /\ s.val = r.val
      /\ s.out = Failure
  BY <1>1, EndingFields DEF Outcome
<1> HIDE DEF s
<1>3. r.results = {Failure}
  BY <1>1 DEF OutInv, Done, LocalInv, CallInv, Linking, Retiring
<1>. QED
  BY <1>1, <1>2, <1>3, EndStep

\* A new tower is not in the map yet.
LEMMA NewTowerMap ==
  ASSUME Inv, Inv', ApartInv, Shape, History, NEW t \in Thread, NewTower(t)
  PROVE  History' /\ UNCHANGED AbstractMap!vars
<1> USE Constants
<1> DEFINE r == th[t]
           n == allocated + 1
<1>1. /\ r \in ThreadState /\ LocalInv(r, key, level) /\ r.pc = "Place" /\ r.op = "insert"
      /\ TypeOK /\ allocated \in Nat /\ allocated < Towers
      /\ key' = [key EXCEPT ![n] = r.key] /\ value' = [value EXCEPT ![n] = r.val]
  BY Met DEF NewTower, Placed, Inv, TypeOK
<1>0. MapStays
  BY NewTowerShape
<1>2. PICK lev \in Level :
        Become(t, [r EXCEPT !.tower = n,
                            !.pc = IF lev > max_level THEN "MaxStore" ELSE "LinkStore"])
  BY Zenon DEF NewTower, generate_level
<1> DEFINE pc == IF lev > max_level THEN "MaxStore" ELSE "LinkStore"
           s  == [r EXCEPT !.tower = n, !.pc = pc]
<1>3. n \in Pointer /\ \A m \in Tower : m <= allocated => m # n
  BY <1>1 DEF Tower, Pointer
<1>4. pc \in {"MaxStore", "LinkStore"} /\ Become(t, s)
  BY <1>2
<1>5. \A m \in Tower : m <= allocated => key'[m] = key[m] /\ value'[m] = value[m]
  BY <1>1, <1>3 DEF TypeOK
<1> HIDE DEF pc, n
<1>6. r.tower = NULL /\ r.lvl = 0
  BY <1>1 DEF LocalInv, CallInv
<1>7. s \in ThreadState /\ s.pc = pc /\ SameCall(r, s) /\ s.lvl = 0
  BY <1>1, <1>3, <1>4, <1>6 DEF ThreadState, SameCall
<1> HIDE DEF s
<1>8. Carries(r, s)
  BY <1>1, <1>4, <1>6, <1>7
  DEF Carries, SameCall, Done, Unlinked, Linking, LinkLevel, Retiring, Searching
<1>9. FoundInv(s, key', value')
  BY <1>4, <1>7 DEF FoundInv
<1>. QED
  BY <1>0, <1>4, <1>5, <1>7, <1>8, <1>9, CarryStep

\* The steps of a call from one access to its tower to the next.
LEMMA HandMap ==
  ASSUME Inv, Shape, History, NEW t \in Thread, NEW s \in ThreadState,
         Become(t, s), SameCall(th[t], s), s.tower = th[t].tower, th[t].op # "search",
         \/ th[t].pc = "MaxStore" /\ s.pc = "LinkStore" /\ s.lvl = th[t].lvl
         \/ th[t].pc = "LinkStore" /\ s.pc = "LinkCas" /\ s.lvl = th[t].lvl
         \/ /\ th[t].pc \in {"MarkLoad", "MarkCas"} /\ s.pc \in {"MarkLoad", "MarkCas"}
            /\ th[t].op = "remove",
         UNCHANGED <<key, value>>, MapStays
  PROVE  History' /\ UNCHANGED AbstractMap!vars
<1>1. Carries(th[t], s)
  BY DEF Carries, SameCall, Done, Unlinked, Linking, LinkLevel, Retiring, Searching
<1>2. FoundInv(s, key, value)
  BY DEF FoundInv, SameCall
<1>. QED
  BY <1>1, <1>2, CarryStep

\* An insertion raises max_level, or stores where its tower is to lead.
LEMMA StoreMap ==
  ASSUME Inv, Inv', ApartInv, Shape, History, NEW t \in Thread, MaxStore(t) \/ LinkStore(t)
  PROVE  History' /\ UNCHANGED AbstractMap!vars
<1> DEFINE r == th[t]
<1>1. r \in ThreadState /\ LocalInv(r, key, level) /\ UNCHANGED <<key, value>> /\ MapStays
  BY Met, MaxStoreShape, StoreShape DEF MaxStore, LinkStore
<1>2. ASSUME NEW p \in {"LinkStore", "LinkCas"}, Become(t, [r EXCEPT !.pc = p]),
             \/ r.pc = "MaxStore" /\ p = "LinkStore"
             \/ r.pc = "LinkStore" /\ p = "LinkCas"
      PROVE  History' /\ UNCHANGED AbstractMap!vars
  <2> DEFINE s == [r EXCEPT !.pc = p]
  <2>1. s \in ThreadState /\ s.pc = p /\ SameCall(r, s) /\ s.tower = r.tower /\ s.lvl = r.lvl
    BY <1>1 DEF SameCall, ThreadState
  <2>2. Become(t, s)
    BY <1>2
  <2> HIDE DEF s
  <2>3. r.op # "search"
    BY <1>1, <1>2 DEF LocalInv, CallInv
  <2>. QED
    BY <1>1, <1>2, <2>1, <2>2, <2>3, HandMap
<1>. QED
  BY <1>2 DEF MaxStore, LinkStore

\* An insertion takes effect when it links its tower on the bottom level.
LEMMA LinkMap ==
  ASSUME Inv, Inv', ApartInv, Shape, History, NEW t \in Thread, LinkCas(t)
  PROVE  History' /\ (AbstractMap!TakeEffect(t) \/ UNCHANGED AbstractMap!vars)
<1> USE Constants
<1> DEFINE r == th[t]
           s == Linked(r)
<1>1. /\ r \in ThreadState /\ LocalInv(r, key, level) /\ r.pc = "LinkCas"
      /\ r.op = "insert" /\ Linking(r) /\ LinkLevel(r) = r.lvl /\ r.tower # NULL
      /\ r.lvl \in Level /\ level[r.tower] \in Level /\ r.lvl <= level[r.tower]
      /\ r.key \in Key /\ ~Retiring(r) /\ OutInv(r) /\ UNCHANGED <<key, value>>
  BY LinkerKnows DEF LinkCas, History
<1>2. CASE CasFails(r.preds[r.lvl], r.lvl, Unmarked(r.succs[r.lvl])) /\ Become(t, Refill(r))
  <2>1. MapStays
    BY <1>2, LinkFailsShape DEF CasFails
  <2>2. MayRefill(r, TopLevel, r.lvl)
    BY <1>1 DEF MayRefill, LinkLevel, Searching, Level
  <2>. QED
    BY <1>1, <1>2, <2>1, <2>2, RefillMap DEF Refill
<1>3. CASE /\ Cas(r.preds[r.lvl], r.lvl, Unmarked(r.succs[r.lvl]), Unmarked(r.tower))
           /\ IF r.lvl = 0 THEN TakeEffect(t, s) ELSE Become(t, s)
  <2>1. /\ s \in ThreadState /\ s.op = "insert" /\ s.key = r.key /\ s.val = r.val
        /\ s.tower = r.tower /\ s.out = r.out /\ s.results = r.results
        /\ s.pc \in {"LinkStore", "Return"} /\ ~Unlinked(s)
        /\ ~Linking(s) \/ Linking(s)
    BY <1>1, LinkedStep
  <2>2. \A k \in Key : Map'[k] = IF r.lvl = 0 /\ k = r.key THEN r.val ELSE Map[k]
    BY <1>1, <1>3, LinkOnShape DEF LinkCas, Goes
  <2> HIDE DEF s
  <2>3. s.pc = "Return" \/ Done(s)
    BY <1>1, <2>1 DEF Done, Linking
  <2>4. CASE r.lvl = 0
    <3>1. ~Done(r)
      BY <1>1, <2>4 DEF Done, Unlinked
    <3>. QED
      BY <1>1, <1>3, <2>1, <2>2, <2>3, <2>4, <3>1, EffectStep
  <2>5. CASE r.lvl # 0
    <3>1. Done(r) /\ MapStays /\ Become(t, s)
      BY <1>1, <1>3, <2>2, <2>5 DEF Done, Unlinked, MapStays
    <3>2. r.results = {Success} /\ s.out = Success
      BY <1>1, <2>1, <3>1 DEF OutInv
    <3>3. CASE s.pc = "Return"
      BY <1>1, <2>1, <3>1, <3>2, <3>3, EndStep
    <3>4. CASE s.pc # "Return"
      <4>1. Carries(r, s) /\ FoundInv(s, key, value)
        BY <1>1, <2>1, <2>3, <3>1, <3>4 DEF Carries, SameCall, FoundInv
      <4>. QED
        BY <1>1, <2>1, <3>1, <4>1, CarryStep
    <3>. QED
      BY <3>3, <3>4
  <2>. QED
    BY <2>4, <2>5
<1>. QED
  BY <1>2, <1>3 DEF LinkCas
-----------------------------------------------------------------------------
\* A removal or a search that has not found its key: no tower in the map has it.
LEMMA KeyGone ==
  ASSUME Inv, Shape, NEW t \in Thread, th[t].pc = "Place", th[t].op \in {"remove", "search"},
         ~Found(th[t]), ~Missed(th[t])
  PROVE  th[t].key \in Key /\ Map[th[t].key] = Absent
<1> USE Constants
<1> DEFINE r == th[t]
<1>1. LocalInv(r, key, level) /\ FindInv(r) /\ SeenInv(r) /\ Held
  BY Met, HeldNow DEF Inv, Shape, Tracks, Tracking, ListInv
<1>2. r.tower = NULL /\ r.key \in Key
  BY <1>1 DEF LocalInv, CallInv, SeenInv
<1>3. ASSUME NEW n \in Live, key[n] = r.key
      PROVE  FALSE
  <2>1. n \in Tower /\ Target(r, n, 0)
    BY <1>2, <1>3 DEF Target, Live
  <2>2. n = r.succs[0]
    BY <1>1, <2>1 DEF FindInv
  <2>. QED
    BY <1>3, <2>1, <2>2 DEF Found
<1>. QED
  BY <1>1, <1>2, <1>3 DEF Held

\* A removal that does not find its key takes effect: there was nothing to remove.
LEMMA AbsentMap ==
  ASSUME Inv, Inv', ApartInv, Shape, History, NEW t \in Thread, RemoveAbsent(t)
  PROVE  History' /\ AbstractMap!TakeEffect(t)
<1> DEFINE r == th[t]
           s == Ending(r)
<1>1. /\ r \in ThreadState /\ LocalInv(r, key, level) /\ r.pc = "Place" /\ r.op = "remove"
      /\ ~Found(r) /\ TakeEffect(t, s) /\ UNCHANGED <<key, value>> /\ SeenInv(r)
  BY Met DEF RemoveAbsent, Placed, shared, Shape, Tracks
<1>2. MapStays
  BY EndShape
<1>3. /\ s \in ThreadState /\ s.pc = "Return" /\ s.op = r.op /\ s.key = r.key /\ s.val = r.val
      /\ s.out = r.out
  BY <1>1, EndingFields DEF Outcome
<1> HIDE DEF s
<1>4. r.key \in Key /\ Map[r.key] = Absent /\ r.val = Absent
  BY <1>1, KeyGone DEF Missed, SeenInv
<1>5. ~Done(r)
  BY <1>1 DEF Done, Linking, Retiring, Searching
<1>6. \A k \in Key : Map'[k] = IF k = r.key THEN r.val ELSE Map[k]
  BY <1>2, <1>4 DEF MapStays
<1>. QED
  BY <1>1, <1>3, <1>4, <1>5, <1>6, EffectStep

\* A removal reads the pointer that it is to mark.
LEMMA MarkLoadMap ==
  ASSUME Inv, Inv', ApartInv, Shape, History, NEW t \in Thread, MarkLoad(t)
  PROVE  History' /\ UNCHANGED AbstractMap!vars
<1> USE Constants
<1> DEFINE r == th[t]
           now == forward[r.tower][r.lvl]
           link == IF r.lvl = 0 THEN Unmarked(now.to) ELSE now
           s == [r EXCEPT !.pc = "MarkCas", !.link = link]
<1>1. /\ r \in ThreadState /\ LocalInv(r, key, level) /\ r.pc = "MarkLoad" /\ Become(t, s)
      /\ UNCHANGED <<key, value>> /\ MapStays
  BY Met, MarkLoadShape, Zenon DEF MarkLoad, shared
<1>2. r.tower \in Tower /\ r.lvl \in Level /\ r.op = "remove"
  BY <1>1 DEF LocalInv, CallInv, ThreadState, Pointer
<1>3. link \in Link
  BY <1>2, Met DEF Unmarked, Link
<1> HIDE DEF link
<1>4. s \in ThreadState /\ s.pc = "MarkCas" /\ SameCall(r, s) /\ s.tower = r.tower
  BY <1>1, <1>3 DEF SameCall, ThreadState
<1> HIDE DEF s
<1>. QED
  BY <1>1, <1>2, <1>4, HandMap, SMTT(30)

\* A removal takes effect when its tower is marked on the bottom level, by it or by another.
LEMMA MarkMap ==
  ASSUME Inv, Inv', ApartInv, Shape, History, NEW t \in Thread, MarkCas(t)
  PROVE  History' /\ (AbstractMap!TakeEffect(t) \/ UNCHANGED AbstractMap!vars)
<1> USE Constants
<1> DEFINE r == th[t]
<1>1. /\ r \in ThreadState /\ LocalInv(r, key, level) /\ r.pc = "MarkCas" /\ SeenInv(r)
      /\ TowerInv(r) /\ UNCHANGED <<key, value>> /\ Held
  BY Met, HeldNow DEF MarkCas, Inv, Shape, Tracks, Tracking, ListInv
<1>2. r.op = "remove" /\ r.tower # NULL /\ r.key \in Key /\ r.val = Absent /\ r.lvl \in Level
  BY <1>1, Fields DEF LocalInv, CallInv, SeenInv
<1>3. ~Done(r)
  BY <1>1, <1>2 DEF Done, Linking, Retiring, Searching
<1>4. CASE CasFails(r.tower, r.lvl, r.link) /\ forward[r.tower][0].marked
           /\ TakeEffect(t, Ending(r))
  <2> DEFINE s == Ending(r)
  <2>1. /\ s \in ThreadState /\ s.pc = "Return" /\ s.op = r.op /\ s.key = r.key
        /\ s.val = r.val /\ s.out = r.out
    BY <1>1, EndingFields DEF Outcome
  <2>2. TakeEffect(t, s) /\ MapStays
    BY <1>4, MarkFailsShape
  <2> HIDE DEF s
  <2>3. \A n \in Live : key[n] # r.key
    BY <1>1, <1>2, <1>4 DEF TowerInv, Live
  <2>4. \A k \in Key : Map'[k] = IF k = r.key THEN r.val ELSE Map[k]
    BY <1>1, <1>2, <2>2, <2>3 DEF Held, MapStays
  <2>. QED
    BY <1>1, <1>2, <1>3, <2>1, <2>2, <2>4, EffectStep
<1>5. CASE CasFails(r.tower, r.lvl, r.link) /\ Become(t, [r EXCEPT !.pc = "MarkLoad"])
  <2> DEFINE s == [r EXCEPT !.pc = "MarkLoad"]
  <2>1. s \in ThreadState /\ s.pc = "MarkLoad" /\ SameCall(r, s) /\ s.tower = r.tower
    BY <1>1 DEF SameCall, ThreadState
  <2>2. Become(t, s) /\ MapStays
    BY <1>5, MarkFailsShape
  <2> HIDE DEF s
  <2>. QED
    BY <1>1, <1>2, <2>1, <2>2, HandMap
<1>6. CASE /\ Cas(r.tower, r.lvl, r.link, Marked(r.link.to)) /\ r.lvl = 0
           /\ TakeEffect(t, UnlinkTower(r))
  <2> DEFINE s == Fill(r, TopLevel, 0)
  <2>1. Started(s, r, TopLevel, 0)
    <3>1. 0 \in Level /\ TopLevel \in Level /\ 0 <= TopLevel
      BY DEF Level
    <3>. QED
      BY <1>1, <3>1, FillStep
  <2>2. TakeEffect(t, s)
    BY <1>6 DEF UnlinkTower
  <2> HIDE DEF s
  <2>3. /\ s \in ThreadState /\ s.pc = "Load" /\ s.op = r.op /\ s.key = r.key
        /\ s.val = r.val /\ s.out = r.out /\ s.tower = r.tower
    BY <2>1 DEF Started
  <2>4. Done(s)
    BY <1>2, <2>3 DEF Done, Retiring, Searching
  <2>5. \A k \in Key : Map'[k] = IF k = r.key THEN r.val ELSE Map[k]
    BY <1>2, <1>6, MarkBottomShape
  <2>. QED
    BY <1>1, <1>2, <1>3, <2>2, <2>3, <2>4, <2>5, EffectStep
<1>7. CASE /\ Cas(r.tower, r.lvl, r.link, Marked(r.link.to)) /\ r.lvl # 0
           /\ Become(t, [r EXCEPT !.pc = "MarkLoad", !.lvl = @ - 1])
  <2> DEFINE s == [r EXCEPT !.pc = "MarkLoad", !.lvl = r.lvl - 1]
  <2>1. r.lvl - 1 \in Level
    BY <1>2, <1>7 DEF Level
  <2>2. s \in ThreadState /\ s.pc = "MarkLoad" /\ SameCall(r, s) /\ s.tower = r.tower
    BY <1>1, <2>1 DEF SameCall, ThreadState
  <2>3. Become(t, s)
    BY <1>1, <1>7 DEF ThreadState
  <2>4. MapStays
    BY <1>7, MarkOnShape, Zenon
  <2> HIDE DEF s
  <2>. QED
    BY <1>1, <1>2, <2>2, <2>3, <2>4, HandMap
<1>8. forward[r.tower][r.lvl] = r.link => ~CasFails(r.tower, r.lvl, r.link)
  BY DEF CasFails
<1>. QED
  BY <1>4, <1>5, <1>6, <1>7 DEF MarkCas

\* A removal hands its tower to the reclaim list: it has taken effect before.
LEMMA RetireMap ==
  ASSUME Inv, Inv', ApartInv, Shape, History, NEW t \in Thread, Retire(t)
  PROVE  History' /\ UNCHANGED AbstractMap!vars
<1> DEFINE r == th[t]
           s == Ending(r)
<1>1. /\ r \in ThreadState /\ LocalInv(r, key, level) /\ r.pc = "Retire" /\ Become(t, s)
      /\ UNCHANGED <<key, value>> /\ OutInv(r)
  BY Met DEF Retire, History
<1>2. MapStays
  BY RetireShape
<1>3. /\ s \in ThreadState /\ s.pc = "Return" /\ s.op = r.op /\ s.key = r.key /\ s.val = r.val
      /\ s.out = r.out
  BY <1>1, EndingFields DEF Outcome
<1> HIDE DEF s
<1>4. r.op = "remove" /\ r.out = Success /\ r.results = {Success}
  BY <1>1 DEF LocalInv, CallInv, OutInv, Done, Retiring
<1>. QED
  BY <1>1, <1>2, <1>3, <1>4, EndStep

\* What one thread does to its call.
LEMMA CallStep ==
  ASSUME TypeOK, NEW t \in Thread, NEW s, Become(t, s)
  PROVE  /\ Underway[t] = CallOf(th[t]) /\ Underway' = [Underway EXCEPT ![t] = CallOf(s)]
<1>1. \A u \in Thread : th'[u] = IF u = t THEN s ELSE th[u]
  BY DEF TypeOK, Become
<1>2. Underway' = [u \in Thread |-> CallOf(th'[u])]
  BY DEF Underway
<1>3. \A u \in Thread : CallOf(th'[u]) = IF u = t THEN CallOf(s) ELSE CallOf(th[u])
  BY <1>1
<1>. QED
  BY <1>2, <1>3 DEF Underway
-----------------------------------------------------------------------------
\* A search reports the value that it has read, or that its key was not there.
LEMMA ReportMap ==
  ASSUME Inv, Inv', ApartInv, Shape, History, NEW t \in Thread, ReadValue(t) \/ NoElement(t)
  PROVE  History' /\ AbstractMap!Report(t)
<1> USE Constants
<1> DEFINE r == th[t]
<1>1. /\ r \in ThreadState /\ LocalInv(r, key, level) /\ r.pc = "Place" /\ r.op = "search"
      /\ UNCHANGED <<key, value>> /\ SeenInv(r) /\ OutInv(r) /\ FoundInv(r, key, value)
      /\ TypeOK
  BY Met DEF ReadValue, NoElement, Placed, shared, Inv, Shape, Tracks, History
<1>2. MapStays
  BY EndShape
<1>3. PICK o \in r.results : Become(t, Ending([r EXCEPT !.out = o]))
  <2>1. CASE ReadValue(t)
    <3>1. value[r.succs[0]] \in r.results
      BY <1>1, <2>1 DEF ReadValue, Placed, Found, FoundInv
    <3>. QED
      BY <2>1, <3>1 DEF ReadValue
  <2>2. CASE NoElement(t)
    <3>1. Absent \in r.results
      <4>1. ~Found(r)
        BY <2>2 DEF NoElement, Placed
      <4>2. Map[r.key] \in r.results
        BY <1>1 DEF SeenInv
      <4>. QED
        BY <1>1, <4>1, <4>2, KeyGone DEF Missed
    <3>. QED
      BY <2>2, <3>1 DEF NoElement
  <2>. QED
    BY <2>1, <2>2
<1> DEFINE s == Ending([r EXCEPT !.out = o])
<1>4. o \in Outcome
  BY <1>1 DEF ThreadState
<1>5. /\ s \in ThreadState /\ s.pc = "Return" /\ s.op = "search" /\ s.key = r.key
      /\ s.val = r.val /\ s.out = o /\ Become(t, s)
  BY <1>1, <1>3, <1>4, EndingFields
<1> HIDE DEF s
<1>6. History'
  <2>1. th'[t] = s /\ Others(t)
    BY <1>1, <1>5, NearStep DEF Goes
  <2>2. OutInv(s) /\ FoundInv(s, key, value)
    BY <1>5 DEF OutInv, FoundInv
  <2>. QED
    BY <1>1, <2>1, <2>2, HistoryStep
<1>7. /\ Underway[t] = CallOf(r) /\ Underway' = [Underway EXCEPT ![t] = CallOf(s)]
  BY <1>1, <1>5, CallStep
<1>8. /\ CallOf(r) = [op |-> "search", key |-> r.key, val |-> r.val, results |-> r.results]
      /\ CallOf(s) = [op |-> "report", key |-> r.key, val |-> r.val, results |-> {o}]
  BY <1>1, <1>5 DEF CallOf
<1>9. CallOf(s) = [Underway[t] EXCEPT !.op = "report", !.results = {o}]
  <2>1. Underway[t] = [op |-> "search", key |-> r.key, val |-> r.val, results |-> r.results]
    BY ONLY <1>7, <1>8
  <2>2. [Underway[t] EXCEPT !.op = "report", !.results = {o}]
          = [op |-> "report", key |-> r.key, val |-> r.val, results |-> {o}]
    <3> DEFINE u == Underway[t]
               w == [u EXCEPT !.op = "report", !.results = {o}]
    <3>1. u \in [op : {"search"}, key : {r.key}, val : {r.val}, results : {r.results}]
      BY ONLY <2>1
    <3> HIDE DEF u
    <3>2. w \in [op : {"report"}, key : {r.key}, val : {r.val}, results : {{o}}]
      BY ONLY <3>1
    <3> HIDE DEF w
    <3>3. w = [op |-> "report", key |-> r.key, val |-> r.val, results |-> {o}]
      BY ONLY <3>2
    <3>. QED
      BY ONLY <3>3 DEF u, w
  <2>. QED
    BY ONLY <1>8, <2>2
<1>10. Underway[t].op = "search" /\ Underway[t].results = r.results
  BY <1>7, <1>8
<1>11. Map' = Map
  BY <1>2, MapNow, MapNext DEF MapStays
<1>12. \E x \in Underway[t].results :
         Underway' = [Underway EXCEPT ![t] = [Underway[t] EXCEPT !.op = "report", !.results = {x}]]
  BY <1>7, <1>9, <1>10, Zenon
<1>13. AbstractMap!Report(t)
  BY <1>10, <1>11, <1>12, Zenon DEF AbstractMap!Report, AbstractMap!Become
<1>. QED
  BY <1>6, <1>13

\* A call returns what it has come to.
LEMMA ReturnMap ==
  ASSUME Inv, Inv', ApartInv, Shape, History, NEW t \in Thread, Return(t)
  PROVE  History' /\ AbstractMap!Return(t)
<1> DEFINE r == th[t]
<1>1. /\ r \in ThreadState /\ r.pc = "Return" /\ Become(t, NoCall) /\ SeenInv(r) /\ TypeOK
      /\ UNCHANGED <<key, value>>
  BY Met DEF Return, shared, Inv, Shape, Tracks
<1>2. MapStays
  BY ReturnShape
<1>3. History'
  <2>1. th'[t] = NoCall /\ Others(t)
    BY <1>1, NoCallType, NearStep DEF Goes
  <2>2. OutInv(NoCall) /\ FoundInv(NoCall, key, value)
    BY NoCallType DEF OutInv, FoundInv, NoCall
  <2>. QED
    BY <1>1, <2>1, <2>2, HistoryStep
<1>4. r.op \in {"insert", "remove", "search"}
  BY <1>1 DEF SeenInv, ThreadState
<1>5. /\ Underway[t] = CallOf(r) /\ Underway' = [Underway EXCEPT ![t] = CallOf(NoCall)]
  BY <1>1, CallStep
<1>6. /\ CallOf(r).op \in {"insert", "remove", "report"} /\ CallOf(r).results = {r.out}
      /\ CallOf(NoCall) = [op |-> "none"]
  BY <1>1, <1>4, NoCallType DEF CallOf, NoCall
<1>7. Map' = Map
  BY <1>2, MapNow, MapNext DEF MapStays
<1>8. AbstractMap!Return(t)
  BY <1>5, <1>6, <1>7 DEF AbstractMap!Return, AbstractMap!Become, AbstractMap!Idle
<1>. QED
  BY <1>3, <1>8

\* The results of a call that has not done anything yet.
FirstResults(c) == CASE c.op = "insert" -> {Failure}
                     [] c.op = "remove" -> {}
                     [] OTHER           -> {Map[c.key]}

\* A call begins; a search may report what its key has now.
LEMMA BeginMap ==
  ASSUME Inv, Inv', ApartInv, Shape, History, NEW t \in Thread, NEW c \in Calls[t],
         BeginCall(t, c)
  PROVE  /\ History'
         /\ AbstractMap!Begin(t, c.op, c.key, c.val, FirstResults(c))
<1> USE Constants
<1>1. /\ c \in Call /\ c.op \in {"insert", "remove", "search"} /\ c.key \in Int
      /\ c.val \in Value \cup {Absent} /\ c.key \in Key
      /\ c.op \in {"remove", "search"} => c.val = Absent
      /\ c.op = "insert" => c.val \in Value
  <2>1. c \in Call
    OBVIOUS
  <2>. QED
    BY <2>1 DEF Call, Key
<1>2. PICK rs \in SUBSET Outcome, from \in Level :
        /\ Begin(t, c, rs, from)
        /\ rs = FirstResults(c)
  <2>1. {Failure} \subseteq Outcome /\ {} \subseteq Outcome
    BY DEF Outcome
  <2>2. {ValueOf(c.key)} \subseteq Outcome /\ ValueOf(c.key) = Map[c.key]
    BY <1>1, ValueOfType DEF Inv, Outcome, Map
  <2>3. max_level \in Level
    BY DEF Inv, TypeOK
  <2>. QED
    BY <1>1, <2>1, <2>2, <2>3 DEF BeginCall, BeginInsert, BeginRemove, BeginSearch, FirstResults
<1> DEFINE q == [NoCall EXCEPT !.op = c.op, !.key = c.key, !.val = c.val, !.results = rs]
           s == Fill(q, from, 0)
           r == th[t]
<1>3. /\ q \in ThreadState
      /\ q.op = c.op /\ q.key = c.key /\ q.val = c.val /\ q.results = rs /\ q.tower = NULL
      /\ q.out = Success
  BY <1>1, NoCallType DEF ThreadState, NoCall
<1> HIDE DEF q
<1>4. Started(s, q, from, 0)
  <2>1. 0 \in Level /\ 0 <= from
    BY DEF Level
  <2>. QED
    BY <1>3, <2>1, FillStep
<1>5. /\ r \in ThreadState /\ r.pc = "Idle" /\ Become(t, s) /\ SeenInv(r) /\ TypeOK
      /\ UNCHANGED <<key, value>>
  BY <1>2, Met DEF Begin, s, q, shared, Inv, Shape, Tracks
<1> HIDE DEF s
<1>6. /\ s \in ThreadState /\ s.op = c.op /\ s.key = c.key /\ s.val = c.val /\ s.results = rs
      /\ s.tower = NULL /\ s.pc = "Load" /\ s.out = Success
  BY <1>3, <1>4 DEF Started
<1>7. History'
  <2>1. th'[t] = s /\ Others(t)
    BY <1>5, <1>6, NearStep DEF Goes
  <2>2. ~Done(s)
    BY <1>6 DEF Done, Linking, Retiring
  <2>3. OutInv(s) /\ FoundInv(s, key, value)
    BY <1>1, <1>2, <1>6, <2>2 DEF OutInv, FoundInv, FirstResults
  <2>. QED
    BY <1>5, <2>1, <2>3, HistoryStep
<1>8. MapStays
  BY BeginShape
<1>9. Map' = Map
  BY <1>8, MapNow, MapNext DEF MapStays
<1>10. /\ Underway[t] = [op |-> "none"]
       /\ Underway' = [Underway EXCEPT ![t] =
            [op |-> c.op, key |-> c.key, val |-> c.val, results |-> rs]]
  <2>1. CallOf(r) = [op |-> "none"]
    BY <1>5 DEF CallOf, SeenInv
  <2>2. CallOf(s) = [op |-> c.op, key |-> c.key, val |-> c.val, results |-> rs]
    BY <1>1, <1>6 DEF CallOf
  <2>. QED
    BY <1>5, <2>1, <2>2, CallStep
<1>11. AbstractMap!Begin(t, c.op, c.key, c.val, rs)
  BY <1>9, <1>10 DEF AbstractMap!Begin, AbstractMap!Become, AbstractMap!Idle
<1>. QED
  BY <1>2, <1>7, <1>11
-----------------------------------------------------------------------------
\* The empty list is the empty map.
LEMMA InitMap == Init => History /\ AbstractMap!Init
<1> USE Constants, NoCallType
<1> SUFFICES ASSUME Init PROVE History /\ AbstractMap!Init
  OBVIOUS
<1>1. /\ th = [t \in Thread |-> NoCall] /\ allocated = 0 /\ Shape /\ Inv
  BY InitShape, InitInv DEF Init, NewList
<1>2. History
  <2>1. OutInv(NoCall) /\ FoundInv(NoCall, key, value)
    BY DEF OutInv, FoundInv, NoCall
  <2>. QED
    BY <1>1, <2>1, Zenon DEF History
<1>3. Map = [k \in Key |-> Absent]
  <2>1. \A n \in Tower : n \notin Live
    <3>1. \A n \in Tower : ~(n <= 0)
      BY DEF Tower
    <3>. QED
      BY <1>1, <3>1 DEF Live, Joined
  <2>2. Held
    BY <1>1, HeldNow DEF Inv, Shape, ListInv
  <2>3. \A k \in Key : Map[k] = Absent
    BY <2>1, <2>2 DEF Held, Live
  <2>. QED
    BY <2>3, MapNow
<1>4. Underway = [t \in Thread |-> [op |-> "none"]]
  <2>1. CallOf(NoCall) = [op |-> "none"]
    BY DEF CallOf, NoCall
  <2>. QED
    BY <1>1, <2>1 DEF Underway
<1>. QED
  BY <1>2, <1>3, <1>4 DEF AbstractMap!Init, AbstractMap!Idle

\* All that is known of the list while its insertions are kept apart.
Sound == Inv /\ ApartInv /\ Shape /\ History

\* The insertions and removals under way are those of AbstractMap ...
UnderwayApart == \A t, u \in Thread : t # u => ~Conflict(Underway[t], Underway[u])

LEMMA ApartUnderway == Apart <=> UnderwayApart
<1>1. \A t \in Thread : th[t].op = "none" => th[t].op \notin {"insert", "remove"}
  OBVIOUS
<1>2. ASSUME NEW t \in Thread
      PROVE  /\ th[t].op \in {"insert", "remove"} =>
                  Underway[t].op = th[t].op /\ Underway[t].key = th[t].key
             /\ Underway[t].op \in {"insert", "remove"} =>
                  Underway[t].op = th[t].op /\ Underway[t].key = th[t].key
  BY DEF Underway, CallOf
<1>3. \A c, r : Conflict(c, r) => c.op \in {"insert", "remove"} /\ r.op \in {"insert", "remove"}
  BY DEF Conflict
<1>4. ASSUME NEW t \in Thread, NEW u \in Thread
      PROVE  Conflict(th[t], th[u]) <=> Conflict(Underway[t], Underway[u])
  BY <1>2, <1>3, Zenon DEF Conflict
<1>. QED
  BY <1>4 DEF Apart, UnderwayApart

\* ... and so they are in the next state.
LEMMA ApartNext == Apart' <=> UnderwayApart'
BY ApartUnderway, PTL

\* Every step of a call under way keeps it, and is one of AbstractMap, or none.
LEMMA SoundWork ==
  ASSUME Sound, NEW t \in Thread, Work(t)
  PROVE  /\ Sound'
         /\ \/ UNCHANGED AbstractMap!vars
            \/ AbstractMap!TakeEffect(t) \/ AbstractMap!Report(t)
<1>1. Inv /\ ApartInv /\ Shape /\ History
  BY DEF Sound
<1>2. Kept
  BY <1>1, WorkKeeps
<1>3. Inv' /\ TypeOK /\ TypeOK'
  BY <1>1, <1>2 DEF Kept, Inv
<1>4. Shape'
  BY <1>1, <1>3, WorkShape
<1>5. /\ History'
      /\ \/ UNCHANGED AbstractMap!vars
         \/ AbstractMap!TakeEffect(t) \/ AbstractMap!Report(t)
  BY <1>1, <1>3, LoadMap, LookMap, UnlinkMap, UpdateMap, NoMemoryMap, NewTowerMap, StoreMap, LinkMap,
     AbsentMap, MarkLoadMap, MarkMap, RetireMap, ReportMap DEF Work
<1>6. Apart'
  <2>1. ASSUME NEW a \in Thread, NEW b \in Thread, a # b, Conflict(Underway'[a], Underway'[b])
        PROVE  FALSE
    <3>1. ASSUME NEW u \in Thread, Underway'[u].op \in {"insert", "remove"}
          PROVE  Underway[u].op = Underway'[u].op /\ Underway[u].key = Underway'[u].key
      <4>1. Underway[u] = CallOf(th[u]) /\ \A v \in Thread : Underway[v] = CallOf(th[v])
        BY DEF Underway
      <4>2. CASE UNCHANGED AbstractMap!vars
        BY <4>2 DEF AbstractMap!vars
      <4>3. CASE AbstractMap!TakeEffect(t)
        <5>1. Underway[t].op \in {"insert", "remove"}
          BY <4>3 DEF AbstractMap!TakeEffect
        <5>2. CASE u = t
          BY <4>3, <5>1, <5>2, <4>1 DEF AbstractMap!TakeEffect, CallOf
        <5>3. CASE u # t
          BY <3>1, <4>3, <5>1, <5>3, <4>1 DEF AbstractMap!TakeEffect, CallOf
        <5>. QED
          BY <5>2, <5>3
      <4>4. CASE AbstractMap!Report(t)
        <5>1. CASE u = t
          <6>1. PICK x \in Underway[t].results :
                  Underway' = [Underway EXCEPT ![t] =
                                 [Underway[t] EXCEPT !.op = "report", !.results = {x}]]
            BY <4>4, Zenon DEF AbstractMap!Report, AbstractMap!Become
          <6>2. /\ Underway = [v \in Thread |-> Underway[v]]
                /\ Underway[t].op = "search"
            BY <4>4 DEF Underway, AbstractMap!Report
          <6>3. \E o, k, v, R : Underway[t] = [op |-> o, key |-> k, val |-> v, results |-> R]
            BY <4>1, <6>2 DEF CallOf
          <6>4. Underway'[t].op = "report"
            BY ONLY <6>1, <6>2, <6>3
          <6>. QED
            BY <3>1, <5>1, <6>4
        <5>2. CASE u # t
          BY <3>1, <4>4, <5>2, <4>1 DEF AbstractMap!Report, AbstractMap!Become, Underway
        <5>. QED
          BY <5>1, <5>2
      <4>. QED
        BY <1>5, <4>2, <4>3, <4>4
    <3>2. Conflict(Underway[a], Underway[b])
      BY <2>1, <3>1 DEF Conflict
    <3>. QED
      BY <1>1, <1>3, <2>1, <3>2, ApartUnderway DEF ApartInv, UnderwayApart
  <2>. QED
    BY <2>1, ApartNext DEF UnderwayApart
<1>. QED
  BY <1>1, <1>2, <1>3, <1>4, <1>5, <1>6 DEF Kept, Sound

\* So does the beginning of a call that conflicts with none,
LEMMA SoundBegin ==
  ASSUME Sound, NEW t \in Thread, NEW c \in Calls[t], BeginCall(t, c),
         \A u \in Thread : ~Conflict(c, th[u])
  PROVE  /\ Sound'
         /\ AbstractMap!Begin(t, c.op, c.key, c.val, FirstResults(c))
<1>1. Inv /\ ApartInv /\ Shape /\ History
  BY DEF Sound
<1>2. Kept
  BY <1>1, BeginKeeps
<1>3. Inv' /\ TypeOK /\ TypeOK'
  BY <1>1, <1>2 DEF Kept, Inv
<1>4. Shape'
  BY <1>1, <1>3, BeginShape
<1>5. History' /\ AbstractMap!Begin(t, c.op, c.key, c.val, FirstResults(c))
  BY <1>1, <1>3, BeginMap
<1>6. Apart'
  <2>1. Underway' = [Underway EXCEPT ![t] =
          [op |-> c.op, key |-> c.key, val |-> c.val, results |-> FirstResults(c)]]
    BY <1>5 DEF AbstractMap!Begin, AbstractMap!Become
  <2>2. \A u \in Thread : ~Conflict(c, Underway[u]) /\ ~Conflict(Underway[u], c)
    <3>1. ASSUME NEW u \in Thread, Underway[u].op \in {"insert", "remove"}
          PROVE  Underway[u].op = th[u].op /\ Underway[u].key = th[u].key
      BY <3>1 DEF Underway, CallOf
    <3>2. \A a, b : Conflict(a, b) =>
            a.op \in {"insert", "remove"} /\ b.op \in {"insert", "remove"} /\ Conflict(b, a)
      BY DEF Conflict
    <3>3. ASSUME NEW u \in Thread, Conflict(c, Underway[u])
          PROVE  Conflict(c, th[u])
      <4>1. Underway[u].op \in {"insert", "remove"}
        BY <3>2, <3>3
      <4>2. Underway[u].op = th[u].op /\ Underway[u].key = th[u].key
        BY <3>1, <4>1
      <4>. QED
        BY <3>3, <4>2 DEF Conflict
    <3>. QED
      BY <3>2, <3>3, Zenon
  <2>3. ASSUME NEW a \in Thread, NEW b \in Thread, a # b, Conflict(Underway'[a], Underway'[b])
        PROVE  FALSE
    <3>1. /\ Underway'[t].op = c.op /\ Underway'[t].key = c.key
          /\ \A u \in Thread \ {t} : Underway'[u] = Underway[u]
      <4>1. Underway = [u \in Thread |-> Underway[u]]
        BY DEF Underway
      <4>. QED
        BY ONLY <2>1, <4>1, t \in Thread
    <3>2. CASE a # t /\ b # t
      <4>1. Conflict(Underway[a], Underway[b])
        BY <2>3, <3>1, <3>2
      <4>. QED
        BY <1>1, <1>3, <2>3, <4>1, ApartUnderway DEF ApartInv, UnderwayApart
    <3>3. CASE a = t
      <4>1. Conflict(c, Underway[b])
        BY <2>3, <3>1, <3>3 DEF Conflict
      <4>. QED
        BY <2>2, <4>1
    <3>4. CASE b = t
      <4>1. Conflict(Underway[a], c)
        BY <2>3, <3>1, <3>4 DEF Conflict
      <4>. QED
        BY <2>2, <4>1
    <3>. QED
      BY <3>2, <3>3, <3>4
  <2>. QED
    BY <2>3, ApartNext DEF UnderwayApart
<1>. QED
  BY <1>1, <1>2, <1>3, <1>4, <1>5, <1>6 DEF Kept, Sound

\* its return,
LEMMA SoundReturn ==
  ASSUME Sound, NEW t \in Thread, Return(t)
  PROVE  Sound' /\ AbstractMap!Return(t)
<1>1. Inv /\ ApartInv /\ Shape /\ History
  BY DEF Sound
<1>2. Kept
  BY <1>1, ReturnKeeps
<1>3. Inv' /\ TypeOK /\ TypeOK'
  BY <1>1, <1>2 DEF Kept, Inv
<1>4. Shape'
  BY <1>1, <1>3, ReturnShape
<1>5. History' /\ AbstractMap!Return(t)
  BY <1>1, <1>3, ReturnMap
<1>6. Apart'
  <2>1. Underway' = [Underway EXCEPT ![t] = [op |-> "none"]]
    BY <1>5 DEF AbstractMap!Return, AbstractMap!Become, AbstractMap!Idle
  <2>2. /\ Underway'[t].op = "none"
        /\ \A u \in Thread \ {t} : Underway'[u] = Underway[u]
    <3>1. Underway = [u \in Thread |-> Underway[u]]
      BY DEF Underway
    <3>. QED
      BY ONLY <2>1, <3>1, t \in Thread
  <2>3. ASSUME NEW a \in Thread, NEW b \in Thread, a # b, Conflict(Underway'[a], Underway'[b])
        PROVE  FALSE
    <3>1. a # t /\ b # t
      BY <2>2, <2>3 DEF Conflict
    <3>2. Conflict(Underway[a], Underway[b])
      BY <2>2, <2>3, <3>1
    <3>. QED
      BY <1>1, <1>3, <2>3, <3>2, ApartUnderway DEF ApartInv, UnderwayApart
  <2>. QED
    BY <2>3, ApartNext DEF UnderwayApart
<1>. QED
  BY <1>1, <1>2, <1>3, <1>4, <1>5, <1>6 DEF Kept, Sound

\* and a step that leaves the list alone.
LEMMA SoundSame ==
  ASSUME Sound, UNCHANGED vars
  PROVE  Sound' /\ UNCHANGED AbstractMap!vars
<1>1. UNCHANGED <<forward, key, value, th>>
  BY DEF vars, shared
<1>2. Map' = Map
  BY <1>1 DEF Map, ValueOf, Holding, Chain
<1>3. Underway' = Underway
  BY <1>1 DEF Underway
<1>4. History'
  BY <1>1 DEF Sound, History
<1>5. Inv' /\ ApartInv'
  BY NextInv, <1>1 DEF Sound, Kept, ApartInv, Apart
<1>6. Shape'
  BY SameShape DEF Sound
<1>. QED
  BY <1>2, <1>3, <1>4, <1>5, <1>6 DEF Sound, AbstractMap!vars

\* It holds of the empty list.
LEMMA InitSound == Init => Sound
BY InitInv, InitShape, InitMap DEF Sound

\* Every step keeps it, if threads keep their insertions apart.
LEMMA NextSound ==
  ASSUME Exclusive
  PROVE  Sound /\ [Next]_vars => Sound' /\ [AbstractMap!Next]_(AbstractMap!vars)
<1> SUFFICES ASSUME Sound, [Next]_vars
             PROVE  Sound' /\ [AbstractMap!Next]_(AbstractMap!vars)
  OBVIOUS
<1>1. CASE UNCHANGED vars
  BY <1>1, SoundSame
<1>2. ASSUME NEW t \in Thread, NEW c \in Calls[t], BeginCall(t, c)
      PROVE  Sound' /\ AbstractMap!Next
  <2>1. c \in Call
    BY Constants
  <2>2. \A u \in Thread : ~Conflict(c, th[u])
    BY <1>2 DEF BeginCall, BeginInsert, BeginRemove, BeginSearch, Begin
  <2>3. Sound' /\ AbstractMap!Begin(t, c.op, c.key, c.val, FirstResults(c))
    BY <1>2, <2>2, SoundBegin
  <2>4. c.key \in Key
    BY DEF Key
  <2>5. \/ c.op = "insert" /\ c.val \in Value
        \/ c.op \in {"remove", "search"} /\ c.val = Absent
    BY <2>1 DEF Call
  <2>6. CASE c.op = "insert"
    BY <2>3, <2>4, <2>5, <2>6 DEF FirstResults, AbstractMap!Next
  <2>7. CASE c.op = "remove"
    BY <2>3, <2>4, <2>5, <2>7 DEF FirstResults, AbstractMap!Next
  <2>8. CASE c.op = "search"
    BY <2>3, <2>4, <2>5, <2>8 DEF FirstResults, AbstractMap!Next
  <2>. QED
    BY <2>3, <2>5, <2>6, <2>7, <2>8
<1>3. ASSUME NEW t \in Thread, Work(t)
      PROVE  Sound' /\ [AbstractMap!Next]_(AbstractMap!vars)
  <2>1. AbstractMap!TakeEffect(t) \/ AbstractMap!Report(t) => AbstractMap!Next
    BY DEF AbstractMap!Next
  <2>. QED
    BY <1>3, <2>1, SoundWork
<1>4. ASSUME NEW t \in Thread, Return(t)
      PROVE  Sound' /\ AbstractMap!Next
  <2>1. AbstractMap!Return(t) => AbstractMap!Next
    BY DEF AbstractMap!Next
  <2>. QED
    BY <1>4, <2>1, SoundReturn
<1>. QED
  BY <1>1, <1>2, <1>3, <1>4 DEF Next

\* All that is known of the list and of the threads, whatever they did before, is true
\* in every state.
LEMMA SoundInvariant ==
  ASSUME Exclusive
  PROVE  Spec => []Sound
<1>1. Sound /\ [Next]_vars => Sound'
  BY NextSound
<1>. QED
  BY <1>1, InitSound, PTL DEF Spec

\* What every reachable state of the list looks like, and what each thread knows
\* of it, if insertions of a key are kept apart from other insertions and removals
\* of it: the compare-and-swaps of insertions, removals and searches (SkipList.c:201,
\* 402, 456 and 466) never take a tower out of the list that is not marked, nor link
\* one where its key does not belong.
THEOREM ShapeInvariant ==
  ASSUME Exclusive
  PROVE  Spec => []Shape
<1>1. Sound => Shape
  BY DEF Sound
<1>2. Spec => []Sound
  BY SoundInvariant
<1>. QED
  BY <1>1, <1>2, PTL

\* A marked pointer is frozen (SkipList.c:201, 402, 456 and 466), on every level,
\* if insertions of a key are kept apart from removals of it.
THEOREM MarksAreFinal ==
  ASSUME Exclusive
  PROVE  Spec => MarksFinal
<1>1. Inv /\ ApartInv /\ [Next]_vars =>
        [\A n \in Tower, l \in Level :
           forward[n][l].marked => forward'[n][l] = forward[n][l]]_vars
  BY MarkedStays
<1>2. Sound => Inv /\ ApartInv
  BY DEF Sound
<1>3. Spec => []Sound
  BY SoundInvariant
<1>. QED
  BY <1>1, <1>2, <1>3, PTL DEF Spec, MarksFinal

\* "Unlink tower by searching for it" (SkipList.c:472-477): when a tower is handed
\* to the reclaim lists, no level leads to it, and none will again, if insertions
\* of a key are kept apart from other insertions and removals of it.
THEOREM RetiredOutOfReach ==
  ASSUME Exclusive
  PROVE  Spec => []RetiredUnlinked
<1>1. Sound => RetiredUnlinked
  BY UnlinkedShape DEF Sound
<1>2. Spec => []Sound
  BY SoundInvariant
<1>. QED
  BY <1>1, <1>2, PTL

\* The towers of every level are in the order of their keys, and when all calls
\* have returned each level leads to the towers that reach it, and to nothing
\* that was removed, if insertions of a key are kept apart from other insertions
\* and removals of it.
THEOREM ListWellFormed ==
  ASSUME Exclusive
  PROVE  Spec => []ListShape
<1>1. Sound => ListShape
  BY WellFormedShape DEF Sound
<1>2. Spec => []Sound
  BY SoundInvariant
<1>. QED
  BY <1>1, <1>2, PTL

\* The skip list is a map whose calls take effect one at a time, each between its
\* start and its end: for any number of threads, towers, levels and keys, if the
\* insertions of a key are kept apart from other insertions and removals of it.
\* Removals of a key may overlap, and searches overlap everything.
THEOREM MapLinearizable ==
  ASSUME Exclusive
  PROVE  Spec => Linearizable
<1>1. Sound /\ [Next]_vars => [AbstractMap!Next]_(AbstractMap!vars)
  BY NextSound
<1>2. Init => AbstractMap!Init
  BY InitMap
<1>3. Spec => []Sound
  BY SoundInvariant
<1>. QED
  BY <1>1, <1>2, <1>3, PTL DEF Spec, Linearizable, AbstractMap!Spec
-----------------------------------------------------------------------------
(***************************************************************************)
(* The benchmark.                                                          *)
(***************************************************************************)
RunInv == /\ Sound /\ FieldsInv /\ RunTypes /\ PhaseInv
          /\ PlanInv /\ WayInv /\ BooksInv

-----------------------------------------------------------------------------
\* What is left of a sequence of calls without its first.
LEMMA TailIs ==
  ASSUME NEW s \in Seq(JobRecord), s # <<>>
  PROVE  /\ Tail(s) \in Seq(JobRecord) /\ Len(s) \in Nat \ {0}
         /\ Len(Tail(s)) = Len(s) - 1 /\ Head(s) = s[1] /\ s[1] \in JobRecord
         /\ \A j \in 1 .. Len(s) - 1 : Tail(s)[j] = s[j + 1]
<1>1. Len(s) \in Nat \ {0}
  OBVIOUS
<1>. QED
  BY <1>1

\* A plan stays one when its first call is over.
LEMMA PlanTail ==
  ASSUME NEW t, NEW s, NEW n, NEW tst, Plan(t, s, n, tst), s # <<>>
  PROVE  Plan(t, Tail(s), n, tst)
<1> DEFINE r == Tail(s)
<1>1. s \in Seq(JobRecord)
  BY DEF Plan
<1>2. /\ r \in Seq(JobRecord) /\ Len(s) \in Nat /\ Len(r) = Len(s) - 1
      /\ \A j \in 1 .. Len(r) : j + 1 \in 1 .. Len(s) /\ r[j] = s[j + 1]
  BY <1>1, TailIs
<1> HIDE DEF r
<1>3. ASSUME NEW j \in 1 .. Len(r), NEW o, Follows(s, j + 1, o)
      PROVE  Follows(r, j, o)
  <2>1. PICK m \in j + 1 + 1 .. Len(s) : CallIs(s, m, o, s[j + 1].key)
    BY <1>3 DEF Follows
  <2>2. m - 1 \in j + 1 .. Len(r) /\ r[m - 1] = s[m] /\ r[j] = s[j + 1]
    <3>1. m - 1 \in j + 1 .. Len(r) /\ m - 1 \in 1 .. Len(r) /\ (m - 1) + 1 = m
      BY <1>2, <2>1
    <3>. QED
      BY <1>2, <3>1
  <2>. QED
    BY <2>1, <2>2 DEF Follows, CallIs
<1>4. ASSUME NEW j \in 1 .. Len(r)
      PROVE  PlanCall(t, r, j, n, tst)
  <2>1. PlanCall(t, s, j + 1, n, tst) /\ r[j] = s[j + 1]
    BY <1>2 DEF Plan
  <2>. QED
    BY <1>3, <2>1 DEF PlanCall
<1>5. ASSUME NEW i \in 1 .. Len(r), NEW j \in 1 .. Len(r), i < j, r[i].key = r[j].key
      PROVE  Rank(Kind(r[i])) < Rank(Kind(r[j]))
  <2>1. i + 1 \in 1 .. Len(s) /\ j + 1 \in 1 .. Len(s) /\ i + 1 < j + 1
    BY <1>2, <1>5
  <2>. QED
    BY <1>2, <1>5, <2>1 DEF Plan
<1>. QED
  BY <1>2, <1>4, <1>5 DEF Plan, r

\* The first call of a plan is the only one of its kind for its key.
LEMMA FirstCall ==
  ASSUME NEW t, NEW s, NEW n, NEW tst, Plan(t, s, n, tst), s # <<>>, NEW o, NEW k
  PROVE  IF CallIs(s, 1, o, k) THEN Occurs(s, o, k) /\ ~Occurs(Tail(s), o, k)
                           ELSE Occurs(Tail(s), o, k) <=> Occurs(s, o, k)
<1> DEFINE r == Tail(s)
<1>1. s \in Seq(JobRecord)
  BY DEF Plan
<1>2. /\ Len(s) \in Nat \ {0} /\ Len(r) = Len(s) - 1
      /\ \A j \in 1 .. Len(r) : j + 1 \in 1 .. Len(s) /\ r[j] = s[j + 1]
      /\ 1 \in 1 .. Len(s)
  BY <1>1, TailIs
<1> HIDE DEF r
<1>3. Occurs(r, o, k) => \E j \in 2 .. Len(s) : CallIs(s, j, o, k)
  <2> SUFFICES ASSUME NEW j \in 1 .. Len(r), CallIs(r, j, o, k)
               PROVE  \E m \in 2 .. Len(s) : CallIs(s, m, o, k)
    BY DEF Occurs
  <2>1. j + 1 \in 2 .. Len(s) /\ CallIs(s, j + 1, o, k)
    BY <1>2 DEF CallIs
  <2>. QED
    BY <2>1
<1>4. ASSUME NEW j \in 2 .. Len(s), CallIs(s, j, o, k)
      PROVE  Occurs(r, o, k)
  <2>1. j - 1 \in 1 .. Len(r) /\ (j - 1) + 1 = j
    BY <1>2
  <2>2. CallIs(r, j - 1, o, k)
    BY <1>2, <1>4, <2>1 DEF CallIs
  <2>. QED
    BY <2>1, <2>2 DEF Occurs
<1>5. CASE CallIs(s, 1, o, k)
  <2>1. ASSUME NEW j \in 2 .. Len(s), CallIs(s, j, o, k)
        PROVE  FALSE
    <3>1. Rank(Kind(s[1])) < Rank(Kind(s[j]))
      BY <1>2, <1>5, <2>1 DEF Plan, CallIs
    <3>. QED
      BY <1>5, <2>1, <3>1 DEF CallIs, Rank
  <2>. QED
    BY <1>2, <1>3, <1>5, <2>1 DEF Occurs, r
<1>6. CASE ~CallIs(s, 1, o, k)
  <2>1. Occurs(s, o, k) => \E j \in 2 .. Len(s) : CallIs(s, j, o, k)
    <3> SUFFICES ASSUME NEW j \in 1 .. Len(s), CallIs(s, j, o, k)
                 PROVE  j \in 2 .. Len(s)
      BY DEF Occurs
    <3>1. j # 1
      BY <1>6
    <3>. QED
      BY <1>2, <3>1
  <2>2. (\E j \in 2 .. Len(s) : CallIs(s, j, o, k)) => Occurs(s, o, k)
    BY <1>2 DEF Occurs
  <2>. QED
    BY <1>3, <1>4, <1>6, <2>1, <2>2 DEF r
<1>. QED
  BY <1>5, <1>6

\* It waits until it takes effect, the others wait in any case.
LEMMA FirstWaits ==
  ASSUME NEW t, NEW s, NEW n, NEW tst, Plan(t, s, n, tst), s # <<>>, NEW o, NEW k, NEW c
  PROVE  Waits(s, c, o, k) <=> Occurs(s, o, k) /\ ~(CallIs(s, 1, o, k) /\ Effective(c))
<1>1. s \in Seq(JobRecord) /\ Len(s) \in Nat
  BY DEF Plan
<1>2. ASSUME NEW j \in 1 .. Len(s), CallIs(s, j, o, k), j # 1, CallIs(s, 1, o, k)
      PROVE  FALSE
  <2>1. 1 \in 1 .. Len(s) /\ 1 < j
    BY <1>1, <1>2
  <2>2. Rank(Kind(s[1])) < Rank(Kind(s[j]))
    BY <1>2, <2>1 DEF Plan, CallIs
  <2>. QED
    BY <1>2, <2>2 DEF CallIs, Rank
<1>. QED
  BY <1>2 DEF Waits, Occurs

\* As long as nothing has taken effect, all that is ahead waits.
LEMMA AllWait ==
  ASSUME NEW s, NEW c, ~Effective(c), NEW o, NEW k
  PROVE  Waits(s, c, o, k) <=> Occurs(s, o, k)
BY DEF Waits, Occurs

-----------------------------------------------------------------------------
\* One thread at most inserts a key, and one at most removes it.
LEMMA Owner ==
  ASSUME NEW A, NEW n, NEW tst, Plans(A, n, tst), NEW t \in Thread, NEW u \in Thread,
         NEW o \in {"insert", "remove"}, NEW k, Occurs(A[t], o, k), Occurs(A[u], o, k)
  PROVE  t = u
<1>1. ASSUME NEW v \in Thread, Occurs(A[v], o, k)
      PROVE  IF v = Main THEN o = "insert" /\ tst \notin Inserting
             ELSE k % n = v /\ (o = "insert" => tst \in Inserting)
  BY <1>1 DEF Plans, Plan, Occurs, CallIs, PlanCall
<1>. QED
  BY <1>1

\* The call that a thread of the correctness test comes to is behind the insertion
\* of its key, unless it is that; and behind the removal, if it comes later.
LEMMA Behind ==
  ASSUME NEW A, NEW n, NEW tst, Plans(A, n, tst), tst \in Inserting, NEW U,
         NEW t \in Thread, A[t] # <<>>, NEW o \in {"insert", "remove"},
         o # Kind(A[t][1]), Rank(o) <= Rank(Kind(A[t][1]))
  PROVE  ~Pending(A, U, o, A[t][1].key)
<1> DEFINE k == A[t][1].key
<1> SUFFICES ASSUME NEW u \in Thread, NEW j \in 1 .. Len(A[u]), CallIs(A[u], j, o, k)
             PROVE  FALSE
  BY DEF Pending, Waits
<1>1. /\ \A v \in Thread : Plan(v, A[v], n, tst) /\ Len(A[v]) \in Nat
      /\ 1 \in 1 .. Len(A[t])
  BY TailIs DEF Plans, Plan
<1>2. u # Main /\ k % n = u /\ t # Main /\ k % n = t
  BY <1>1 DEF Plan, CallIs, PlanCall
<1>3. j # 1
  BY <1>2 DEF CallIs
<1>4. Rank(Kind(A[t][1])) < Rank(o)
  <2>1. 1 < j
    BY <1>3
  <2>. QED
    BY <1>1, <1>2, <2>1 DEF Plan, CallIs
<1>5. Rank(o) \in Int /\ Rank(Kind(A[t][1])) \in Int
  BY DEF Rank
<1>. QED
  BY <1>4, <1>5

\* A call that begins, or a search that settles what it reports, is no news.
LEMMA CallingOn ==
  ASSUME NEW A, NEW U, NEW M, Calling(A, U, M), NEW t \in Thread, NEW V,
         \A u \in Thread \ {t} : V[u] = U[u], Match(V[t], A[t]), ResultsOK(V[t], M)
  PROVE  Calling(A, V, M)
BY DEF Calling

\* A step of a call that takes no effect.
LEMMA BooksOn ==
  ASSUME NEW A, NEW U, NEW M, NEW miss, NEW ec, NEW n, NEW tst, NEW sl,
         Books(A, U, M, miss, ec, n, tst, sl), NEW V,
         \A t \in Thread : Effective(V[t]) <=> Effective(U[t])
  PROVE  Books(A, V, M, miss, ec, n, tst, sl)
<1>1. \A o, k : Pending(A, V, o, k) <=> Pending(A, U, o, k)
  BY DEF Pending, Waits
<1>. QED
  BY <1>1 DEF Books, Contents, MissingOK

\* A call takes effect: the map is what the calls that wait say.
LEMMA BooksEffect ==
  ASSUME NEW A, NEW U, NEW M, NEW miss, NEW ec, NEW n, NEW tst, NEW sl,
         Plans(A, n, tst), Calling(A, U, M), Books(A, U, M, miss, ec, n, tst, sl),
         sl # "NULL", NEW t \in Thread, NEW V,
         \A u \in Thread \ {t} : V[u] = U[u] /\ (U[u].op # "none" => U[u].key # U[t].key),
         U[t].op \in {"insert", "remove"}, Success \notin U[t].results,
         V[t].op = U[t].op, V[t].key = U[t].key, V[t].val = U[t].val,
         V[t].results = {Success}, M = [k \in Key |-> M[k]], Keys \subseteq Key
  PROVE  LET N == [M EXCEPT ![U[t].key] = U[t].val]
         IN  Calling(A, V, N) /\ Books(A, V, N, miss, ec, n, tst, sl)
<1> DEFINE N == [M EXCEPT ![U[t].key] = U[t].val]
           h == A[t][1]
           k0 == U[t].key
<1>1. /\ A[t] # <<>> /\ Head(A[t]) = h /\ h \in JobRecord /\ 1 \in 1 .. Len(A[t])
      /\ U[t].op = h.op /\ k0 = h.key /\ U[t].val = JobCall(h.op, k0).val
      /\ Plan(t, A[t], n, tst) /\ PlanCall(t, A[t], 1, n, tst) /\ Kind(h) = h.op
  <2>1. A[t] # <<>> /\ Plan(t, A[t], n, tst)
    BY DEF Calling, Match, Plans
  <2>2. A[t] \in Seq(JobRecord)
    BY <2>1 DEF Plan
  <2>3. Head(A[t]) = h /\ h \in JobRecord /\ 1 \in 1 .. Len(A[t])
    BY <2>1, <2>2, TailIs
  <2>. QED
    BY <2>1, <2>3 DEF Calling, Match, Plan, Kind
<1>2. k0 \in Keys /\ k0 \in Key /\ CallIs(A[t], 1, h.op, k0)
  BY <1>1 DEF JobRecord, CallIs
<1>3. ~Effective(U[t]) /\ Effective(V[t])
  BY DEF Effective
<1>4. \A k \in Key : N[k] = IF k = k0 THEN U[t].val ELSE M[k]
  BY <1>2
<1> HIDE DEF N, h, k0
<1>5. ASSUME NEW o \in {"insert", "remove"}, NEW k
      PROVE  Pending(A, V, o, k) <=> Pending(A, U, o, k) /\ ~CallIs(A[t], 1, o, k)
  <2>1. \A u \in Thread \ {t} : Waits(A[u], V[u], o, k) <=> Waits(A[u], U[u], o, k)
    BY Zenon
  <2>2. Waits(A[t], V[t], o, k) <=> Waits(A[t], U[t], o, k) /\ ~CallIs(A[t], 1, o, k)
    BY <1>1, <1>3, FirstWaits
  <2>3. ASSUME NEW u \in Thread, Waits(A[u], U[u], o, k), CallIs(A[t], 1, o, k)
        PROVE  u = t
    <3>1. Occurs(A[u], o, k) /\ Occurs(A[t], o, k)
      BY <1>1, <2>3 DEF Waits, Occurs
    <3>. QED
      BY <3>1, Owner
  <2>. QED
    BY <2>1, <2>2, <2>3 DEF Pending
<1>6. /\ Pending(A, U, h.op, k0) /\ h.op \in {"insert", "remove"}
      /\ Occurs(A[t], h.op, k0)
  <2>1. Occurs(A[t], h.op, k0)
    BY <1>1, <1>2 DEF Occurs
  <2>2. Waits(A[t], U[t], h.op, k0)
    BY <1>3, <2>1, AllWait
  <2>. QED
    BY <1>1, <2>1, <2>2 DEF Pending
<1>7. Calling(A, V, N)
  <2>1. ASSUME NEW u \in Thread, u # t
        PROVE  Match(V[u], A[u]) /\ ResultsOK(V[u], N)
    <3>1. V[u] = U[u] /\ (U[u].op # "none" => U[u].key # k0)
      BY <2>1 DEF k0
    <3>2. Match(U[u], A[u]) /\ ResultsOK(U[u], M)
      BY DEF Calling
    <3>3. U[u].op \in {"search", "report"} => N[U[u].key] = M[U[u].key]
      BY <3>1 DEF N, k0
    <3>. QED
      BY <3>1, <3>2, <3>3 DEF ResultsOK
  <2>2. Match(V[t], A[t]) /\ ResultsOK(V[t], N)
    BY DEF Calling, Match, ResultsOK
  <2>. QED
    BY <2>1, <2>2 DEF Calling
<1>8. Contents(A, V, N, miss, n, tst)
  <2> SUFFICES ASSUME NEW k \in Key
               PROVE  N[k] = IF /\ k \in Pushed(n) /\ k \notin miss
                                /\ ~Pending(A, V, "insert", k)
                                /\ tst \in Removing => Pending(A, V, "remove", k)
                             THEN k ELSE Absent
    BY DEF Contents
  <2>1. M[k] = IF /\ k \in Pushed(n) /\ k \notin miss
                  /\ ~Pending(A, U, "insert", k)
                  /\ tst \in Removing => Pending(A, U, "remove", k)
               THEN k ELSE Absent
    BY DEF Books, Contents
  <2>2. CASE k # k0
    <3>1. \A o : ~CallIs(A[t], 1, o, k)
      BY <1>1, <2>2 DEF CallIs, h
    <3>. QED
      BY <1>4, <1>5, <2>1, <2>2, <3>1
  <2>3. CASE k = k0 /\ h.op = "remove"
    <3>1. tst \in Removing /\ U[t].val = Absent
      BY <1>1, <2>3 DEF PlanCall, h, JobCall
    <3>. QED
      BY <1>2, <1>4, <1>5, <2>3, <3>1
  <2>4. CASE k = k0 /\ h.op = "insert"
    <3>1. N[k] = k0 /\ k0 \in Pushed(n)
      BY <1>1, <1>4, <2>4 DEF PlanCall, h, JobCall
    <3>2. k0 \notin miss /\ ~Pending(A, V, "insert", k0)
      BY <1>2, <1>5, <1>6, <2>4 DEF Books, MissingOK
    <3>3. tst \in Removing => Pending(A, V, "remove", k0)
      <4> SUFFICES ASSUME tst \in Removing
                   PROVE  Pending(A, U, "remove", k0)
        BY <1>5, <2>4 DEF CallIs, h, Kind
      <4>1. PICK u \in Thread : Occurs(A[u], "remove", k0)
        <5>1. CASE t = Main
          BY <1>2, <1>6, <2>4, <5>1 DEF Plans
        <5>2. CASE t # Main
          <6>1. Follows(A[t], 1, "remove")
            BY <1>1, <2>4, <5>2 DEF PlanCall, h
          <6>2. \A m \in 1 + 1 .. Len(A[t]) : m \in 1 .. Len(A[t])
            BY <1>1 DEF Plan
          <6>3. Occurs(A[t], "remove", k0)
            BY <1>1, <6>1, <6>2 DEF Follows, Occurs, h
          <6>. QED
            BY <6>3
        <5>. QED
          BY <5>1, <5>2
      <4>2. Waits(A[u], U[u], "remove", k0)
        <5>1. CASE u = t
          BY <1>3, <4>1, <5>1, AllWait
        <5>2. CASE u # t
          <6>1. PICK j \in 1 .. Len(A[u]) : CallIs(A[u], j, "remove", k0)
            BY <4>1 DEF Occurs
          <6>2. ~(j = 1 /\ Effective(U[u]))
            <7> SUFFICES ASSUME j = 1, U[u].op # "none" PROVE FALSE
              BY DEF Effective
            <7>1. A[u] # <<>> /\ A[u] \in Seq(JobRecord)
              BY DEF Calling, Match, Plans, Plan
            <7>2. U[u].key = A[u][1].key
              BY <7>1, TailIs DEF Calling, Match
            <7>. QED
              BY <5>2, <6>1, <7>2 DEF CallIs, k0
          <6>. QED
            BY <6>1, <6>2 DEF Waits
        <5>. QED
          BY <5>1, <5>2
      <4>. QED
        BY <4>2 DEF Pending
    <3>. QED
      BY <2>4, <3>1, <3>2, <3>3
  <2>. QED
    BY <1>6, <2>2, <2>3, <2>4
<1>9. MissingOK(A, V, miss, n, sl)
  BY <1>5 DEF Books, MissingOK
<1>. QED
  BY <1>7, <1>8, <1>9 DEF Books, N

\* The keys of the jobs, as the calls have them.
LEMMA KeysHold ==
  ASSUME NEW n \in Nat \ {0}, n <= MaxThreads, NEW m \in {Elements, Reads}
  PROVE  0 .. m * n - 1 \subseteq Keys
<1> DEFINE c == Cycles * Cycles
           e == Elements + Reads + c + MaxThreads - m
           f == MaxThreads - n
<1>1. c \in Nat
  BY CountsAssumption
<1> HIDE DEF c
<1>2. e \in Nat /\ f \in Nat /\ m \in Nat /\ MaxThreads \in Nat /\ Batch \in Nat
  BY <1>1, CountsAssumption
<1>3. Elements + Reads + c + MaxThreads = m + e /\ MaxThreads = n + f
  BY <1>1, CountsAssumption
<1> HIDE DEF e, f
<1>4. MaxThreads * (m + e) = m * n + m * f + MaxThreads * e
  BY <1>2, <1>3
<1>5. m * n \in Nat /\ m * f \in Nat /\ MaxThreads * e \in Nat
  BY <1>2
<1>6. Keys = 0 .. m * n + m * f + MaxThreads * e + Batch
  BY <1>3, <1>4 DEF Keys, c
<1>. QED
  BY <1>2, <1>5, <1>6

\* The threads, and the numbers of their calls.
LEMMA Threads ==
  /\ Index = 0 .. MaxThreads - 1 /\ Main = MaxThreads /\ MaxThreads \in Nat \ {0}
  /\ Thread = Index \cup {Main} /\ Main \notin Index /\ Elements \in Nat /\ Reads \in Nat
  /\ Keys \subseteq Key \cap Value /\ Keys \subseteq Nat
<1>1. MaxThreads \in Nat \ {0} /\ Elements \in Nat /\ Reads \in Nat
  BY CountsAssumption
<1>2. Index = 0 .. MaxThreads - 1 /\ Main = MaxThreads /\ Thread = Index \cup {Main}
  BY ThreadsAssumption DEF Index, Main
<1>3. ASSUME NEW k \in Keys
      PROVE  k \in Key /\ k \in Value
  <2>1. JobCall("insert", k) \in Calls[Main] /\ Main \in Thread
    BY <1>2, JobsAssumption
  <2>2. JobCall("insert", k) \in Call
    BY <2>1, Constants
  <2>3. JobCall("insert", k).key = k /\ JobCall("insert", k).val = k
        /\ JobCall("insert", k).op = "insert"
    BY DEF JobCall
  <2>. QED
    BY <2>1, <2>2, <2>3 DEF Call, Key
<1>. QED
  BY <1>1, <1>2, <1>3 DEF Keys

\* The call of t at the head of its list is over: B is ahead now.
LEMMA PlansOver ==
  ASSUME NEW A, NEW n, NEW tst, Plans(A, n, tst), NEW t \in Thread, A[t] # <<>>,
         t # Main => A[Main] = <<>>, NEW B, B[t] = Tail(A[t]),
         \A u \in Thread \ {t} : B[u] = A[u], Main \in Thread
  PROVE  Plans(B, n, tst)
<1>1. \A u \in Thread : Plan(u, B[u], n, tst)
  BY PlanTail, Zenon DEF Plans
<1>2. ASSUME NEW k \in Key, Occurs(B[Main], "insert", k), tst \in Removing
      PROVE  \E u \in Thread : Occurs(B[u], "remove", k)
  <2>1. t = Main
    <3>1. Occurs(<<>>, "insert", k) => FALSE
      BY DEF Occurs
    <3>. QED
      BY <1>2, <3>1
  <2>2. Plan(t, A[t], n, tst)
    BY DEF Plans
  <2>3. Occurs(A[Main], "insert", k)
    BY <1>2, <2>1, <2>2, FirstCall
  <2>4. PICK u \in Thread : Occurs(A[u], "remove", k)
    BY <1>2, <2>3 DEF Plans
  <2>5. u # Main
    BY <2>4 DEF Plans, Plan, Occurs, CallIs, PlanCall
  <2>. QED
    BY <2>1, <2>4, <2>5
<1>. QED
  BY <1>1, <1>2 DEF Plans

\* The call h of t ends with out: B is ahead then, V under way,
\* miss2 is missing, and ec2 is what the threads have seen.
Over(A, U, B, V, t, h, out, M, miss, ec, miss2, ec2, n, tst, sl) ==
  /\ Plans(A, n, tst) /\ Books(A, U, M, miss, ec, n, tst, sl)
  /\ ec \in [Index -> BOOLEAN] /\ n \in Nat /\ n <= MaxThreads /\ Pushed(n) \subseteq Keys
  /\ t \in Thread /\ A[t] # <<>> /\ h = Head(A[t]) /\ B[t] = Tail(A[t]) /\ ~Effective(V[t])
  /\ \A u \in Thread \ {t} : B[u] = A[u] /\ V[u] = U[u]
  /\ h.op = "insert" => (out = Failure <=> ~Effective(U[t]))
  /\ h.op = "remove" => Effective(U[t]) \/ sl = "NULL"
  /\ h.op = "search" => out = M[h.key]
  /\ miss2 = IF h.op = "insert" /\ out = Failure THEN miss \cup {h.key} ELSE miss
  /\ ec2 = IF \/ h.expect = "found" /\ out # h.key
              \/ h.expect = "absent" /\ out # Absent
           THEN [ec EXCEPT ![t] = FALSE] ELSE ec

\* The books are right about what is left then.
LEMMA BooksOver ==
  ASSUME Absent \notin Value, NEW A, NEW U, NEW M, NEW miss, NEW ec, NEW n, NEW tst, NEW sl,
         NEW t, NEW B, NEW V, NEW h, NEW out, NEW miss2, NEW ec2,
         Over(A, U, B, V, t, h, out, M, miss, ec, miss2, ec2, n, tst, sl)
  PROVE  Books(B, V, M, miss2, ec2, n, tst, sl)
<1>0. /\ Keys \subseteq Key \cap Value /\ Main \notin Index /\ Index \subseteq Thread
      /\ 0 .. n - 1 \subseteq Index
  BY Threads DEF Over
<1> USE <1>0 DEF Over
<1> DEFINE k0 == h.key
           lost == h.op = "insert" /\ out = Failure
           wrong == \/ h.expect = "found" /\ out # k0
                    \/ h.expect = "absent" /\ out # Absent
           ms == IF lost THEN miss \cup {k0} ELSE miss
           es == IF wrong THEN [ec EXCEPT ![t] = FALSE] ELSE ec
<1>1. /\ h = A[t][1] /\ h \in JobRecord /\ 1 \in 1 .. Len(A[t])
      /\ Plan(t, A[t], n, tst) /\ PlanCall(t, A[t], 1, n, tst)
  <2>1. Plan(t, A[t], n, tst) /\ A[t] \in Seq(JobRecord)
    BY DEF Plans, Plan
  <2>2. Head(A[t]) = A[t][1] /\ A[t][1] \in JobRecord /\ 1 \in 1 .. Len(A[t])
    BY <2>1, TailIs
  <2>. QED
    BY <2>1, <2>2 DEF Plan
<1>2. /\ k0 \in Key /\ k0 \in Value /\ h.op \in {"insert", "remove", "search"}
      /\ h.expect \in {"any", "found", "absent"}
      /\ \A o, k : CallIs(A[t], 1, o, k) <=> Kind(h) = o /\ k0 = k
  BY <1>1 DEF JobRecord, CallIs
<1>3. ASSUME NEW o \in {"insert", "remove"}, NEW k
      PROVE  /\ Pending(B, V, o, k) <=> Pending(A, U, o, k) /\ ~(Kind(h) = o /\ k0 = k)
             /\ Kind(h) = o /\ k0 = k => (Pending(A, U, o, k) <=> ~Effective(U[t]))
  <2>1. \A u \in Thread \ {t} : Waits(B[u], V[u], o, k) <=> Waits(A[u], U[u], o, k)
    BY Zenon
  <2>2. Waits(B[t], V[t], o, k) <=> Occurs(Tail(A[t]), o, k)
    BY AllWait
  <2>3. CASE ~CallIs(A[t], 1, o, k)
    <3>1. Occurs(Tail(A[t]), o, k) <=> Occurs(A[t], o, k)
      BY <1>1, <2>3, FirstCall
    <3>2. Waits(A[t], U[t], o, k) <=> Occurs(A[t], o, k)
      BY <1>1, <2>3, FirstWaits
    <3>. QED
      BY <1>2, <2>1, <2>2, <2>3, <3>1, <3>2 DEF Pending
  <2>4. CASE CallIs(A[t], 1, o, k)
    <3>1. ~Occurs(Tail(A[t]), o, k) /\ Occurs(A[t], o, k)
      BY <1>1, <2>4, FirstCall
    <3>2. Waits(A[t], U[t], o, k) <=> ~Effective(U[t])
      BY <1>1, <2>4, <3>1, FirstWaits
    <3>3. ASSUME NEW u \in Thread \ {t}, Waits(A[u], U[u], o, k)
          PROVE  FALSE
      <4>1. Occurs(A[u], o, k)
        BY <3>3 DEF Waits, Occurs
      <4>. QED
        BY <3>1, <4>1, Owner
    <3>. QED
      BY <1>2, <2>1, <2>2, <2>4, <3>1, <3>2, <3>3 DEF Pending
  <2>. QED
    BY <2>3, <2>4
<1>4. /\ Kind(h) = "insert" <=> h.op = "insert"
      /\ Kind(h) = "remove" <=> h.op = "remove"
  BY <1>2 DEF Kind
<1>5. /\ Contents(A, U, M, miss, n, tst) /\ MissingOK(A, U, miss, n, sl)
      /\ tst = "correctness" => VerdictOK(A, miss, ec, n)
  BY DEF Books
<1>6. Kind(h) # "any" => k0 \in Pushed(n)
  BY <1>1 DEF PlanCall
<1> HIDE DEF k0, ms, es, lost, wrong
<1>7. Contents(B, V, M, ms, n, tst)
  <2> SUFFICES ASSUME NEW k \in Key
               PROVE  M[k] = IF /\ k \in Pushed(n) /\ k \notin ms
                                /\ ~Pending(B, V, "insert", k)
                                /\ tst \in Removing => Pending(B, V, "remove", k)
                             THEN k ELSE Absent
    BY DEF Contents
  <2>1. M[k] = IF /\ k \in Pushed(n) /\ k \notin miss
                  /\ ~Pending(A, U, "insert", k)
                  /\ tst \in Removing => Pending(A, U, "remove", k)
               THEN k ELSE Absent
    BY <1>5 DEF Contents
  <2>2. CASE k # k0
    <3>1. k \in ms <=> k \in miss
      BY <2>2 DEF ms
    <3>. QED
      BY <1>3, <2>1, <2>2, <3>1
  <2>3. CASE k = k0 /\ h.op = "insert"
    <3>1. k \in ms <=> k \in miss \/ ~Effective(U[t])
      BY <2>3 DEF ms, lost
    <3>2. ~Pending(B, V, "insert", k) /\ (Pending(A, U, "insert", k) <=> ~Effective(U[t]))
      BY <1>3, <1>4, <2>3
    <3>3. Pending(B, V, "remove", k) <=> Pending(A, U, "remove", k)
      BY <1>3, <1>4, <2>3
    <3>. QED
      BY <2>1, <3>1, <3>2, <3>3
  <2>4. CASE k = k0 /\ h.op = "remove"
    <3>1. ~Pending(B, V, "remove", k) /\ (Pending(A, U, "remove", k) <=> ~Effective(U[t]))
      BY <1>3, <1>4, <2>4
    <3>2. tst \in Removing
      BY <1>1, <1>4, <2>4 DEF PlanCall
    <3>3. sl = "NULL" => k \in miss \/ Pending(A, U, "insert", k)
      BY <1>4, <1>5, <1>6, <2>4 DEF MissingOK
    <3>. QED
      BY <2>1, <2>4, <3>1, <3>2, <3>3
  <2>5. CASE h.op = "search"
    BY <1>3, <1>4, <2>1, <2>5 DEF ms, lost
  <2>. QED
    BY <1>2, <2>2, <2>3, <2>4, <2>5
<1>8. MissingOK(B, V, ms, n, sl)
  <2>1. ms \subseteq Pushed(n)
    BY <1>4, <1>5, <1>6 DEF MissingOK, ms, lost
  <2>2. \A k \in ms : ~Pending(B, V, "insert", k)
    BY <1>3, <1>4, <1>5 DEF MissingOK, ms, lost
  <2>3. ASSUME sl = "NULL", NEW k \in Pushed(n)
        PROVE  k \in ms \/ Pending(B, V, "insert", k)
    <3>1. k \in miss \/ Pending(A, U, "insert", k)
      BY <1>5, <2>3 DEF MissingOK
    <3>2. CASE Kind(h) = "insert" /\ k0 = k
      BY <1>3, <1>4, <3>1, <3>2 DEF ms, lost
    <3>3. CASE ~(Kind(h) = "insert" /\ k0 = k)
      BY <1>3, <3>1, <3>3 DEF ms
    <3>. QED
      BY <3>2, <3>3
  <2>. QED
    BY <2>1, <2>2, <2>3 DEF MissingOK
<1>9. ASSUME tst = "correctness"
      PROVE  VerdictOK(B, ms, es, n)
  <2>1. t # Main /\ k0 % n = t /\ tst \in Inserting /\ tst \in Removing
    BY <1>1, <1>9 DEF PlanCall, Inserting, Removing, k0
  <2>2. ASSUME NEW i \in 0 .. n - 1, NEW k
        PROVE  Occurs(B[i], "found", k) <=>
                 Occurs(A[i], "found", k) /\ ~(i = t /\ Kind(h) = "found" /\ k0 = k)
    <3>1. i \in Thread
      OBVIOUS
    <3>2. CASE i = t
      BY <1>1, <1>2, <3>2, FirstCall
    <3>. QED
      BY <3>1, <3>2
  <2>3. \A i \in 0 .. n - 1 :
          ec[i] <=> \A k \in miss : k % n = i => Occurs(A[i], "found", k)
    BY <1>5, <1>9 DEF VerdictOK
  <2>4. /\ h.op # "search" => h.expect = "any"
        /\ Kind(h) \in {"found", "absent"} => h.op = "search" /\ h.expect = Kind(h)
        /\ h.op = "search" => Kind(h) = h.expect
    BY <1>1, <1>2 DEF PlanCall, Kind
  <2>5. M[k0] = IF /\ k0 \in Pushed(n) /\ k0 \notin miss
                   /\ ~Pending(A, U, "insert", k0) /\ Pending(A, U, "remove", k0)
                THEN k0 ELSE Absent
    BY <1>2, <1>5, <2>1 DEF Contents
  <2>6. CASE h.op # "search"
    <3>1. es = ec
      BY <2>4, <2>6 DEF es, wrong
    <3>2. CASE lost
      <4>1. ms = miss \cup {k0} /\ Kind(h) = "insert"
        BY <1>4, <3>2 DEF ms, lost
      <4>2. Occurs(A[t], "found", k0)
        <5>1. Follows(A[t], 1, "found")
          BY <1>1, <1>9, <4>1 DEF PlanCall
        <5>2. \A m \in 1 + 1 .. Len(A[t]) : m \in 1 .. Len(A[t])
          BY <1>1 DEF Plan
        <5>. QED
          BY <1>1, <5>1, <5>2 DEF Follows, Occurs, k0
      <4>. QED
        BY <2>1, <2>2, <2>3, <3>1, <4>1, <4>2, ZenonT(30) DEF VerdictOK
    <3>3. CASE ~lost
      <4>1. ms = miss
        BY <3>3 DEF ms
      <4>2. Kind(h) # "found"
        BY <2>4, <2>6
      <4>. QED
        BY <2>2, <2>3, <3>1, <4>1, <4>2 DEF VerdictOK
    <3>. QED
      BY <3>2, <3>3
  <2>7. CASE h.op = "search"
    <3>1. ms = miss /\ out = M[k0] /\ Kind(h) = h.expect
      BY <2>4, <2>7 DEF ms, lost, k0
    <3>2. CASE h.expect = "found"
      <4>1. k0 \in Pushed(n) /\ ~Pending(A, U, "insert", k0)
        <5>1. ~Pending(A, U, "insert", A[t][1].key)
          <6>1. "insert" # Kind(A[t][1]) /\ Rank("insert") <= Rank(Kind(A[t][1]))
            BY <1>1, <3>1, <3>2 DEF Rank
          <6>. QED
            BY <2>1, <6>1, Behind
        <5>. QED
          BY <1>1, <1>6, <3>1, <3>2, <5>1 DEF k0
      <4>2. Pending(A, U, "remove", k0)
        <5>1. Follows(A[t], 1, "remove") /\ ~CallIs(A[t], 1, "remove", k0)
          BY <1>1, <1>2, <3>1, <3>2 DEF PlanCall
        <5>2. \A m \in 1 + 1 .. Len(A[t]) : m \in 1 .. Len(A[t])
          BY <1>1 DEF Plan
        <5>3. Occurs(A[t], "remove", k0)
          BY <1>1, <5>1, <5>2 DEF Follows, Occurs, k0
        <5>4. Waits(A[t], U[t], "remove", k0)
          BY <1>1, <5>1, <5>3, FirstWaits
        <5>. QED
          BY <5>4 DEF Pending
      <4>3. wrong <=> k0 \in miss
        <5>1. k0 # Absent
          BY <1>2
        <5>. QED
          BY <2>5, <3>1, <3>2, <4>1, <4>2, <5>1 DEF wrong
      <4>4. ASSUME NEW i \in 0 .. n - 1
            PROVE  es[i] <=> \A k \in ms : k % n = i => Occurs(B[i], "found", k)
        <5>1. CASE i = t
          <6>1. es[i] <=> ec[i] /\ ~wrong
            BY <5>1 DEF es
          <6>. QED
            BY <2>1, <2>2, <2>3, <3>1, <3>2, <4>3, <5>1, <6>1
        <5>2. CASE i # t
          BY <2>2, <2>3, <3>1, <5>2 DEF es
        <5>. QED
          BY <5>1, <5>2
      <4>. QED
        BY <4>4 DEF VerdictOK
    <3>3. CASE h.expect # "found"
      <4>1. ~wrong
        <5> SUFFICES ASSUME h.expect = "absent" PROVE M[k0] = Absent
          BY <3>1, <3>3 DEF wrong
        <5>1. ~Pending(A, U, "remove", A[t][1].key)
          <6>1. "remove" # Kind(A[t][1]) /\ Rank("remove") <= Rank(Kind(A[t][1]))
            BY <1>1, <3>1 DEF Rank
          <6>. QED
            BY <2>1, <6>1, Behind
        <5>. QED
          BY <1>1, <2>5, <5>1 DEF k0
      <4>2. es = ec /\ Kind(h) # "found"
        BY <3>1, <3>3, <4>1 DEF es
      <4>. QED
        BY <2>2, <2>3, <3>1, <4>2 DEF VerdictOK
    <3>. QED
      BY <3>2, <3>3
  <2>. QED
    BY <2>6, <2>7
<1>10. miss2 = ms /\ ec2 = es
  BY DEF ms, es, lost, wrong, k0
<1>. QED
  BY <1>7, <1>8, <1>9, <1>10 DEF Books

-----------------------------------------------------------------------------
(***************************************************************************)
(* The jobs are plans.                                                     *)
(***************************************************************************)
\* A thread that has nothing to do.
LEMMA EmptyPlan ==
  ASSUME NEW t, NEW n, NEW tst
  PROVE  Plan(t, <<>>, n, tst) /\ \A o, k : ~Occurs(<<>>, o, k)
BY DEF Plan, Occurs

\* A loop of calls for keys that are not called for before fits in front of u.
Fits(u, o, e, m, n, i, tst, kind) ==
  /\ o \in {"insert", "remove", "search"} /\ e \in {"any", "found", "absent"}
  /\ m \in {Elements, Reads} /\ kind = IF o = "search" THEN e ELSE o
  /\ o # "search" => e = "any"
  /\ kind # "any" => m = Elements
  /\ kind = "insert" => tst \in Inserting
  /\ kind = "remove" => tst \in Removing
  /\ kind \in {"found", "absent"} => tst = "correctness"
  /\ (kind = "insert" /\ tst \in Removing) \/ kind = "found" =>
       \A q \in 0 .. m - 1 : Occurs(u, "remove", n * q + i)
  /\ kind = "insert" /\ tst = "correctness" =>
       \A q \in 0 .. m - 1 : Occurs(u, "found", n * q + i)
  /\ \A j \in 1 .. Len(u) : Rank(kind) < Rank(Kind(u[j]))

\* It makes s of it.
Fronts(s, u, m, n, i, tst, kind) ==
  /\ Plan(i, s, n, tst)
  /\ \A j \in 1 .. Len(s) : Rank(kind) <= Rank(Kind(s[j]))
  /\ \A q \in 0 .. m - 1 : Occurs(s, kind, n * q + i)
  /\ \A p, k : Occurs(u, p, k) => Occurs(s, p, k)

\* A loop before the calls u: u are all there still, and the loop's calls come first.
LEMMA LoopFirst ==
  ASSUME NEW n \in Nat \ {0}, n <= MaxThreads, NEW i \in 0 .. n - 1, NEW tst,
         NEW u, Plan(i, u, n, tst), NEW o, NEW e, NEW m, NEW kind,
         Fits(u, o, e, m, n, i, tst, kind), NEW s, s = Loop(o, e, m, n, i) \o u
  PROVE  Fronts(s, u, m, n, i, tst, kind)
<1> USE DEF Fits
<1> DEFINE lp == Loop(o, e, m, n, i)
<1>1. /\ m \in Nat /\ i \in Nat /\ i # Main /\ i < n /\ u \in Seq(JobRecord) /\ Len(u) \in Nat
  BY Threads DEF Plan
<1>2. ASSUME NEW j \in 1 .. m
      PROVE  /\ lp[j] = [op |-> o, key |-> n * (j - 1) + i, expect |-> e]
             /\ lp[j] \in JobRecord /\ Kind(lp[j]) = kind /\ lp[j].op = o /\ lp[j].expect = e
             /\ lp[j].key = n * (j - 1) + i /\ (n * (j - 1) + i) % n = i
             /\ n * (j - 1) + i \in 0 .. m * n - 1
  <2>1. lp[j] = [op |-> o, key |-> n * (j - 1) + i, expect |-> e]
    BY DEF Loop
  <2>2. j - 1 \in 0 .. m - 1 /\ j - 1 \in Nat
    BY <1>1
  <2>3. n * (j - 1) + i \in 0 .. m * n - 1 /\ (n * (j - 1) + i) % n = i
    BY <1>1, <2>2, Above, ModOf
  <2>4. n * (j - 1) + i \in Keys
    BY <2>3, KeysHold
  <2>. QED
    BY <2>1, <2>3, <2>4 DEF JobRecord, Kind
<1>3. lp \in Seq(JobRecord) /\ Len(lp) = m
  <2>1. lp \in [1 .. m -> JobRecord]
    BY <1>2 DEF Loop
  <2>. QED
    BY <1>1, <2>1, SeqDef, LenProperties
<1> HIDE DEF lp
<1>4. /\ s \in Seq(JobRecord) /\ Len(s) = m + Len(u)
      /\ \A j \in 1 .. Len(s) : s[j] = IF j <= m THEN lp[j] ELSE u[j - m]
  <2>1. s = lp \o u
    BY DEF lp
  <2>2. /\ lp \o u \in Seq(JobRecord) /\ Len(lp \o u) = m + Len(u)
        /\ \A j \in 1 .. m + Len(u) : (lp \o u)[j] = IF j <= Len(lp) THEN lp[j] ELSE u[j - Len(lp)]
    BY <1>1, <1>3, ConcatProperties
  <2>. QED
    BY <1>3, <2>1, <2>2
<1>5. ASSUME NEW j \in 1 .. Len(s)
      PROVE  IF j <= m THEN j \in 1 .. m /\ s[j] = lp[j]
             ELSE j - m \in 1 .. Len(u) /\ s[j] = u[j - m]
  BY <1>1, <1>4
<1>6. ASSUME NEW j \in 1 .. Len(u)
      PROVE  j + m \in m + 1 .. Len(s) /\ j + m \in 1 .. Len(s) /\ s[j + m] = u[j]
  <2>1. j + m \in m + 1 .. Len(s) /\ j + m \in 1 .. Len(s) /\ (j + m) - m = j /\ ~(j + m <= m)
    BY <1>1, <1>4
  <2>. QED
    BY <1>4, <2>1
<1>7. \A p, k : Occurs(u, p, k) => \E j \in m + 1 .. Len(s) : CallIs(s, j, p, k)
  BY <1>6 DEF Occurs, CallIs
<1>8. \A p, k : Occurs(u, p, k) => Occurs(s, p, k)
  BY <1>6 DEF Occurs, CallIs
<1>9. ASSUME NEW j \in 1 .. m, NEW p, Occurs(u, p, n * (j - 1) + i)
      PROVE  Follows(s, j, p)
  <2>1. PICK x \in m + 1 .. Len(s) : CallIs(s, x, p, n * (j - 1) + i)
    BY <1>7, <1>9
  <2>2. x \in j + 1 .. Len(s) /\ j \in 1 .. Len(s) /\ j <= m
    BY <1>1, <1>4
  <2>3. s[j].key = n * (j - 1) + i
    BY <1>2, <1>5, <2>2
  <2>. QED
    BY <2>1, <2>2, <2>3 DEF Follows
<1>10. ASSUME NEW j \in 1 .. Len(u), NEW p, Follows(u, j, p)
       PROVE  Follows(s, j + m, p)
  <2>1. PICK x \in j + 1 .. Len(u) : CallIs(u, x, p, u[j].key)
    BY <1>10 DEF Follows
  <2>2. x \in 1 .. Len(u) /\ x + m \in j + m + 1 .. Len(s)
    BY <1>1, <1>4
  <2>. QED
    BY <1>6, <2>1, <2>2 DEF Follows, CallIs
<1>11. ASSUME NEW j \in 1 .. Len(s)
       PROVE  PlanCall(i, s, j, n, tst) /\ Rank(kind) <= Rank(Kind(s[j]))
  <2>1. CASE j <= m
    <3>1. j \in 1 .. m /\ s[j] = lp[j]
      BY <1>5, <2>1
    <3>2. /\ Kind(s[j]) = kind /\ s[j].op = o /\ s[j].expect = e
          /\ s[j].key = n * (j - 1) + i /\ s[j].key % n = i
          /\ s[j].key \in 0 .. m * n - 1
      BY <1>2, <3>1
    <3>3. j - 1 \in 0 .. m - 1
      BY <1>1, <3>1
    <3>4. kind # "any" => s[j].key \in Pushed(n)
      BY <3>2 DEF Pushed
    <3>5. (kind = "insert" /\ tst \in Removing) \/ kind = "found" => Follows(s, j, "remove")
      BY <1>9, <3>1, <3>3
    <3>6. kind = "insert" /\ tst = "correctness" => Follows(s, j, "found")
      BY <1>9, <3>1, <3>3
    <3>7. Rank(kind) <= Rank(kind)
      BY DEF Rank
    <3>. QED
      BY <1>1, <3>2, <3>4, <3>5, <3>6, <3>7 DEF PlanCall
  <2>2. CASE ~(j <= m)
    <3> DEFINE x == j - m
    <3>1. x \in 1 .. Len(u) /\ s[j] = u[x] /\ x + m = j
      BY <1>1, <1>5, <2>2
    <3>2. PlanCall(i, u, x, n, tst) /\ Rank(kind) < Rank(Kind(u[x]))
      BY <3>1 DEF Plan
    <3>3. \A p : Follows(u, x, p) => Follows(s, j, p)
      BY <1>10, <3>1
    <3>4. Rank(kind) \in Int /\ Rank(Kind(u[x])) \in Int
      BY DEF Rank
    <3>. QED
      BY <3>1, <3>2, <3>3, <3>4 DEF PlanCall
  <2>. QED
    BY <2>1, <2>2
<1>12. ASSUME NEW a \in 1 .. Len(s), NEW b \in 1 .. Len(s), a < b, s[a].key = s[b].key
       PROVE  Rank(Kind(s[a])) < Rank(Kind(s[b]))
  <2>1. CASE b <= m
    <3>1. a \in 1 .. m /\ b \in 1 .. m /\ a <= m
      BY <1>1, <1>12, <2>1
    <3>2. n * (a - 1) + i = n * (b - 1) + i
      BY <1>2, <1>5, <1>12, <2>1, <3>1
    <3> DEFINE d == b - a
    <3>3. d \in Nat \ {0} /\ a - 1 \in Nat /\ b - 1 = (a - 1) + d
      BY <1>12, <3>1
    <3> HIDE DEF d
    <3>4. n * (b - 1) > n * (a - 1)
      BY <3>3, Grows
    <3>. QED
      BY <1>1, <3>2, <3>3, <3>4, SMTT(30)
  <2>2. CASE a <= m /\ ~(b <= m)
    <3>1. Kind(s[a]) = kind
      BY <1>2, <1>5, <2>2
    <3>. QED
      BY <1>5, <2>2, <3>1
  <2>3. CASE ~(a <= m) /\ ~(b <= m)
    <3>1. a - m \in 1 .. Len(u) /\ b - m \in 1 .. Len(u) /\ a - m < b - m
      BY <1>1, <1>5, <1>12, <2>3
    <3>. QED
      BY <1>5, <1>12, <2>3, <3>1 DEF Plan
  <2>. QED
    BY <1>1, <1>12, <2>1, <2>2, <2>3
<1>13. ASSUME NEW q \in 0 .. m - 1
       PROVE  Occurs(s, kind, n * q + i)
  <2>1. q + 1 \in 1 .. m /\ (q + 1) - 1 = q /\ q + 1 \in 1 .. Len(s) /\ q + 1 <= m
    BY <1>1, <1>4
  <2>2. CallIs(s, q + 1, kind, n * q + i)
    BY <1>2, <1>5, <2>1 DEF CallIs
  <2>. QED
    BY <2>1, <2>2 DEF Occurs
<1>. QED
  BY <1>4, <1>8, <1>11, <1>12, <1>13 DEF Plan, Fronts

\* A loop on its own.
LEMMA LoopOnly ==
  ASSUME NEW n \in Nat \ {0}, n <= MaxThreads, NEW i \in 0 .. n - 1,
         NEW o \in {"insert", "remove", "search"}, NEW e \in {"any", "found", "absent"},
         NEW m \in {Elements, Reads}
  PROVE  Loop(o, e, m, n, i) \in Seq(JobRecord) /\ Loop(o, e, m, n, i) \o <<>> = Loop(o, e, m, n, i)
<1> DEFINE lp == Loop(o, e, m, n, i)
<1>1. ASSUME NEW j \in 1 .. m
      PROVE  [op |-> o, key |-> n * (j - 1) + i, expect |-> e] \in JobRecord
  <2>1. j - 1 \in 0 .. m - 1
    BY Threads
  <2>2. n * (j - 1) + i \in Keys
    BY <2>1, Above, KeysHold, Threads
  <2>. QED
    BY <2>2 DEF JobRecord
<1>2. lp \in [1 .. m -> JobRecord] /\ m \in Nat
  BY <1>1, Threads DEF Loop
<1>3. lp \in Seq(JobRecord)
  BY <1>2, SeqDef
<1> HIDE DEF lp
<1>4. lp \o <<>> = lp
  BY <1>3, ConcatEmptySeq
<1>. QED
  BY <1>3, <1>4 DEF lp

\* The job of a thread, in each of the tests.
LEMMA JobPlan ==
  ASSUME num_threads \in Nat \ {0}, num_threads <= MaxThreads, NEW i \in 0 .. num_threads - 1,
         test \in Tests, test # "aggressive"
  PROVE  /\ Plan(i, Job(i), num_threads, test)
         /\ test \in Inserting => \A q \in 0 .. Elements - 1 :
              Occurs(Job(i), "insert", num_threads * q + i)
         /\ test \in Removing => \A q \in 0 .. Elements - 1 :
              Occurs(Job(i), "remove", num_threads * q + i)
<1> DEFINE n == num_threads
           I == Own(i, "insert", "any")
           F == Own(i, "search", "found")
           R == Own(i, "remove", "any")
           G == Own(i, "search", "absent")
           S == Own(i, "search", "any")
           L == Loop("search", "any", Reads, n, i)
<1>1. /\ I \in Seq(JobRecord) /\ F \in Seq(JobRecord) /\ R \in Seq(JobRecord)
      /\ G \in Seq(JobRecord) /\ L \in Seq(JobRecord)
      /\ G \o <<>> = G /\ R \o <<>> = R /\ I \o <<>> = I /\ S \o <<>> = S
  BY LoopOnly DEF Own
<1>2. /\ Rank("insert") = 0 /\ Rank("found") = 1 /\ Rank("any") = 1 /\ Rank("remove") = 2
      /\ Rank("absent") = 3 /\ \A c : Rank(Kind(c)) \in Int
  BY DEF Rank
<1>3. /\ I = Loop("insert", "any", Elements, n, i) /\ F = Loop("search", "found", Elements, n, i)
      /\ R = Loop("remove", "any", Elements, n, i) /\ S = Loop("search", "any", Elements, n, i)
      /\ G = Loop("search", "absent", Elements, n, i) /\ L = Loop("search", "any", Reads, n, i)
  BY DEF Own
<1>4. /\ Plan(i, <<>>, n, test) /\ \A o, k : ~Occurs(<<>>, o, k)
      /\ \A r : \A j \in 1 .. Len(<<>>) : r < Rank(Kind(<<>>[j]))
      /\ n \in Nat \ {0} /\ n <= MaxThreads /\ i \in 0 .. n - 1
  BY EmptyPlan
<1> HIDE DEF I, F, R, G, S, L, n
\* What comes in front of a plan whose calls have a higher rank.
<1> DEFINE Room(s, o) == \A j \in 1 .. Len(s) : Rank(o) <= Rank(Kind(s[j]))
           Has(s, o) == \A q \in 0 .. Elements - 1 : Occurs(s, o, n * q + i)
           More(s, u) == \A o, k : Occurs(u, o, k) => Occurs(s, o, k)
<1>5. ASSUME NEW u, Plan(i, u, n, test)
      PROVE  /\ test \in Inserting /\ (test \in Removing => Has(u, "remove"))
                 /\ (test = "correctness" => Has(u, "found"))
                 /\ (\A j \in 1 .. Len(u) : 0 < Rank(Kind(u[j])))
               => /\ Plan(i, I \o u, n, test) /\ Has(I \o u, "insert") /\ More(I \o u, u)
             /\ test = "correctness" /\ Has(u, "remove")
                 /\ (\A j \in 1 .. Len(u) : 1 < Rank(Kind(u[j])))
               => /\ Plan(i, F \o u, n, test) /\ Has(F \o u, "found") /\ More(F \o u, u)
                  /\ Room(F \o u, "found")
             /\ (\A j \in 1 .. Len(u) : 1 < Rank(Kind(u[j])))
               => /\ Plan(i, S \o u, n, test)
                  /\ Plan(i, L \o u, n, test) /\ More(L \o u, u) /\ Room(L \o u, "any")
             /\ test \in Removing /\ (\A j \in 1 .. Len(u) : 2 < Rank(Kind(u[j])))
               => /\ Plan(i, R \o u, n, test) /\ Has(R \o u, "remove") /\ Room(R \o u, "remove")
             /\ test = "correctness" /\ (\A j \in 1 .. Len(u) : 3 < Rank(Kind(u[j])))
               => Plan(i, G \o u, n, test) /\ Room(G \o u, "absent")
  <2>1. /\ test \in Inserting /\ (test \in Removing => Has(u, "remove"))
        /\ (test = "correctness" => Has(u, "found"))
        /\ (\A j \in 1 .. Len(u) : 0 < Rank(Kind(u[j])))
        => Fits(u, "insert", "any", Elements, n, i, test, "insert")
    BY <1>2 DEF Fits
  <2>2. /\ test = "correctness" /\ Has(u, "remove")
        /\ (\A j \in 1 .. Len(u) : 1 < Rank(Kind(u[j])))
        => Fits(u, "search", "found", Elements, n, i, test, "found")
    BY <1>2 DEF Fits
  <2>3. ASSUME NEW m \in {Elements, Reads}, \A j \in 1 .. Len(u) : 1 < Rank(Kind(u[j]))
        PROVE  Fits(u, "search", "any", m, n, i, test, "any")
    BY <1>2, <2>3 DEF Fits
  <2>4. test \in Removing /\ (\A j \in 1 .. Len(u) : 2 < Rank(Kind(u[j])))
        => Fits(u, "remove", "any", Elements, n, i, test, "remove")
    BY <1>2 DEF Fits
  <2>5. test = "correctness" /\ (\A j \in 1 .. Len(u) : 3 < Rank(Kind(u[j])))
        => Fits(u, "search", "absent", Elements, n, i, test, "absent")
    BY <1>2 DEF Fits
  <2>6. ASSUME NEW o, NEW e, NEW m, NEW kind, Fits(u, o, e, m, n, i, test, kind)
        PROVE  Fronts(Loop(o, e, m, n, i) \o u, u, m, n, i, test, kind)
    BY <1>4, <1>5, <2>6, LoopFirst
  <2>. QED
    BY <1>3, <2>1, <2>2, <2>3, <2>4, <2>5, <2>6 DEF Fronts
<1>6. ASSUME NEW u
      PROVE  /\ Room(u, "absent") => \A j \in 1 .. Len(u) : 2 < Rank(Kind(u[j]))
             /\ Room(u, "remove") => \A j \in 1 .. Len(u) : 1 < Rank(Kind(u[j]))
             /\ Room(u, "found") \/ Room(u, "any") => \A j \in 1 .. Len(u) : 0 < Rank(Kind(u[j]))
  BY <1>2
<1> HIDE DEF Room
<1>7. CASE test = "correctness"
  <2>1. test \in Inserting /\ test \in Removing
    BY <1>7 DEF Inserting, Removing
  <2>2. Plan(i, G, n, test) /\ \A j \in 1 .. Len(G) : 2 < Rank(Kind(G[j]))
    <3>1. Plan(i, G, n, test) /\ Room(G, "absent")
      BY <1>1, <1>4, <1>5, <1>7
    <3>. QED
      BY <1>2, <1>6, <3>1
  <2> DEFINE u == R \o G
             v == F \o u
             w == I \o v
  <2>3. Plan(i, u, n, test) /\ Has(u, "remove") /\ \A j \in 1 .. Len(u) : 1 < Rank(Kind(u[j]))
    <3>1. Plan(i, u, n, test) /\ Has(u, "remove") /\ Room(u, "remove")
      BY <1>5, <2>1, <2>2
    <3> HIDE DEF u
    <3>. QED
      BY <1>2, <1>6, <3>1
  <2> HIDE DEF u
  <2>4. /\ Plan(i, v, n, test) /\ Has(v, "found") /\ Has(v, "remove")
        /\ \A j \in 1 .. Len(v) : 0 < Rank(Kind(v[j]))
    <3>1. Plan(i, v, n, test) /\ Has(v, "found") /\ More(v, u) /\ Room(v, "found")
      BY <1>5, <1>7, <2>3
    <3> HIDE DEF v
    <3>. QED
      BY <1>2, <1>6, <2>3, <3>1
  <2> HIDE DEF v
  <2>5. Plan(i, w, n, test) /\ Has(w, "insert") /\ More(w, v)
    BY <1>5, <2>1, <2>4
  <2>6. Job(i) = ((I \o F) \o R) \o G
    BY <1>7 DEF Job, correctness_thread_job, I, F, R, G
  <2>7. ((I \o F) \o R) \o G = I \o (F \o (R \o G))
    <3> DEFINE a == I \o F
               b == R \o G
    <3>1. a \in Seq(JobRecord) /\ b \in Seq(JobRecord)
      BY <1>1
    <3>2. (I \o F) \o b = I \o (F \o b)
      <4>1. I \in Seq(JobRecord) /\ F \in Seq(JobRecord)
        BY <1>1
      <4> HIDE DEF b
      <4>. QED
        BY ONLY <3>1, <4>1, ConcatAssociative
    <3>3. (a \o R) \o G = a \o (R \o G)
      <4>1. R \in Seq(JobRecord) /\ G \in Seq(JobRecord)
        BY <1>1
      <4> HIDE DEF a
      <4>. QED
        BY ONLY <3>1, <4>1, ConcatAssociative
    <3>. QED
      BY <3>2, <3>3
  <2>. QED
    BY <2>4, <2>5, <2>6, <2>7 DEF n, u, v
<1>8. CASE test = "mixed"
  <2>1. test \in Inserting /\ test \in Removing /\ test # "correctness"
    BY <1>8 DEF Inserting, Removing
  <2>2. Plan(i, R, n, test) /\ Has(R, "remove") /\ \A j \in 1 .. Len(R) : 1 < Rank(Kind(R[j]))
    <3>1. Plan(i, R, n, test) /\ Has(R, "remove") /\ Room(R, "remove")
      BY <1>1, <1>4, <1>5, <2>1
    <3>. QED
      BY <1>2, <1>6, <3>1
  <2> DEFINE v == L \o R
             w == I \o v
  <2>3. /\ Plan(i, v, n, test) /\ Has(v, "remove")
        /\ \A j \in 1 .. Len(v) : 0 < Rank(Kind(v[j]))
    <3>1. Plan(i, v, n, test) /\ More(v, R) /\ Room(v, "any")
      BY <1>5, <2>2
    <3> HIDE DEF v
    <3>. QED
      BY <1>2, <1>6, <2>2, <3>1
  <2> HIDE DEF v
  <2>4. Plan(i, w, n, test) /\ Has(w, "insert") /\ More(w, v)
    BY <1>5, <2>1, <2>3
  <2>5. Job(i) = (I \o L) \o R
    BY <1>8 DEF Job, mixed_performance_thread_job, I, L, R, n
  <2>6. (I \o L) \o R = I \o (L \o R)
    BY <1>1, ConcatAssociative
  <2>. QED
    BY <2>3, <2>4, <2>5, <2>6 DEF n, v
<1>9. CASE test \in {"insert", "remove", "search"}
  <2>1. /\ Job(i) = IF test = "insert" THEN I ELSE IF test = "remove" THEN R ELSE S
        /\ test \in Inserting <=> test = "insert"
        /\ test \in Removing <=> test = "remove"
    BY <1>9 DEF Job, I, R, S, Inserting, Removing
  <2>2. /\ test = "insert" => Plan(i, I, n, test) /\ Has(I, "insert")
        /\ test = "remove" => Plan(i, R, n, test) /\ Has(R, "remove")
        /\ test = "search" => Plan(i, S, n, test)
    BY <1>1, <1>4, <1>5, <2>1
  <2>. QED
    BY <1>9, <2>1, <2>2 DEF n
<1>. QED
  BY <1>7, <1>8, <1>9, TestsAssumption

LEMMA PrefillPlan ==
  ASSUME num_threads \in Nat \ {0}, num_threads <= MaxThreads, test \in Tests,
         test # "aggressive", NEW s,
         s = Loop("insert", "any", NumToPush * num_threads, 1, 0)
  PROVE  /\ Plan(Main, s, num_threads, test)
         /\ IF test \in {"remove", "search"}
            THEN /\ \A k \in Pushed(num_threads) : Occurs(s, "insert", k)
                 /\ \A k : Occurs(s, "insert", k) => k \in Pushed(num_threads)
            ELSE s = <<>>
<1> DEFINE m == Elements * num_threads
<1>1. /\ m \in Nat /\ Pushed(num_threads) = 0 .. m - 1 /\ Pushed(num_threads) \subseteq Keys
      /\ Elements \in Nat
  BY Threads, KeysHold, SMTT(30) DEF Pushed
<1> HIDE DEF m
<1>2. CASE test \in {"remove", "search"}
  <2>1. s = [j \in 1 .. m |-> [op |-> "insert", key |-> j - 1, expect |-> "any"]]
    <3>1. s = Loop("insert", "any", m, 1, 0)
      BY <1>2 DEF NumToPush, m
    <3>2. \A j \in 1 .. m : 1 * (j - 1) + 0 = j - 1
      OBVIOUS
    <3>. QED
      BY <3>1, <3>2 DEF Loop
  <2>2. \A j \in 1 .. m : j - 1 \in Pushed(num_threads) /\ j - 1 \in Keys
    BY <1>1
  <2>3. s \in [1 .. m -> JobRecord]
    BY <2>1, <2>2 DEF JobRecord
  <2>4. s \in Seq(JobRecord) /\ Len(s) = m
    BY <1>1, <2>3, SeqDef, LenProperties
  <2>5. \A j \in 1 .. m : /\ s[j].op = "insert" /\ s[j].key = j - 1 /\ s[j].expect = "any"
                          /\ Kind(s[j]) = "insert"
    <3> SUFFICES ASSUME NEW j \in 1 .. m
                 PROVE  /\ s[j].op = "insert" /\ s[j].key = j - 1 /\ s[j].expect = "any"
                        /\ Kind(s[j]) = "insert"
      OBVIOUS
    <3>1. s[j] = [op |-> "insert", key |-> j - 1, expect |-> "any"]
      BY <2>1
    <3>. QED
      BY <3>1 DEF Kind
  <2>6. test \notin Inserting
    BY <1>2 DEF Inserting
  <2>7. Plan(Main, s, num_threads, test)
    <3>1. test # "correctness"
      BY <1>2
    <3>2. \A j \in 1 .. Len(s) : PlanCall(Main, s, j, num_threads, test)
      BY <2>2, <2>4, <2>5, <2>6, <3>1 DEF PlanCall
    <3>. QED
      BY <1>1, <2>4, <2>5, <3>2 DEF Plan
  <2>8. ASSUME NEW k \in Pushed(num_threads)
        PROVE  Occurs(s, "insert", k)
    <3>1. k + 1 \in 1 .. m /\ (k + 1) - 1 = k
      BY <1>1
    <3>. QED
      BY <2>4, <2>5, <3>1 DEF Occurs, CallIs
  <2>9. \A k : Occurs(s, "insert", k) => k \in Pushed(num_threads)
    BY <2>2, <2>4, <2>5 DEF Occurs, CallIs
  <2>. QED
    BY <1>2, <2>7, <2>8, <2>9
<1>3. CASE test \notin {"remove", "search"}
  <2>1. s = <<>>
    <3>1. s = Loop("insert", "any", 0, 1, 0)
      BY <1>3 DEF NumToPush
    <3>. QED
      BY <3>1 DEF Loop
  <2>. QED
    BY <1>3, <2>1, EmptyPlan
<1>. QED
  BY <1>2, <1>3

\* Every round begins with plans, in which each of its keys is to be inserted.
LEMMA RoundPlans ==
  ASSUME num_threads \in Nat \ {0}, num_threads <= MaxThreads, test \in Tests,
         test # "aggressive", NEW A,
         A[Main] = Loop("insert", "any", NumToPush * num_threads, 1, 0),
         \A t \in Index : A[t] = IF t < num_threads THEN Job(t) ELSE <<>>
  PROVE  /\ Plans(A, num_threads, test)
         /\ \A k \in Pushed(num_threads) : \E t \in Thread : Occurs(A[t], "insert", k)
<1> DEFINE n == num_threads
<1>1. /\ n \in Nat \ {0} /\ Elements \in Nat /\ Main \in Thread /\ Main \notin Index
      /\ \A i \in 0 .. n - 1 : i \in Index /\ i \in Thread /\ A[i] = Job(i)
  BY Threads
<1>2. /\ Plan(Main, A[Main], n, test)
      /\ IF test \in {"remove", "search"}
         THEN /\ \A k \in Pushed(n) : Occurs(A[Main], "insert", k)
              /\ \A k : Occurs(A[Main], "insert", k) => k \in Pushed(n)
         ELSE A[Main] = <<>>
  BY PrefillPlan
<1>3. ASSUME NEW t \in Thread PROVE Plan(t, A[t], n, test)
  <2>1. CASE t \in 0 .. n - 1
    BY <1>1, <2>1, JobPlan
  <2>2. CASE t = Main
    BY <1>2, <2>2
  <2>3. CASE t # Main /\ t \notin 0 .. n - 1
    <3>1. A[t] = <<>>
      BY <1>1, <2>3, Threads
    <3>. QED
      BY <3>1, EmptyPlan
  <2>. QED
    BY <2>1, <2>2, <2>3
<1>4. ASSUME NEW k \in Pushed(n), NEW o,
             \A i \in 0 .. n - 1 : \A q \in 0 .. Elements - 1 : Occurs(Job(i), o, n * q + i)
      PROVE  \E t \in Thread : Occurs(A[t], o, k)
  <2>1. k \in Nat /\ k < Elements * n
    BY <1>1 DEF Pushed
  <2> DEFINE q == k \div n
             i == k % n
  <2>2. i \in 0 .. n - 1 /\ q \in Nat /\ k = n * q + i
    BY <1>1, <2>1, DivMod
  <2> HIDE DEF q, i
  <2>3. q < Elements
    BY <1>1, <2>1, <2>2, Below
  <2>4. q \in 0 .. Elements - 1
    BY <1>1, <2>2, <2>3
  <2>. QED
    BY <1>1, <1>4, <2>2, <2>4
<1>5. ASSUME NEW k \in Pushed(n)
      PROVE  \E t \in Thread : Occurs(A[t], "insert", k)
  <2>1. CASE test \in {"remove", "search"}
    BY <1>1, <1>2, <1>5, <2>1
  <2>2. CASE test \notin {"remove", "search"}
    <3>1. test \in Inserting
      BY <2>2, TestsAssumption DEF Inserting
    <3>2. \A i \in 0 .. n - 1 : \A q \in 0 .. Elements - 1 : Occurs(Job(i), "insert", n * q + i)
      BY <1>1, <3>1, JobPlan
    <3>. QED
      BY <1>4, <1>5, <3>2
  <2>. QED
    BY <2>1, <2>2
<1>6. ASSUME NEW k, Occurs(A[Main], "insert", k), test \in Removing
      PROVE  \E t \in Thread : Occurs(A[t], "remove", k)
  <2>1. k \in Pushed(n)
    BY <1>2, <1>6, EmptyPlan
  <2>2. \A i \in 0 .. n - 1 : \A q \in 0 .. Elements - 1 : Occurs(Job(i), "remove", n * q + i)
    BY <1>1, <1>6, JobPlan
  <2>. QED
    BY <1>4, <2>1, <2>2
<1>. QED
  BY <1>3, <1>5, <1>6 DEF Plans

-----------------------------------------------------------------------------
(***************************************************************************)
(* The steps.                                                              *)
(***************************************************************************)
\* A thread is idle when it has no call under way, in a state ...
IdleInv == \A t \in Thread :
  /\ th[t].pc = "Idle" <=> Underway[t].op = "none"
  /\ th[t].op # "none" => Underway[t].op # "none" /\ Underway[t].key = th[t].key

LEMMA IdleNow == Sound => IdleInv
<1> SUFFICES ASSUME Sound, NEW t \in Thread
             PROVE  /\ th[t].pc = "Idle" <=> Underway[t].op = "none"
                    /\ th[t].op # "none" =>
                         Underway[t].op # "none" /\ Underway[t].key = th[t].key
  BY Zenon DEF IdleInv
<1>1. Underway[t] = CallOf(th[t])
  BY DEF Underway
<1>2. th[t].op = "none" <=> th[t].pc = "Idle"
  BY DEF Sound, Shape, Tracks, SeenInv
<1>. QED
  BY <1>1, <1>2 DEF CallOf

\* ... and in the next one.
LEMMA IdleNext == Sound' => IdleInv'
BY IdleNow, PTL

\* Towers keep their keys, and get values of insertions.
LEMMA FieldsWork ==
  ASSUME Sound, FieldsInv, NEW t \in Thread, Work(t)
  PROVE  FieldsInv'
<1> DEFINE r == th[t]
<1>1. /\ TypeOK /\ r \in ThreadState
      /\ r.op = "insert" => r.key \in Key /\ r.val \in Value
  BY DEF Sound, Inv, TypeOK, Shape, Tracks, SeenInv, History, OutInv
<1>2. CASE UNCHANGED <<key, value, allocated>>
  BY <1>2 DEF FieldsInv
<1>3. CASE NewTower(t)
  <2>1. /\ r.op = "insert" /\ allocated' = allocated + 1
        /\ key' = [key EXCEPT ![allocated + 1] = r.key]
        /\ value' = [value EXCEPT ![allocated + 1] = r.val]
    BY <1>3 DEF NewTower, Placed
  <2>2. key \in [Tower -> Int] /\ value \in [Tower -> Value \cup {Absent}] /\ allocated \in Nat
    BY <1>1 DEF TypeOK
  <2>. QED
    BY <1>1, <2>1, <2>2 DEF FieldsInv, Tower
<1>4. CASE UpdateValue(t)
  <2>1. /\ r.op = "insert" /\ UNCHANGED <<key, allocated>>
        /\ value' = [value EXCEPT ![r.succs[0]] = r.val]
    BY <1>4 DEF UpdateValue, Placed
  <2>2. value \in [Tower -> Value \cup {Absent}]
    BY <1>1 DEF TypeOK
  <2>. QED
    BY <1>1, <2>1, <2>2 DEF FieldsInv
<1>. QED
  BY <1>2, <1>3, <1>4 DEF Work, Load, Look, Unlink, NoMemory, MaxStore, LinkStore, LinkCas,
     RemoveAbsent, MarkLoad, MarkCas, Retire, ReadValue, NoElement, shared

\* A thread with calls to make is at work, and the main thread is not, or alone.
LEMMA AtWork ==
  ASSUME RunInv, Running, NEW t \in Thread, ~Finished(t)
  PROVE  /\ Active(t) /\ main \in Working /\ num_threads \in Nat \ {0} /\ num_threads <= MaxThreads
         /\ test \in Tests /\ Ahead[t] = todo[t] /\ (t # Main => Ahead[Main] = <<>>)
         /\ \A u \in Thread \ {t} : ~Finished(u) => t # Main /\ u # Main
<1>1. /\ Active(t) /\ \A u \in Thread : ~Finished(u) => Active(u)
      /\ RunTypes /\ Thread = 0 .. MaxThreads /\ Main = MaxThreads /\ MaxThreads \in Nat
  BY Threads DEF RunInv, PhaseInv
<1>2. /\ main \in {"Prefill", "Spawn", "Join"} /\ main \in Working
      /\ num_threads \in Nat \ {0} /\ num_threads <= MaxThreads /\ test \in Tests
      /\ thread_i \in 0 .. num_threads /\ Ahead[Main] = todo[Main]
  BY <1>1 DEF Active, RunTypes, Working, Ahead
<1>3. CASE main = "Prefill"
  <2>1. \A u \in Thread : Active(u) => u = Main
    BY <1>3 DEF Active
  <2>. QED
    BY <1>1, <1>2, <2>1
<1>4. CASE main # "Prefill"
  <2>1. \A u \in Thread : Active(u) => u # Main /\ Ahead[u] = todo[u]
    BY <1>1, <1>2, <1>4 DEF Active, Ahead
  <2>2. todo[Main] = <<>>
    BY <1>1, <2>1 DEF Finished
  <2>. QED
    BY <1>1, <1>2, <2>1, <2>2
<1>. QED
  BY <1>3, <1>4

\* What a call is that a thread has begun, or is about to begin: one for a key of its own.
LEMMA OwnCall ==
  ASSUME RunInv, Running, NEW t \in Thread, todo[t] # <<>>
  PROVE  /\ ~Finished(t) /\ Head(todo[t]) \in JobRecord /\ Head(todo[t]) = Ahead[t][1]
         /\ Plans(Ahead, num_threads, test) /\ Calling(Ahead, Underway, Map)
         /\ \A u \in Thread \ {t} : Underway[u].op # "none" =>
              Underway[u].key # Head(todo[t]).key
<1>1. ~Finished(t)
  BY DEF Finished
<1>2. main \in Working /\ Ahead[t] = todo[t]
  BY <1>1, AtWork
<1>3. Plans(Ahead, num_threads, test) /\ Calling(Ahead, Underway, Map)
  BY <1>2 DEF RunInv, PlanInv, WayInv
<1>4. ASSUME NEW v \in Thread, Ahead[v] # <<>>
      PROVE  /\ Head(Ahead[v]) = Ahead[v][1] /\ Ahead[v][1] \in JobRecord
             /\ v # Main => Ahead[v][1].key % num_threads = v
  <2>1. Plan(v, Ahead[v], num_threads, test) /\ Ahead[v] \in Seq(JobRecord)
    BY <1>3 DEF Plans, Plan
  <2>2. 1 \in 1 .. Len(Ahead[v])
    BY <1>4, <2>1, TailIs
  <2>. QED
    BY <1>4, <2>1, <2>2, TailIs DEF Plan, PlanCall
<1>5. ASSUME NEW u \in Thread \ {t}, Underway[u].op # "none"
      PROVE  Underway[u].key # Head(todo[t]).key
  <2>1. ~Finished(u)
    BY <1>5, IdleNow DEF Finished, RunInv, IdleInv
  <2>2. t # Main /\ u # Main
    BY <1>1, <2>1, AtWork
  <2>3. Ahead[u] # <<>> /\ Underway[u].key = Head(Ahead[u]).key
    BY <1>3, <1>5 DEF Calling, Match
  <2>. QED
    BY <1>2, <1>4, <2>2, <2>3
<1>. QED
  BY <1>1, <1>2, <1>3, <1>4, <1>5

\* The jobs of a round do not change.
LEMMA JobsSame ==
  ASSUME "aggressive" \notin Tests, test \in Tests, UNCHANGED <<test, num_threads>>
  PROVE  Jobs' = Jobs
<1>1. ASSUME NEW t \in Thread PROVE Jobs'[t] = Jobs[t]
  <2>1. test \in {"correctness", "insert", "remove", "search", "mixed"}
    BY TestsAssumption
  <2>. QED
    BY <2>1 DEF Jobs, Job, correctness_thread_job, mixed_performance_thread_job, Own
<1>. QED
  BY <1>1 DEF Jobs

\* A step of a thread.
LEMMA ThreadKeeps ==
  ASSUME "aggressive" \notin Tests, RunInv, Running, NEW t \in Thread, ~Finished(t),
         UNCHANGED <<test, main, skiplist, num_threads, thread_i>>, Sound',
         \A u \in Thread \ {t} : Underway'[u] = Underway[u] /\ todo'[u] = todo[u],
         todo' \in [Thread -> Seq(JobRecord)], executed_correctly' \in [Index -> BOOLEAN],
         skiplist = "NULL" => Underway'[t].op = "none"
  PROVE  /\ RunTypes' /\ PhaseInv' /\ Ahead'[t] = todo'[t]
         /\ \A u \in Thread \ {t} : Ahead'[u] = Ahead[u]
<1>1. /\ Active(t) /\ Ahead[t] = todo[t] /\ test \in Tests
  BY AtWork
<1>2. RunTypes'
  BY DEF RunInv, RunTypes
<1>3. \A u \in Thread : Active(u)' <=> Active(u)
  BY DEF Active
<1>4. IdleInv /\ IdleInv'
  BY IdleNow, IdleNext DEF RunInv
<1>5. ASSUME NEW u \in Thread, ~Active(u)
      PROVE  Finished(u)'
  <2>1. u # t /\ Finished(u)
    BY <1>1, <1>5 DEF RunInv, PhaseInv
  <2>2. th[u].pc = "Idle" => th'[u].pc = "Idle"
    BY <1>4, <2>1 DEF IdleInv
  <2>. QED
    BY <2>1, <2>2 DEF Finished
<1>6. ASSUME skiplist' = "NULL", NEW u \in Thread
      PROVE  th'[u].pc = "Idle"
  <2>1. th[u].pc = "Idle"
    BY <1>6 DEF RunInv, PhaseInv
  <2>2. Underway'[u].op = "none"
    BY <1>4, <1>6, <2>1 DEF IdleInv
  <2>. QED
    BY <1>4, <2>2 DEF IdleInv
<1>7. PhaseInv'
  BY <1>3, <1>5, <1>6 DEF PhaseInv
<1>8. Jobs' = Jobs
  BY <1>1, JobsSame
<1>9. ASSUME NEW u \in Thread
      PROVE  Ahead'[u] = IF u = t THEN todo'[t] ELSE Ahead[u]
  <2>1. /\ Ahead'[u] = IF u < num_threads /\ (main = "Prefill" \/ (main = "Spawn" /\ thread_i <= u))
                       THEN Jobs[u] ELSE todo'[u]
        /\ Ahead[u] = IF u < num_threads /\ (main = "Prefill" \/ (main = "Spawn" /\ thread_i <= u))
                      THEN Jobs[u] ELSE todo[u]
    BY <1>8 DEF Ahead
  <2>2. ~(t < num_threads /\ (main = "Prefill" \/ (main = "Spawn" /\ thread_i <= t)))
    <3>1. /\ num_threads \in Nat /\ thread_i \in Nat /\ t \in Nat /\ Main \in Nat
          /\ main = "Prefill" => ~(Main < num_threads)
      BY AtWork, Threads DEF RunInv, RunTypes, Working
    <3>. QED
      BY <1>1, <3>1 DEF Active
  <2>. QED
    BY <2>1, <2>2
<1>. QED
  BY <1>2, <1>7, <1>9

\* The calls ahead are the same as before, and so are the books.
LEMMA CallKeeps ==
  ASSUME "aggressive" \notin Tests, RunInv, Running, NEW t \in Thread, ~Finished(t),
         UNCHANGED <<test, main, skiplist, num_threads, thread_i, jobs>>, Sound', FieldsInv',
         \A u \in Thread \ {t} : Underway'[u] = Underway[u],
         skiplist = "NULL" => Underway'[t].op = "none",
         Calling(Ahead, Underway', Map'),
         Books(Ahead, Underway', Map', missing, executed_correctly, num_threads, test, skiplist)
  PROVE  RunInv'
<1>1. UNCHANGED <<todo, executed_correctly, missing>>
  BY DEF jobs
<1>2. todo' \in [Thread -> Seq(JobRecord)] /\ executed_correctly' \in [Index -> BOOLEAN]
  BY <1>1 DEF RunInv, RunTypes
<1>3. /\ RunTypes' /\ PhaseInv' /\ Ahead'[t] = todo'[t]
      /\ \A u \in Thread \ {t} : Ahead'[u] = Ahead[u]
  BY <1>1, <1>2, ThreadKeeps
<1>4. main \in Working /\ Ahead[t] = todo[t]
  BY AtWork
<1>5. Ahead' = Ahead
  <2>1. Ahead' = [u \in Thread |-> Ahead'[u]] /\ Ahead = [u \in Thread |-> Ahead[u]]
    BY DEF Ahead
  <2>2. \A u \in Thread : Ahead'[u] = Ahead[u]
    BY <1>1, <1>3, <1>4
  <2>. QED
    BY ONLY <2>1, <2>2
<1>6. PlanInv' /\ WayInv' /\ BooksInv'
  BY <1>1, <1>4, <1>5 DEF RunInv, PlanInv, WayInv, BooksInv
<1>. QED
  BY <1>3, <1>6 DEF RunInv

\* The call that a thread begins conflicts with none of those under way.
LEMMA StartKeeps ==
  ASSUME "aggressive" \notin Tests, RunInv, Running, NEW t \in Thread, StartCall(t)
  PROVE  RunInv'
<1> DEFINE h == Head(todo[t])
           c == JobCall(h.op, h.key)
<1>1. /\ skiplist = "ready" /\ todo[t] # <<>> /\ BeginCall(t, c)
      /\ UNCHANGED <<test, main, skiplist, num_threads, thread_i, jobs>>
  BY DEF StartCall
<1>2. /\ ~Finished(t) /\ h \in JobRecord /\ Calling(Ahead, Underway, Map)
      /\ \A u \in Thread \ {t} : Underway[u].op # "none" => Underway[u].key # h.key
  BY <1>1, OwnCall
<1>3. /\ h.key \in Keys /\ h.op \in {"insert", "remove", "search"} /\ c \in Calls[t]
      /\ c.op = h.op /\ c.key = h.key /\ h.key \in Key
  BY <1>2, JobsAssumption, Threads DEF JobRecord, JobCall
<1>4. Sound /\ IdleInv /\ main \in Working /\ Ahead[t] = todo[t]
  BY <1>2, IdleNow, AtWork DEF RunInv
<1>5. th[t].pc = "Idle" /\ UNCHANGED shared
  BY <1>1 DEF BeginCall, BeginInsert, BeginRemove, BeginSearch, Begin
<1> HIDE DEF c, h
<1>6. ASSUME NEW u \in Thread PROVE ~Conflict(c, th[u])
  <2>1. CASE th[u].op = "none"
    BY <2>1 DEF Conflict
  <2>2. CASE th[u].op # "none"
    BY <1>2, <1>3, <1>4, <1>5, <2>2 DEF Conflict, IdleInv
  <2>. QED
    BY <2>1, <2>2
<1>7. Sound' /\ AbstractMap!Begin(t, c.op, c.key, c.val, FirstResults(c))
  BY <1>1, <1>3, <1>4, <1>6, SoundBegin
<1> DEFINE d == [op |-> c.op, key |-> c.key, val |-> c.val, results |-> FirstResults(c)]
<1>8. Map' = Map /\ Underway'[t] = d /\ \A u \in Thread \ {t} : Underway'[u] = Underway[u]
  <2>1. Underway = [u \in Thread |-> Underway[u]]
    BY DEF Underway
  <2>2. Map' = Map /\ Underway' = [Underway EXCEPT ![t] = d]
    BY <1>7 DEF AbstractMap!Begin, AbstractMap!Become
  <2> HIDE DEF d
  <2>. QED
    BY ONLY <2>1, <2>2, t \in Thread
<1>9. FieldsInv'
  BY <1>5 DEF RunInv, FieldsInv, shared
<1>10. Underway[t].op = "none"
  BY <1>4, <1>5 DEF IdleInv
<1>11. Match(d, Ahead[t]) /\ ResultsOK(d, Map) /\ ~Effective(d)
  <2>1. c.op = "search" => FirstResults(c) = {Map[c.key]}
    BY <1>3 DEF FirstResults, Map
  <2>2. c.op = "insert" => FirstResults(c) = {Failure}
    BY DEF FirstResults
  <2>3. c.op = "remove" => FirstResults(c) = {}
    BY DEF FirstResults
  <2>4. Match(d, Ahead[t])
    <3>1. d.op = h.op /\ d.key = h.key /\ d.val = JobCall(h.op, h.key).val
      BY <1>3 DEF c
    <3> HIDE DEF d
    <3>. QED
      BY <1>1, <1>4, <3>1 DEF Match, h
  <2>. QED
    BY <1>3, <2>1, <2>2, <2>3, <2>4, OutcomesAssumption DEF ResultsOK, Effective
<1>12. ~Effective(Underway[t])
  BY <1>10 DEF Effective
<1>13. Calling(Ahead, Underway', Map')
  BY <1>2, <1>8, <1>11, CallingOn
<1>14. Books(Ahead, Underway', Map', missing, executed_correctly, num_threads, test, skiplist)
  <2>1. Books(Ahead, Underway, Map, missing, executed_correctly, num_threads, test, skiplist)
    BY <1>4 DEF RunInv, BooksInv
  <2>2. \A u \in Thread : Effective(Underway'[u]) <=> Effective(Underway[u])
    BY <1>8, <1>11, <1>12
  <2>. QED
    BY <1>8, <2>1, <2>2, BooksOn
<1>. QED
  BY <1>1, <1>2, <1>7, <1>8, <1>9, <1>13, <1>14, CallKeeps

\* A step in the list is no step of the map, or the call takes effect or reports.
LEMMA StepKeeps ==
  ASSUME "aggressive" \notin Tests, RunInv, Running, NEW t \in Thread, StepCall(t)
  PROVE  RunInv'
<1>1. Work(t) /\ UNCHANGED <<test, main, skiplist, num_threads, thread_i, jobs>>
  BY DEF StepCall
<1>2. /\ Sound /\ Sound' /\ FieldsInv' /\ IdleInv
      /\ \/ UNCHANGED AbstractMap!vars
         \/ AbstractMap!TakeEffect(t) \/ AbstractMap!Report(t)
  BY <1>1, SoundWork, FieldsWork, IdleNow DEF RunInv
<1>3. Underway = [u \in Thread |-> Underway[u]] /\ Underway[t] = CallOf(th[t])
  BY DEF Underway
<1>4. CASE UNCHANGED AbstractMap!vars
  <2>1. Map' = Map /\ Underway' = Underway
    BY <1>4, SMTT(30) DEF AbstractMap!vars
  <2>2. th[t].pc # "Idle"
    BY <1>1, Zenon
    DEF Work, Load, Look, Unlink, UpdateValue, NoMemory, NewTower, MaxStore, LinkStore,
       LinkCas, RemoveAbsent, MarkLoad, MarkCas, Retire, ReadValue, NoElement, Placed
  <2>3. ~Finished(t) /\ main \in Working /\ skiplist # "NULL"
    BY <2>2, AtWork DEF Finished, RunInv, PhaseInv
  <2>4. /\ Calling(Ahead, Underway', Map')
        /\ Books(Ahead, Underway', Map', missing, executed_correctly, num_threads, test, skiplist)
    BY <2>1, <2>3 DEF RunInv, WayInv, BooksInv
  <2>. QED
    BY <1>1, <1>2, <2>1, <2>3, <2>4, CallKeeps
<1>5. CASE AbstractMap!TakeEffect(t) \/ AbstractMap!Report(t)
  <2>1. Underway[t].op # "none"
    BY <1>5, Zenon DEF AbstractMap!TakeEffect, AbstractMap!Report
  <2>2. th[t].pc # "Idle"
    BY <1>2, <2>1 DEF IdleInv
  <2>3. /\ ~Finished(t) /\ main \in Working /\ skiplist # "NULL" /\ Ahead[t] = todo[t]
    BY <2>2, AtWork DEF Finished, RunInv, PhaseInv
  <2>4. /\ Calling(Ahead, Underway, Map) /\ Plans(Ahead, num_threads, test)
        /\ Books(Ahead, Underway, Map, missing, executed_correctly, num_threads, test, skiplist)
    BY <2>3 DEF RunInv, WayInv, PlanInv, BooksInv
  <2>5. todo[t] # <<>> /\ Underway[t].key = Head(todo[t]).key
    BY <2>1, <2>3, <2>4 DEF Calling, Match
  <2>6. \A u \in Thread \ {t} : Underway[u].op # "none" => Underway[u].key # Underway[t].key
    BY <2>5, OwnCall
  <2>7. \E o, k, v, rs : Underway[t] = [op |-> o, key |-> k, val |-> v, results |-> rs]
    BY <1>3, <2>1 DEF CallOf
  <2>8. CASE AbstractMap!TakeEffect(t)
    <3>1. /\ Underway[t].op \in {"insert", "remove"} /\ Success \notin Underway[t].results
          /\ Map' = [Map EXCEPT ![Underway[t].key] = Underway[t].val]
      BY <2>8 DEF AbstractMap!TakeEffect
    <3>2. Underway'[t] = [Underway[t] EXCEPT !.results = {Success}]
      BY <2>8 DEF AbstractMap!TakeEffect
    <3>3. /\ Underway'[t].op = Underway[t].op /\ Underway'[t].key = Underway[t].key
          /\ Underway'[t].val = Underway[t].val /\ Underway'[t].results = {Success}
      BY ONLY <2>7, <3>2
    <3>4. \A u \in Thread \ {t} : Underway'[u] = Underway[u]
      BY <2>6, <2>8 DEF AbstractMap!TakeEffect
    <3>5. Map = [k \in Key |-> Map[k]] /\ Keys \subseteq Key
      BY MapNow, Threads
    <3>6. /\ Calling(Ahead, Underway', Map')
          /\ Books(Ahead, Underway', Map', missing, executed_correctly, num_threads, test, skiplist)
      BY <2>3, <2>4, <2>6, <3>1, <3>3, <3>4, <3>5, BooksEffect
    <3>. QED
      BY <1>1, <1>2, <2>3, <3>4, <3>6, CallKeeps
  <2>9. CASE AbstractMap!Report(t)
    <3>1. PICK x \in Underway[t].results :
            Underway' = [Underway EXCEPT ![t] =
                           [Underway[t] EXCEPT !.op = "report", !.results = {x}]]
      BY <2>9, Zenon DEF AbstractMap!Report, AbstractMap!Become
    <3>2. Map' = Map /\ Underway[t].op = "search"
      BY <2>9 DEF AbstractMap!Report
    <3>3. /\ Underway'[t].op = "report" /\ Underway'[t].key = Underway[t].key
          /\ Underway'[t].val = Underway[t].val /\ Underway'[t].results = {x}
          /\ \A u \in Thread \ {t} : Underway'[u] = Underway[u]
      BY ONLY <1>3, <2>7, <3>1, t \in Thread
    <3>4. Match(Underway'[t], Ahead[t]) /\ ResultsOK(Underway'[t], Map)
      <4>1. Match(Underway[t], Ahead[t]) /\ ResultsOK(Underway[t], Map)
        BY <2>4 DEF Calling
      <4>. QED
        BY <3>2, <3>3, <4>1 DEF Match, ResultsOK
    <3>5. Calling(Ahead, Underway', Map')
      BY <2>4, <3>2, <3>3, <3>4, CallingOn
    <3>6. \A u \in Thread : Effective(Underway'[u]) <=> Effective(Underway[u])
      BY <3>2, <3>3 DEF Effective
    <3>7. Books(Ahead, Underway', Map', missing, executed_correctly, num_threads, test, skiplist)
      BY <2>4, <3>2, <3>6, BooksOn
    <3>. QED
      BY <1>1, <1>2, <2>3, <3>3, <3>5, <3>7, CallKeeps
  <2>. QED
    BY <1>5, <2>8, <2>9
<1>. QED
  BY <1>2, <1>4, <1>5

\* A call is over, for one reason or the other.
LEMMA ReportKeeps ==
  ASSUME "aggressive" \notin Tests, Absent \notin Value, RunInv, Running,
         NEW t \in Thread, todo[t] # <<>>, NEW out, Report(t, out),
         UNCHANGED <<test, main, skiplist, num_threads, thread_i>>, Sound', FieldsInv',
         Map' = Map, Underway'[t].op = "none",
         \A u \in Thread \ {t} : Underway'[u] = Underway[u],
         Head(todo[t]).op = "insert" => (out = Failure <=> ~Effective(Underway[t])),
         Head(todo[t]).op = "remove" => Effective(Underway[t]) \/ skiplist = "NULL",
         Head(todo[t]).op = "search" => out = Map[Head(todo[t]).key]
  PROVE  RunInv'
<1> DEFINE h == Head(todo[t])
           ms == IF h.op = "insert" /\ out = Failure THEN missing \cup {h.key} ELSE missing
           es == IF \/ h.expect = "found" /\ out # h.key
                    \/ h.expect = "absent" /\ out # Absent
                 THEN [executed_correctly EXCEPT ![t] = FALSE] ELSE executed_correctly
<1>1. todo' = [todo EXCEPT ![t] = Tail(@)] /\ executed_correctly' = es /\ missing' = ms
  BY DEF Report
<1>2. /\ ~Finished(t) /\ h \in JobRecord /\ Plans(Ahead, num_threads, test)
      /\ Calling(Ahead, Underway, Map)
  BY OwnCall
<1>3. /\ main \in Working /\ num_threads \in Nat \ {0} /\ num_threads <= MaxThreads
      /\ Ahead[t] = todo[t] /\ (t # Main => Ahead[Main] = <<>>)
  BY <1>2, AtWork
<1>4. todo \in [Thread -> Seq(JobRecord)] /\ executed_correctly \in [Index -> BOOLEAN]
  BY DEF RunInv, RunTypes
<1>5. /\ todo'[t] = Tail(Ahead[t]) /\ todo' \in [Thread -> Seq(JobRecord)]
      /\ \A u \in Thread \ {t} : todo'[u] = todo[u]
  <2>1. Tail(todo[t]) \in Seq(JobRecord)
    BY <1>4, TailIs
  <2>. QED
    BY <1>1, <1>3, <1>4, <2>1
<1>6. executed_correctly' \in [Index -> BOOLEAN]
  BY <1>1, <1>4
<1>7. /\ RunTypes' /\ PhaseInv' /\ Ahead'[t] = Tail(Ahead[t])
      /\ \A u \in Thread \ {t} : Ahead'[u] = Ahead[u]
  BY <1>2, <1>5, <1>6, ThreadKeeps
<1>8. Books(Ahead, Underway, Map, missing, executed_correctly, num_threads, test, skiplist)
  BY <1>3 DEF RunInv, BooksInv
<1>9. Plans(Ahead', num_threads, test)
  <2>1. Main \in Thread
    BY Threads
  <2>. QED
    BY <1>2, <1>3, <1>7, <2>1, PlansOver
<1>10. Books(Ahead', Underway', Map, missing', executed_correctly', num_threads, test, skiplist)
  <2>2. Pushed(num_threads) \subseteq Keys
    BY <1>3, KeysHold DEF Pushed
  <2>3. ~Effective(Underway'[t]) /\ h = Head(Ahead[t]) /\ num_threads \in Nat
    BY <1>3 DEF Effective
  <2>4. /\ \A u \in Thread \ {t} : Ahead'[u] = Ahead[u] /\ Underway'[u] = Underway[u]
        /\ Ahead[t] # <<>> /\ Ahead'[t] = Tail(Ahead[t])
    BY <1>3, <1>7
  <2>5. Over(Ahead, Underway, Ahead', Underway', t, h, out, Map, missing, executed_correctly,
             missing', executed_correctly', num_threads, test, skiplist)
    BY <1>1, <1>2, <1>3, <1>4, <1>8, <2>2, <2>3, <2>4 DEF Over
  <2>. QED
    BY <2>5, BooksOver
<1>11. Calling(Ahead', Underway', Map)
  <2>1. Match(Underway'[t], Ahead'[t]) /\ ResultsOK(Underway'[t], Map)
    BY DEF Match, ResultsOK
  <2>. QED
    BY <1>2, <1>7, <2>1 DEF Calling
<1>. QED
  BY <1>7, <1>9, <1>10, <1>11 DEF RunInv, PlanInv, WayInv, BooksInv

\* A call returns.
LEMMA OverKeeps ==
  ASSUME "aggressive" \notin Tests, Absent \notin Value, RunInv, Running,
         NEW t \in Thread, EndCall(t)
  PROVE  RunInv'
<1> DEFINE out == th[t].out
           c == Underway[t]
<1>1. /\ Return(t) /\ Report(t, out)
      /\ UNCHANGED <<test, main, skiplist, num_threads, thread_i>>
  BY DEF EndCall
<1>2. Sound /\ Sound' /\ AbstractMap!Return(t) /\ IdleInv
  BY <1>1, SoundReturn, IdleNow DEF RunInv
<1>3. c.op \in {"insert", "remove", "report"}
  BY <1>2 DEF AbstractMap!Return
<1>4. /\ Map' = Map /\ Underway'[t].op = "none"
      /\ \A u \in Thread \ {t} : Underway'[u] = Underway[u]
  <2>1. Underway = [u \in Thread |-> Underway[u]]
    BY DEF Underway
  <2>2. Map' = Map /\ Underway' = [Underway EXCEPT ![t] = [op |-> "none"]]
    BY <1>2 DEF AbstractMap!Return, AbstractMap!Become, AbstractMap!Idle
  <2>. QED
    BY ONLY <2>1, <2>2, t \in Thread
<1>5. FieldsInv'
  BY <1>1 DEF Return, shared, RunInv, FieldsInv
<1>6. th[t].pc = "Return" /\ c.results = {out}
  <2>1. th[t].pc = "Return" /\ c = CallOf(th[t])
    BY <1>1 DEF Return, Underway
  <2>. QED
    BY <1>3, <2>1 DEF CallOf
<1>7. ~Finished(t)
  BY <1>6 DEF Finished
<1>8. Ahead[t] = todo[t] /\ Calling(Ahead, Underway, Map)
  BY <1>7, AtWork DEF RunInv, WayInv
<1>9. Match(c, todo[t]) /\ ResultsOK(c, Map)
  BY <1>8 DEF Calling
<1> HIDE DEF c, out
<1>10. /\ todo[t] # <<>> /\ c.key = Head(todo[t]).key
       /\ c.op = Head(todo[t]).op \/ (c.op = "report" /\ Head(todo[t]).op = "search")
  BY <1>3, <1>9 DEF Match
<1>11. /\ Head(todo[t]).op = "insert" => (out = Failure <=> ~Effective(Underway[t]))
       /\ Head(todo[t]).op = "remove" => Effective(Underway[t]) \/ skiplist = "NULL"
  BY <1>6, <1>9, <1>10, OutcomesAssumption DEF ResultsOK, Effective, c
<1>12. Head(todo[t]).op = "search" => out = Map[Head(todo[t]).key]
  BY <1>3, <1>6, <1>9, <1>10 DEF ResultsOK
<1>13. /\ todo[t] # <<>> /\ Report(t, out) /\ Sound' /\ FieldsInv' /\ Map' = Map
       /\ UNCHANGED <<test, main, skiplist, num_threads, thread_i>>
       /\ Underway'[t].op = "none"
  BY <1>1, <1>2, <1>4, <1>5, <1>10
<1>14. \A u \in Thread \ {t} : Underway'[u] = Underway[u]
  BY <1>4
<1>15. RunInv'
  BY <1>11, <1>12, <1>13, <1>14, ReportKeeps
<1>. QED
  BY <1>15

\* A call on a list that does not exist fails at once.
LEMMA NullKeeps ==
  ASSUME "aggressive" \notin Tests, Absent \notin Value, RunInv, Running,
         NEW t \in Thread, CallOnNull(t)
  PROVE  RunInv'
<1> DEFINE h == Head(todo[t])
           out == IF h.op = "search" THEN Absent ELSE Failure
<1>1. /\ skiplist = "NULL" /\ todo[t] # <<>> /\ Report(t, out) /\ UNCHANGED list
      /\ UNCHANGED <<test, main, skiplist, num_threads, thread_i>>
  BY DEF CallOnNull
<1>2. Sound' /\ UNCHANGED AbstractMap!vars /\ IdleInv
  BY <1>1, SoundSame, IdleNow DEF RunInv, list
<1>3. Map' = Map /\ Underway' = Underway /\ FieldsInv'
  BY <1>1, <1>2 DEF AbstractMap!vars, list, vars, shared, RunInv, FieldsInv
<1>4. Underway[t].op = "none" /\ ~Effective(Underway[t])
  BY <1>1, <1>2 DEF RunInv, PhaseInv, IdleInv, Effective
<1>5. ~Finished(t) /\ h \in JobRecord
  BY <1>1, OwnCall
<1>6. Books(Ahead, Underway, Map, missing, executed_correctly, num_threads, test, skiplist)
  BY <1>5, AtWork DEF RunInv, BooksInv
<1>7. Map[h.key] = Absent
  <2>1. h.key \in Key
    BY <1>5, Threads DEF JobRecord
  <2>. QED
    BY <1>1, <1>6, <2>1 DEF Books, Contents, MissingOK
<1> HIDE DEF h
<1>. QED
  BY <1>1, <1>2, <1>3, <1>4, <1>7, ReportKeeps DEF h

-----------------------------------------------------------------------------
\* A new list is empty, and no call is under way.
LEMMA NewIsSound == Init' => Sound' /\ (AbstractMap!Init)'
BY InitSound, InitMap, PTL

\* Every key is still to be inserted when a round starts.
LEMMA FirstBooks ==
  ASSUME NEW A, NEW U, NEW M, NEW ec, NEW n, NEW tst, NEW sl,
         \A t \in Thread : ~Effective(U[t]), \A k \in Key : M[k] = Absent,
         \A k \in Pushed(n) : \E t \in Thread : Occurs(A[t], "insert", k),
         \A i \in 0 .. n - 1 : ec[i]
  PROVE  Books(A, U, M, {}, ec, n, tst, sl)
<1>1. \A k \in Pushed(n) : Pending(A, U, "insert", k)
  BY AllWait DEF Pending
<1>. QED
  BY <1>1 DEF Books, Contents, MissingOK, VerdictOK

\* A round starts with an empty list and the jobs ahead.
LEMMA PrepareKeeps ==
  ASSUME "aggressive" \notin Tests, RunInv, Prepare
  PROVE  RunInv'
<1> DEFINE s == Loop("insert", "any", NumToPush * num_threads, 1, 0)
<1>1. /\ main = "Init" /\ todo' = [todo EXCEPT ![Main] = s] /\ missing' = {}
      /\ executed_correctly' = [i \in Index |-> i < num_threads \/ executed_correctly[i]]
      /\ UNCHANGED <<test, num_threads, thread_i>>
      /\ \/ main' = "Prefill" /\ skiplist' \in {"ready", "NULL"}
         \/ main' = "Crash"
  BY DEF Prepare
<1>2. NewList(forward', key', value', level', allocated', max_level', retired', th')
  BY DEF Prepare
<1>3. Init'
  BY <1>2 DEF Init
<1>4. Sound' /\ AbstractMap!Init'
  BY <1>3, NewIsSound
<1>5. FieldsInv'
  BY <1>2 DEF NewList, FieldsInv, Tower
<1>6. \A t \in Thread : th'[t].pc = "Idle"
  BY <1>2 DEF NewList, NoCall
<1>7. /\ num_threads \in Nat \ {0} /\ num_threads <= MaxThreads /\ thread_i \in 0 .. num_threads
      /\ test \in Tests /\ test # "aggressive" /\ todo \in [Thread -> Seq(JobRecord)]
      /\ executed_correctly \in [Index -> BOOLEAN]
  BY <1>1 DEF RunInv, RunTypes
<1>8. \A t \in Thread : todo[t] = <<>>
  BY <1>1 DEF RunInv, PhaseInv, Running, Active, Finished
<1>9. s \in Seq(JobRecord)
  BY <1>7, PrefillPlan DEF Plan
<1> HIDE DEF s
<1>10. RunTypes'
  <2>1. executed_correctly' \in [Index -> BOOLEAN]
    BY <1>1, <1>7
  <2>2. todo' \in [Thread -> Seq(JobRecord)]
    BY <1>1, <1>7, <1>9
  <2>. QED
    BY <1>1, <1>7, <2>1, <2>2 DEF RunTypes, Working
<1>11. CASE main' = "Crash"
  BY <1>4, <1>5, <1>10, <1>11
     DEF RunInv, PhaseInv, PlanInv, WayInv, BooksInv, Running, Working
<1>12. CASE main' = "Prefill"
  <2>1. Main \in Thread /\ Main \notin Index /\ Thread = Index \cup {Main} /\ ~(Main < num_threads)
    BY <1>7, Threads
  <2>2. PhaseInv'
    BY <1>1, <1>6, <1>8, <1>12 DEF PhaseInv, Active, Finished
  <2>3. Jobs' = Jobs
    BY <1>1, <1>7, JobsSame
  <2>4. \A t \in Thread : Ahead'[t] = IF t < num_threads THEN Job(t) ELSE todo'[t]
    BY <1>1, <1>12, <2>3 DEF Ahead, Jobs
  <2>5. Ahead'[Main] = s /\ \A t \in Index : Ahead'[t] = IF t < num_threads THEN Job(t) ELSE <<>>
    BY <1>1, <1>7, <1>8, <2>1, <2>4
  <2>6. /\ Plans(Ahead', num_threads, test)
        /\ \A k \in Pushed(num_threads) : \E t \in Thread : Occurs(Ahead'[t], "insert", k)
    BY <1>7, <2>5, RoundPlans DEF s
  <2>7. /\ \A k \in Key : Map'[k] = Absent
        /\ \A t \in Thread : Underway'[t].op = "none"
    BY <1>4 DEF AbstractMap!Init, AbstractMap!Idle
  <2>8. Calling(Ahead', Underway', Map')
    BY <2>7 DEF Calling, Match, ResultsOK
  <2>9. ASSUME NEW i \in 0 .. num_threads - 1 PROVE executed_correctly'[i]
    <3>1. i \in Index /\ i < num_threads
      BY <1>7, Threads
    <3>. QED
      BY <1>1, <3>1
  <2>10. Books(Ahead', Underway', Map', missing', executed_correctly', num_threads, test, skiplist')
    <3>1. \A t \in Thread : ~Effective(Underway'[t])
      BY <2>7 DEF Effective
    <3>. QED
      BY <1>1, <2>6, <2>7, <2>9, <3>1, FirstBooks
  <2>. QED
    BY <1>1, <1>4, <1>5, <1>10, <2>2, <2>6, <2>8, <2>10
       DEF RunInv, PlanInv, WayInv, BooksInv
<1>. QED
  BY <1>1, <1>11, <1>12

\* A step of the main thread between Prepare and Free: the list and the books stay.
LEMMA MainKeeps ==
  ASSUME "aggressive" \notin Tests, RunInv, Running,
         Prefilled \/ Spawn \/ AllSpawned \/ Join \/ Printout
  PROVE  RunInv' /\ main \in Working /\ Ahead' = Ahead
<1>1. /\ main \in Working /\ main' \in Working /\ UNCHANGED list
      /\ UNCHANGED <<test, skiplist, num_threads, executed_correctly, missing>>
  BY DEF Prefilled, Spawn, AllSpawned, Join, Printout, Working, jobs
<1>2. /\ Sound /\ FieldsInv /\ RunTypes /\ PhaseInv /\ Plans(Ahead, num_threads, test)
      /\ Calling(Ahead, Underway, Map) /\ Running'
      /\ Books(Ahead, Underway, Map, missing, executed_correctly, num_threads, test, skiplist)
  BY <1>1 DEF RunInv, PlanInv, WayInv, BooksInv, Running, Working
<1>3. /\ num_threads \in Nat \ {0} /\ num_threads <= MaxThreads /\ thread_i \in 0 .. num_threads
      /\ test \in Tests /\ todo \in [Thread -> Seq(JobRecord)]
  BY <1>1, <1>2 DEF RunTypes
<1>4. Thread = 0 .. MaxThreads /\ Main = MaxThreads /\ MaxThreads \in Nat
  BY Threads
<1>5. Sound' /\ Map' = Map /\ Underway' = Underway
  BY <1>1, <1>2, SoundSame DEF list, AbstractMap!vars
<1>6. th' = th /\ FieldsInv'
  BY <1>1, <1>2 DEF list, vars, shared, FieldsInv
<1>7. Jobs' = Jobs
  BY <1>1, <1>3, JobsSame
<1>8. \A t \in Thread :
        /\ Ahead[t] = IF t < num_threads /\ (main = "Prefill" \/ (main = "Spawn" /\ thread_i <= t))
                      THEN Jobs[t] ELSE todo[t]
        /\ Ahead'[t] = IF t < num_threads /\ (main' = "Prefill" \/ (main' = "Spawn" /\ thread_i' <= t))
                       THEN Jobs[t] ELSE todo'[t]
  BY <1>1, <1>7 DEF Ahead
<1>9. /\ todo' \in [Thread -> Seq(JobRecord)] /\ thread_i' \in 0 .. num_threads
      /\ \A t \in Thread : /\ Ahead'[t] = Ahead[t]
                           /\ Active(t)' \/ (todo'[t] = todo[t] /\ (Active(t) => Finished(t)))
  <2>1. CASE Prefilled
    <3>1. main = "Prefill" /\ main' = "Spawn" /\ thread_i' = 0 /\ todo' = todo /\ Finished(Main)
      BY <2>1 DEF Prefilled, jobs
    <3>. QED
      BY <1>3, <1>4, <1>8, <3>1 DEF Active
  <2>2. CASE Spawn
    <3>1. /\ main = "Spawn" /\ main' = "Spawn" /\ thread_i' = thread_i + 1
          /\ todo' = [todo EXCEPT ![thread_i] = Job(thread_i)] /\ thread_i < num_threads
      BY <2>2 DEF Spawn
    <3>2. thread_i \in Thread /\ Jobs[thread_i] = Job(thread_i)
      BY <1>3, <1>4, <3>1 DEF Jobs
    <3>3. Ahead[thread_i] = Job(thread_i)
      BY <1>3, <1>8, <3>1, <3>2
    <3>4. Job(thread_i) \in Seq(JobRecord)
      BY <1>2, <3>2, <3>3 DEF Plans, Plan
    <3>5. \A t \in Thread : todo'[t] = IF t = thread_i THEN Job(thread_i) ELSE todo[t]
      BY <1>3, <3>1, <3>2
    <3>6. ASSUME NEW t \in Thread
          PROVE  Ahead'[t] = Ahead[t]
      <4>1. CASE t = thread_i
        BY <1>3, <1>4, <1>8, <3>1, <3>3, <3>5, <4>1
      <4>2. CASE t # thread_i
        <5>1. todo'[t] = todo[t]
          BY <3>5, <4>2
        <5>2. thread_i <= t <=> thread_i' <= t
          BY <1>3, <1>4, <3>1, <4>2
        <5>. QED
          BY <1>8, <3>1, <5>1, <5>2
      <4>. QED
        BY <4>1, <4>2
    <3>7. ASSUME NEW t \in Thread
          PROVE  Active(t)' \/ (todo'[t] = todo[t] /\ (Active(t) => Finished(t)))
      <4>1. Active(t) <=> t < thread_i
        BY <3>1 DEF Active
      <4>2. Active(t)' <=> t < thread_i + 1
        BY <3>1 DEF Active
      <4>. QED
        BY <1>3, <1>4, <3>5, <4>1, <4>2
    <3>8. todo' \in [Thread -> Seq(JobRecord)]
      BY <1>3, <3>1, <3>4
    <3>. QED
      BY <1>3, <3>1, <3>6, <3>7, <3>8
  <2>3. CASE AllSpawned
    <3>1. main = "Spawn" /\ main' = "Join" /\ thread_i = num_threads /\ thread_i' = 0 /\ todo' = todo
      BY <2>3 DEF AllSpawned, jobs
    <3>. QED
      BY <1>1, <1>3, <1>4, <1>8, <3>1 DEF Active
  <2>4. CASE Join
    <3>1. /\ main = "Join" /\ main' = "Join" /\ thread_i < num_threads /\ thread_i' = thread_i + 1
          /\ todo' = todo /\ Finished(thread_i)
      BY <2>4 DEF Join, jobs
    <3>. QED
      BY <1>1, <1>3, <1>4, <1>8, <3>1 DEF Active
  <2>5. CASE Printout
    <3>1. /\ main = "Join" /\ main' = "Free" /\ thread_i = num_threads /\ thread_i' = thread_i
          /\ todo' = todo
      BY <2>5 DEF Printout, jobs
    <3>. QED
      BY <1>3, <1>4, <1>8, <3>1 DEF Active
  <2>. QED
    BY <2>1, <2>2, <2>3, <2>4, <2>5
<1>10. RunTypes'
  BY <1>1, <1>2, <1>9 DEF RunTypes, Working
<1>11. PhaseInv'
  BY <1>1, <1>2, <1>6, <1>9 DEF PhaseInv, Finished, Running, Working
<1>12. Ahead' = Ahead
  <2>1. Ahead' = [t \in Thread |-> Ahead'[t]] /\ Ahead = [t \in Thread |-> Ahead[t]]
    BY DEF Ahead
  <2>2. \A t \in Thread : Ahead'[t] = Ahead[t]
    BY <1>9
  <2>. QED
    BY ONLY <2>1, <2>2
<1>. QED
  BY <1>1, <1>2, <1>5, <1>6, <1>10, <1>11, <1>12 DEF RunInv, PlanInv, WayInv, BooksInv

\* A step that leaves the benchmark's part of the list, or ends a round or the process.
LEMMA RestKeeps ==
  ASSUME "aggressive" \notin Tests, RunInv, (Running /\ (Free \/ Fail)) \/ UNCHANGED runVars
  PROVE  RunInv'
<1>1. UNCHANGED list
  BY DEF Free, Fail, runVars
<1>2. Sound' /\ Map' = Map /\ Underway' = Underway
  BY <1>1, SoundSame DEF list, RunInv, AbstractMap!vars
<1>3. th' = th /\ FieldsInv'
  BY <1>1 DEF list, vars, shared, RunInv, FieldsInv
<1>4. CASE Free /\ Running
  <2>1. RunTypes'
    BY <1>4 DEF RunInv, RunTypes, Free, jobs, Working
  <2>2. PhaseInv'
    BY <1>3, <1>4 DEF RunInv, PhaseInv, Free, jobs, Active, Finished
  <2>. QED
    BY <1>2, <1>3, <1>4, <2>1, <2>2 DEF RunInv, Free, PlanInv, WayInv, BooksInv, Working
<1>5. CASE Fail
  <2>1. RunTypes'
    BY <1>5 DEF RunInv, RunTypes, Fail, jobs, Working
  <2>. QED
    BY <1>2, <1>3, <1>5, <2>1
       DEF RunInv, Fail, PhaseInv, PlanInv, WayInv, BooksInv, Running, Working
<1>6. CASE UNCHANGED runVars
  <2>1. /\ UNCHANGED <<test, main, skiplist, num_threads, thread_i, todo>>
        /\ UNCHANGED <<executed_correctly, missing>>
    BY <1>6 DEF runVars, jobs
  <2>2. RunTypes' /\ PhaseInv'
    BY <1>3, <2>1 DEF RunInv, RunTypes, PhaseInv, Running, Active, Finished
  <2>3. Jobs' = Jobs
    BY <2>1, JobsSame DEF RunInv, RunTypes
  <2>4. Ahead' = Ahead
    BY <2>1, <2>3 DEF Ahead
  <2>. QED
    BY <1>2, <1>3, <2>1, <2>2, <2>4 DEF RunInv, PlanInv, WayInv, BooksInv
<1>. QED
  BY <1>4, <1>5, <1>6

\* The process starts with no list ...
LEMMA InitRunInv == RunInit => RunInv
<1> SUFFICES ASSUME RunInit PROVE RunInv
  OBVIOUS
<1>1. Sound
  BY InitSound DEF RunInit
<1>2. FieldsInv /\ \A t \in Thread : th[t].pc = "Idle"
  BY DEF RunInit, Init, NewList, NoCall, FieldsInv, Tower
<1>3. RunTypes
  <2>1. <<>> \in Seq(JobRecord)
    OBVIOUS
  <2>. QED
    BY <2>1, CountsAssumption DEF RunInit, RunTypes, Working
<1>4. PhaseInv
  BY <1>2 DEF RunInit, PhaseInv, Finished
<1>. QED
  BY <1>1, <1>2, <1>3, <1>4 DEF RunInit, RunInv, PlanInv, WayInv, BooksInv, Working

\* ... and every step keeps the invariant.
LEMMA NextRunInv ==
  ASSUME "aggressive" \notin Tests, Absent \notin Value
  PROVE  RunInv /\ [RunNext]_runVars => RunInv'
<1> SUFFICES ASSUME RunInv, [RunNext]_runVars PROVE RunInv'
  OBVIOUS
<1>1. CASE ~RunNext
  BY <1>1, RestKeeps
<1>2. CASE Running /\ Round
  BY <1>2, PrepareKeeps, MainKeeps, RestKeeps DEF Round
<1>3. CASE Running /\ Fail
  BY <1>3, RestKeeps
<1>4. ASSUME Running, NEW t \in Thread, ThreadStep(t)
      PROVE  RunInv'
  BY <1>4, StartKeeps, StepKeeps, OverKeeps, NullKeeps DEF ThreadStep
<1>. QED
  BY <1>1, <1>2, <1>3, <1>4 DEF RunNext

\* The invariant holds in every round, of every test but the aggressive one, whose jobs
\* do not keep to keys of their own.
THEOREM RunInvariant ==
  ASSUME "aggressive" \notin Tests, Absent \notin Value
  PROVE  RunSpec => []RunInv
<1>1. RunInv /\ [RunNext]_runVars => RunInv'
  BY NextRunInv
<1>. QED
  BY <1>1, InitRunInv, PTL DEF RunSpec

\* When the list is freed nothing is ahead of any thread: no call is pending.
LEMMA AllOver ==
  ASSUME RunInv, main = "Free"
  PROVE  /\ \A t \in Thread : Finished(t) /\ Ahead[t] = <<>>
         /\ \A o, k : ~Occurs(<<>>, o, k) /\ ~Pending(Ahead, Underway, o, k)
<1>1. \A t \in Thread : Finished(t) /\ Ahead[t] = <<>>
  BY Zenon DEF RunInv, PhaseInv, Running, Active, Finished, Ahead
<1>. QED
  BY <1>1, EmptyPlan DEF Pending, Waits, Occurs

\* The keys that a list holds are those that Map holds.
LEMMA KeysHeld ==
  ASSUME Sound, FieldsInv, Absent \notin Value, NEW k
  PROVE  k \in {key[n] : n \in {m \in Chain(0) : ~forward[m][0].marked}}
           <=> k \in Key /\ Map[k] # Absent
<1>1. TypeOK /\ LinkInv /\ LinkedInv /\ 0 \in Level
  BY Constants DEF Sound, Inv, Shape, ListInv
<1>2. \A n \in Chain(0) : n \in Tower /\ n <= allocated
  BY <1>1, ChainIn
<1>3. ASSUME NEW n \in Chain(0), ~forward[n][0].marked, key[n] = k
      PROVE  k \in Key /\ Map[k] # Absent
  <2>1. n \in Tower /\ k \in Key /\ value[n] # Absent
    BY <1>2, <1>3 DEF FieldsInv
  <2>2. n \in Holding(k)
    BY <1>3, <2>1 DEF Holding
  <2>3. ValueOf(k) = value[n]
    BY <1>1, <2>1, <2>2, HeldBy
  <2>. QED
    BY <2>1, <2>3 DEF Map
<1>4. ASSUME k \in Key, Map[k] # Absent
      PROVE  \E n \in Chain(0) : ~forward[n][0].marked /\ key[n] = k
  <2>1. ValueOf(k) # Absent
    BY <1>4 DEF Map
  <2>2. Holding(k) # {}
    BY <2>1 DEF ValueOf
  <2>. QED
    BY <2>2 DEF Holding
<1>. QED
  BY <1>3, <1>4

\* skiplist_free frees the towers linked on the bottom level and those in the reclaim
\* lists, that is every tower, once (SkipList.c:124, 136): at the end of a round no
\* insertion is half done and every removal has retired its tower.
THEOREM RunFreesEachTowerOnce ==
  ASSUME "aggressive" \notin Tests, Absent \notin Value
  PROVE  RunSpec => []FreesEachTowerOnce
<1>1. RunInv => FreesEachTowerOnce
  <2> SUFFICES ASSUME RunInv, main = "Free"
               PROVE  /\ Chain(0) \cap retired = {}
                      /\ Chain(0) \cup retired = 1 .. allocated
    BY DEF FreesEachTowerOnce
  <2>1. \A t \in Thread : th[t].pc = "Idle"
    BY AllOver, Zenon DEF Finished
  <2>2. ListShape
    BY WellFormedShape DEF RunInv, Sound
  <2>. QED
    BY <2>1, <2>2 DEF ListShape
<1>. QED
  BY <1>1, RunInvariant, PTL

\* What the jobs leave in the list, whatever the order of their calls
\* (SkipListBenchmarks.c:96-245): all that was inserted, or nothing.
THEOREM RunFinalContents ==
  ASSUME "aggressive" \notin Tests, Absent \notin Value
  PROVE  RunSpec => []FinalContents
<1>1. RunInv => FinalContents
  <2> SUFFICES ASSUME RunInv, main = "Free"
               PROVE  {key[n] : n \in {m \in Chain(0) : ~forward[m][0].marked}} =
                        IF test \in {"insert", "search"}
                        THEN 0 .. Elements * num_threads - 1 \ missing ELSE {}
    BY DEF FinalContents
  <2>1. Contents(Ahead, Underway, Map, missing, num_threads, test)
    BY DEF RunInv, BooksInv, Books, Working
  <2>2. /\ num_threads \in Nat \ {0} /\ num_threads <= MaxThreads
        /\ test \in {"correctness", "insert", "remove", "search", "mixed"}
    BY TestsAssumption DEF RunInv, RunTypes, Working
  <2>3. test \in Removing <=> test \notin {"insert", "search"}
    BY <2>2 DEF Removing
  <2>4. Pushed(num_threads) \subseteq Keys
    BY <2>2, Threads, KeysHold DEF Pushed
  <2>5. \A k \in Pushed(num_threads) : k \in Key /\ k # Absent
    BY <2>4, Threads
  <2>6. \A o, k : ~Pending(Ahead, Underway, o, k)
    BY AllOver
  <2>7. ASSUME NEW k
        PROVE  k \in Key /\ Map[k] # Absent <=>
                 k \in Pushed(num_threads) \ missing /\ test \in {"insert", "search"}
    BY <2>1, <2>3, <2>5, <2>6 DEF Contents
  <2>8. ASSUME NEW k
        PROVE  k \in {key[n] : n \in {m \in Chain(0) : ~forward[m][0].marked}}
                 <=> k \in Pushed(num_threads) \ missing /\ test \in {"insert", "search"}
    BY <2>7, KeysHeld DEF RunInv
  <2>. QED
    BY <2>8 DEF Pushed
<1>. QED
  BY <1>1, RunInvariant, PTL

\* The correctness test passes just if every insertion of the round succeeded
\* (SkipListBenchmarks.c:96 and 270).
THEOREM RunVerdictRight ==
  ASSUME "aggressive" \notin Tests, Absent \notin Value
  PROVE  RunSpec => VerdictRight
<1>1. ASSUME RunInv, [RunNext]_runVars, main = "Join", main' = "Free", test = "correctness"
      PROVE  verdict' = "PASSED" <=> missing = {}
  <2> DEFINE n == num_threads
  <2>1. /\ thread_i = n
        /\ verdict' = IF \A i \in 0 .. n - 1 : executed_correctly[i] THEN "PASSED" ELSE "FAILED"
    <3>1. Printout
      BY <1>1 DEF RunNext, Round, Prepare, Prefilled, Spawn, AllSpawned, Join, Free, Fail,
         ThreadStep, StartCall, StepCall, EndCall, CallOnNull, runVars
    <3>. QED
      BY <1>1, <3>1 DEF Printout
  <2>2. n \in Nat \ {0} /\ missing \subseteq Pushed(n) /\ VerdictOK(Ahead, missing, executed_correctly, n)
    BY <1>1 DEF RunInv, RunTypes, BooksInv, Books, MissingOK, Working
  <2>3. \A t \in Thread : Ahead[t] = <<>>
    <3>1. \A t \in Thread : Finished(t)
      BY <1>1, <2>1, <2>2, Threads DEF RunInv, PhaseInv, Running, Active
    <3>. QED
      BY <1>1, <3>1 DEF Ahead, Finished
  <2>4. 0 .. n - 1 \subseteq Thread
    BY <1>1, Threads DEF RunInv, RunTypes, Working
  <2>5. \A i \in 0 .. n - 1 : executed_correctly[i] <=> \A k \in missing : k % n # i
    BY <2>2, <2>3, <2>4, EmptyPlan DEF VerdictOK
  <2>6. \A k \in missing : k % n \in 0 .. n - 1
    BY <2>2, Threads, DivMod DEF Pushed
  <2>. QED
    BY <2>1, <2>5, <2>6
<1>. QED
  BY <1>1, RunInvariant, PTL DEF RunSpec, VerdictRight
=============================================================================
