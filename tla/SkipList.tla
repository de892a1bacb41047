----------------------------- MODULE SkipList ------------------------------
(***************************************************************************)
(* The skip list of lab4/SkipList.c.  A tower is a node of one linked list *)
(* per level, from the bottom level 0 up to its own.  Insertion links it   *)
(* level by level with compare-and-swaps; removal marks its forward        *)
(* pointers from the top down and lets searches unlink what is marked.     *)
(*                                                                         *)
(* One action is one access to memory that other threads can change, with  *)
(* the private computation up to the next one.  A tower's key and level    *)
(* never change once it is linked, so reading them is private.  Memory is  *)
(* sequentially consistent.  Entering and leaving epochs, the reclaim      *)
(* lists and the freeing of towers are the module Epoch: its invariant     *)
(* EpochStuck is why a removed tower is never freed, nor handed out again, *)
(* while the list is in use.  The errno field is left out: the outcome of  *)
(* a call says which error it sets.                                        *)
(***************************************************************************)
EXTENDS Integers

CONSTANTS
  Thread,
  Value,
  Calls,     \* Calls[t]: the calls thread t makes
  Exclusive, \* do threads keep the insertions of a key apart from other
             \* insertions and removals of it?
  Towers,    \* towers malloc can provide
  TopLevel,  \* NUM_LEVELS - 1
  MayFail,   \* may malloc fail while there are towers left?
  Absent, Success, Failure \* outcomes: see AbstractMap

Call == [op : {"insert"}, key : Int, val : Value]
          \cup [op : {"remove", "search"}, key : Int, val : {Absent}]

ASSUME CallsAssumption == Calls \in [Thread -> SUBSET Call]
ASSUME BoundsAssumption == Towers \in Nat /\ TopLevel \in Nat
ASSUME FlagsAssumption == Exclusive \in BOOLEAN /\ MayFail \in BOOLEAN
ASSUME OutcomesAssumption == Success # Failure  \* 0 and -1

Key    == UNION {{c.key : c \in Calls[t]} : t \in Thread}
Tower  == 1 .. Towers      \* in the order in which malloc returns them
NULL   == 0
Header == -1               \* skiplist->header, below every key
Node   == Tower \cup {Header}
Level  == 0 .. TopLevel

\* A tagged pointer: POINTER(p), and IS_MARKED(p).
Pointer == Tower \cup {NULL}
Link    == [to : Pointer, marked : BOOLEAN]
Unmarked(n) == [to |-> n, marked |-> FALSE]
Marked(n)   == [to |-> n, marked |-> TRUE]

VARIABLES
  forward,           \* forward[n][l], a tagged pointer
  key, value, level, \* the other fields of a tower
  allocated,         \* number of towers allocated so far
  max_level,         \* skiplist->max_level
  retired,           \* towers handed to add_to_reclaim_list
  th                 \* what each thread keeps to itself

shared == <<forward, key, value, level, allocated, max_level, retired>>
vars   == <<shared, th>>

Outcome == Value \cup {Absent, Success, Failure}

\* The call, with the results it may return so far as AbstractMap has them
\* (history), and the variables of fill_tables and its callers.
ThreadState ==
  [pc : {"Idle", "Load", "Look", "Unlink", "Place", "MaxStore", "LinkStore",
         "LinkCas", "MarkLoad", "MarkCas", "Retire", "Return"},
   op : {"none", "insert", "remove", "search"}, key : Int,
   val : Value \cup {Absent}, results : SUBSET Outcome, out : Outcome,
   lvl : Level, from : Level, to : Level, cur : Node, next : Pointer, link : Link,
   tower : Pointer, preds : [Level -> Node], succs : [Level -> Pointer]]

NoCall ==
  [pc |-> "Idle", op |-> "none", key |-> 0, val |-> Absent, results |-> {},
   out |-> Success, lvl |-> 0, from |-> 0, to |-> 0, cur |-> Header, next |-> NULL,
   link |-> Unmarked(NULL), tower |-> NULL,
   preds |-> [l \in Level |-> Header], succs |-> [l \in Level |-> NULL]]

TypeOK ==
  /\ forward \in [Node -> [Level -> Link]]
  /\ key \in [Tower -> Int]
  /\ value \in [Tower -> Value \cup {Absent}]
  /\ level \in [Tower -> Level]
  /\ allocated \in 0 .. Towers
  /\ max_level \in Level
  /\ retired \subseteq Tower
  /\ th \in [Thread -> ThreadState]

\* skiplist_init.  The fields of a tower are set when it is allocated, but for
\* forward above the bottom, which malloc leaves undefined: nothing but the
\* mark of a removal is read from or written to it before LinkStore sets it.
NewList(f, k, v, lv, a, m, ret, s) ==
  /\ f = [n \in Node |-> [l \in Level |-> Unmarked(NULL)]]
  /\ k = [n \in Tower |-> 0]
  /\ v = [n \in Tower |-> Absent]
  /\ lv = [n \in Tower |-> 0]
  /\ a = 0 /\ m = 0 /\ ret = {}
  /\ s = [t \in Thread |-> NoCall]

Init == NewList(forward, key, value, level, allocated, max_level, retired, th)
-----------------------------------------------------------------------------
(***************************************************************************)
(* The towers linked on level l, and the map in the list: its keys are     *)
(* those of the towers linked and not marked on level 0.                   *)
(***************************************************************************)
Chain(l) ==
  LET After[i \in 0 .. Towers] == [n \in Node |->
        IF i = 0 \/ forward[n][l].to = NULL THEN {}
        ELSE {forward[n][l].to} \cup After[i - 1][forward[n][l].to]]
  IN  After[Towers][Header]

Holding(k) == {n \in Tower : n \in Chain(0) /\ ~forward[n][0].marked /\ key[n] = k}

ValueOf(k) == LET towers == Holding(k)
              IN  IF towers = {} THEN Absent ELSE value[CHOOSE n \in towers : TRUE]
-----------------------------------------------------------------------------
(***************************************************************************)
(* A step of thread t, after which its local state is r; and one with      *)
(* which its call takes effect: every search for its key may see that.     *)
(***************************************************************************)
Become(t, r) == th' = [th EXCEPT ![t] = r]

TakeEffect(t, r) ==
  th' = [u \in Thread |->
    CASE u = t -> [r EXCEPT !.results = {Success}]
      [] u # t /\ th[u].op = "search" /\ th[u].key = r.key
           -> [th[u] EXCEPT !.results = @ \cup {r.val}]
      [] OTHER -> th[u]]

\* Fault: a store in place of a compare-and-swap.
Overwrite(n, l, old, new) == forward' = [forward EXCEPT ![n][l] = new]

\* __atomic_compare_exchange_n(&n->forward[l], &old, new, STRONG, ...), and what
\* it finds when it fails
Cas(n, l, old, new) ==
  forward[n][l] = old /\ forward' = [forward EXCEPT ![n][l] = new]

CasFails(n, l, old) == forward[n][l] # old /\ UNCHANGED forward
-----------------------------------------------------------------------------
(***************************************************************************)
(* fill_tables: search for r.key on the levels from r.from down to r.to.   *)
(***************************************************************************)
\* Fault: the search goes on from the tower it has reached.
ResetInPlace(r) == [r EXCEPT !.pc = "Load", !.next = NULL, !.link = NoCall.link]

\* reset_search.  What the tables hold is not read before it is filled in.
Reset(r) == [r EXCEPT !.pc = "Load", !.cur = Header, !.lvl = r.from, !.next = NULL,
                      !.link = NoCall.link, !.preds = NoCall.preds,
                      !.succs = NoCall.succs]

Fill(r, from, to) == Reset([r EXCEPT !.from = from, !.to = to])

\* The first search of a call has stopped at the tower of its key.
Found(r) == r.succs[0] # NULL /\ key[r.succs[0]] = r.key

\* The tables are filled: where each caller goes on.
Filled(r) ==
  CASE r.tower # NULL /\ r.op = "insert" -> [r EXCEPT !.pc = "LinkStore"]
    [] r.tower # NULL /\ r.op = "remove" -> [r EXCEPT !.pc = "Retire"]
    [] r.tower = NULL /\ r.op = "remove" /\ Found(r)
         -> [r EXCEPT !.pc = "MarkLoad", !.tower = r.succs[0],
                      !.lvl = level[r.succs[0]]]
    [] OTHER -> [r EXCEPT !.pc = "Place"]

\* The search of level r.lvl has ended between r.cur and n.
LevelDone(r, n) ==
  LET s == [r EXCEPT !.preds[r.lvl] = r.cur, !.succs[r.lvl] = n, !.next = NULL]
  IN  IF r.lvl = r.to THEN Filled([s EXCEPT !.cur = Header])
                      ELSE [s EXCEPT !.pc = "Load", !.lvl = @ - 1]

\* On level r.lvl, n follows r.cur.
Arrive(r, n) == IF n = NULL THEN LevelDone(r, n)
                            ELSE [r EXCEPT !.pc = "Look", !.next = n]

\* next = POINTER(cur->forward[lvl])
Load(t) ==
  /\ th[t].pc = "Load"
  /\ Become(t, Arrive(th[t], forward[th[t].cur][th[t].lvl].to))
  /\ UNCHANGED shared

\* Fault: marks are not looked at.
LookOnlyAtKey(t) ==
  LET r == th[t]  after == forward[r.next][r.lvl] IN
  /\ r.pc = "Look"
  /\ Become(t, IF key[r.next] < r.key
               THEN Arrive([r EXCEPT !.cur = r.next], after.to)
               ELSE LevelDone(r, r.next))
  /\ UNCHANGED shared

\* next_next = next->forward[lvl]: next is to be unlinked, passed, or stopped at.
Look(t) ==
  LET r == th[t]  after == forward[r.next][r.lvl] IN
  /\ r.pc = "Look"
  /\ \/ after.marked /\ Become(t, [r EXCEPT !.pc = "Unlink", !.link = after])
     \/ /\ ~after.marked /\ key[r.next] < r.key
        /\ Become(t, Arrive([r EXCEPT !.cur = r.next], after.to))
     \/ ~after.marked /\ key[r.next] >= r.key /\ Become(t, LevelDone(r, r.next))
  /\ UNCHANGED shared

\* cur->forward[lvl] goes from next to next_next, or the search starts again.
Unlink(t) ==
  LET r == th[t] IN
  /\ r.pc = "Unlink"
  /\ \/ /\ Cas(r.cur, r.lvl, Unmarked(r.next), Unmarked(r.link.to))
        /\ Become(t, [r EXCEPT !.pc = "Load", !.next = NULL, !.link = NoCall.link])
     \/ CasFails(r.cur, r.lvl, Unmarked(r.next)) /\ Become(t, Reset(r))
  /\ UNCHANGED <<key, value, level, allocated, max_level, retired>>
-----------------------------------------------------------------------------
(***************************************************************************)
(* Calls.  They end with leave_epoch and the return of r.out.              *)
(***************************************************************************)
Conflict(c, r) == /\ c.key = r.key
                  /\ {c.op, r.op} \in {{"insert"}, {"insert", "remove"}}

Begin(t, c, rs, from) ==
  /\ th[t].pc = "Idle"
  /\ Exclusive => \A u \in Thread : ~Conflict(c, th[u])
  /\ Become(t, Fill([NoCall EXCEPT !.op = c.op, !.key = c.key, !.val = c.val,
                                   !.results = rs], from, 0))
  /\ UNCHANGED shared

\* skiplist_insert, skiplist_remove, skiplist_search up to fill_tables
BeginInsert(t, c) == c.op = "insert" /\ Begin(t, c, {Failure}, TopLevel)
BeginRemove(t, c) == c.op = "remove" /\ Begin(t, c, {}, TopLevel)
BeginSearch(t, c) == c.op = "search" /\ Begin(t, c, {ValueOf(c.key)}, max_level)

BeginCall(t, c) == BeginInsert(t, c) \/ BeginRemove(t, c) \/ BeginSearch(t, c)

Ending(r) == [r EXCEPT !.pc = "Return"]

Return(t) ==
  /\ th[t].pc = "Return"
  /\ Become(t, NoCall)
  /\ UNCHANGED shared

\* The first search is over, and the key was found or not.
Placed(t, o, found) ==
  th[t].pc = "Place" /\ th[t].op = o /\ Found(th[t]) = found
-----------------------------------------------------------------------------
(***************************************************************************)
(* skiplist_insert                                                         *)
(***************************************************************************)
UpdateValue(t) ==
  /\ Placed(t, "insert", TRUE)
  /\ value' = [value EXCEPT ![th[t].succs[0]] = th[t].val]
  /\ TakeEffect(t, Ending(th[t]))
  /\ UNCHANGED <<forward, key, level, allocated, max_level, retired>>

NoMemory(t) ==
  /\ Placed(t, "insert", FALSE) /\ (allocated = Towers \/ MayFail)
  /\ Become(t, Ending([th[t] EXCEPT !.out = Failure]))
  /\ UNCHANGED shared

\* Fault: one level too many.
LevelTooHigh == 0 .. TopLevel + 1

\* Each level but the last is followed by a higher one half of the time.
generate_level == Level

\* malloc, the fields of the new tower, and the test of max_level
NewTower(t) ==
  LET n == allocated + 1 IN
  /\ Placed(t, "insert", FALSE) /\ allocated < Towers
  /\ allocated' = n
  /\ key' = [key EXCEPT ![n] = th[t].key]
  /\ value' = [value EXCEPT ![n] = th[t].val]
  /\ \E l \in generate_level :
       /\ level' = [level EXCEPT ![n] = l]
       /\ Become(t, [th[t] EXCEPT !.tower = n,
                       !.pc = IF l > max_level THEN "MaxStore" ELSE "LinkStore"])
  /\ UNCHANGED <<forward, max_level, retired>>

MaxStore(t) ==
  /\ th[t].pc = "MaxStore"
  /\ max_level' = level[th[t].tower]
  /\ Become(t, [th[t] EXCEPT !.pc = "LinkStore"])
  /\ UNCHANGED <<forward, key, value, level, allocated, retired>>

\* new_tower->forward[lvl] = succs[lvl]
LinkStore(t) ==
  LET r == th[t] IN
  /\ r.pc = "LinkStore"
  /\ forward' = [forward EXCEPT ![r.tower][r.lvl] = Unmarked(r.succs[r.lvl])]
  /\ Become(t, [r EXCEPT !.pc = "LinkCas"])
  /\ UNCHANGED <<key, value, level, allocated, max_level, retired>>

\* The tower is linked on level r.lvl.
Linked(r) == IF r.lvl = level[r.tower] THEN Ending(r)
             ELSE [r EXCEPT !.pc = "LinkStore", !.lvl = @ + 1]

\* Fault: the successor found by the compare-and-swap is taken as it is.
KeepPred(r) == [r EXCEPT !.pc = "LinkStore",
                         !.succs[r.lvl] = forward[r.preds[r.lvl]][r.lvl].to]

\* The predecessor was changed or marked: search again, down to this level.
Refill(r) == Fill(r, TopLevel, r.lvl)

\* Linked on the bottom level, the tower is in the map.
LinkCas(t) ==
  LET r == th[t] IN
  /\ r.pc = "LinkCas"
  /\ \/ /\ Cas(r.preds[r.lvl], r.lvl, Unmarked(r.succs[r.lvl]), Unmarked(r.tower))
        /\ IF r.lvl = 0 THEN TakeEffect(t, Linked(r)) ELSE Become(t, Linked(r))
     \/ /\ CasFails(r.preds[r.lvl], r.lvl, Unmarked(r.succs[r.lvl]))
        /\ Become(t, Refill(r))
  /\ UNCHANGED <<key, value, level, allocated, max_level, retired>>
-----------------------------------------------------------------------------
(***************************************************************************)
(* skiplist_remove                                                         *)
(***************************************************************************)
RemoveAbsent(t) ==
  /\ Placed(t, "remove", FALSE)
  /\ TakeEffect(t, Ending(th[t]))
  /\ UNCHANGED shared

\* Fault: the mark is kept on every level.
MarkLoadTagged(t) ==
  /\ th[t].pc = "MarkLoad"
  /\ Become(t, [th[t] EXCEPT !.pc = "MarkCas",
                             !.link = forward[th[t].tower][th[t].lvl]])
  /\ UNCHANGED shared

\* On the bottom level the expected value is unmarked: only one thread marks it.
MarkLoad(t) ==
  LET r == th[t]  link == forward[r.tower][r.lvl] IN
  /\ r.pc = "MarkLoad"
  /\ Become(t, [r EXCEPT !.pc = "MarkCas",
                         !.link = IF r.lvl = 0 THEN Unmarked(link.to) ELSE link])
  /\ UNCHANGED shared

\* Fault: the tower is unlinked on the bottom level only.
UnlinkBottom(r) == Fill(r, 0, 0)

\* Fault: unlinking the tower is left to whoever searches next.
UnlinkLater(r) == [r EXCEPT !.pc = "Retire"]

\* "Unlink tower by searching for it"
UnlinkTower(r) == Fill(r, TopLevel, 0)

\* Marked on the bottom level, the tower is out of the map.  The thread that
\* marked it there unlinks it; one that finds it marked has nothing left to do.
MarkCas(t) ==
  LET r == th[t] IN
  /\ r.pc = "MarkCas"
  /\ \/ /\ Cas(r.tower, r.lvl, r.link, Marked(r.link.to))
        /\ IF r.lvl = 0 THEN TakeEffect(t, UnlinkTower(r))
           ELSE Become(t, [r EXCEPT !.pc = "MarkLoad", !.lvl = @ - 1])
     \/ /\ CasFails(r.tower, r.lvl, r.link)
        /\ IF r.lvl = 0 /\ forward[r.tower][0].marked
           THEN TakeEffect(t, Ending(r))
           ELSE Become(t, [r EXCEPT !.pc = "MarkLoad"])
  /\ UNCHANGED <<key, value, level, allocated, max_level, retired>>

\* add_to_reclaim_list
Retire(t) ==
  /\ th[t].pc = "Retire"
  /\ retired' = retired \cup {th[t].tower}
  /\ Become(t, Ending(th[t]))
  /\ UNCHANGED <<forward, key, value, level, allocated, max_level>>
-----------------------------------------------------------------------------
(***************************************************************************)
(* skiplist_search                                                         *)
(***************************************************************************)
ReadValue(t) ==
  /\ Placed(t, "search", TRUE)
  /\ Become(t, Ending([th[t] EXCEPT !.out = value[th[t].succs[0]]]))
  /\ UNCHANGED shared

NoElement(t) ==
  /\ Placed(t, "search", FALSE)
  /\ Become(t, Ending([th[t] EXCEPT !.out = Absent]))
  /\ UNCHANGED shared
-----------------------------------------------------------------------------
\* A step of a call under way, but for its return.
Work(t) ==
  \/ Load(t) \/ Look(t) \/ Unlink(t)
  \/ UpdateValue(t) \/ NoMemory(t) \/ NewTower(t) \/ MaxStore(t)
  \/ LinkStore(t) \/ LinkCas(t)
  \/ RemoveAbsent(t) \/ MarkLoad(t) \/ MarkCas(t) \/ Retire(t)
  \/ ReadValue(t) \/ NoElement(t)

Next == \E t \in Thread :
  (\E c \in Calls[t] : BeginCall(t, c)) \/ Work(t) \/ Return(t)

Spec == Init /\ [][Next]_vars
-----------------------------------------------------------------------------
\* The map in the list, and the calls under way, as AbstractMap has them.
Map == [k \in Key |-> ValueOf(k)]

CallOf(r) ==
  IF r.op = "none" THEN [op |-> "none"]
  ELSE LET over == r.pc = "Return" IN
       [op |-> IF over /\ r.op = "search" THEN "report" ELSE r.op,
        key |-> r.key, val |-> r.val,
        results |-> IF over THEN {r.out} ELSE r.results]

Underway == [t \in Thread |-> CallOf(th[t])]

AbstractMap == INSTANCE AbstractMap WITH map <- Map, call <- Underway

\* Calls that overlap behave as if each took effect in one step: an insertion
\* when it links its tower on the bottom level or updates a value (SkipList.c:
\* 402, 364), a removal when it marks the bottom level (466), and a search
\* reports a value its key had during the call (510).
Linearizable == AbstractMap!Spec

\* "Unlink tower by searching for it" (SkipList.c:472): once a tower is in a
\* reclaim list, no level of the list leads to it.
RetiredUnlinked == \A n \in retired, l \in Level : n \notin Chain(l)

\* The links of every level lead to larger keys, so that no key is there twice
\* and no level is a cycle.  When no call is under way, every tower allocated is
\* linked or retired, not both, and linked on each level up to its own.
ListShape ==
  /\ \A l \in Level, n \in 1 .. allocated :
       forward[n][l].to # NULL => key[n] < key[forward[n][l].to]
  /\ (\A t \in Thread : th[t].pc = "Idle") =>
       /\ Chain(0) \cap retired = {}
       /\ Chain(0) \cup retired = 1 .. allocated
       /\ \A l \in Level : Chain(l) = {n \in Chain(0) : level[n] >= l}

\* A marked pointer is frozen: no later insertion, removal or unlinking changes
\* it (the compare-and-swaps of SkipList.c:201, 402, 456 and 466).
MarksFinal ==
  [][\A n \in Tower, l \in Level :
       forward[n][l].marked => forward'[n][l] = forward[n][l]]_vars

\* However many threads remove a key at once, the bottom mark lets only one of
\* them hand the tower to the reclaim lists (SkipList.c:466-477).
RetiredOnce == [][\A t \in Thread : Retire(t) => th[t].tower \notin retired]_vars
=============================================================================
