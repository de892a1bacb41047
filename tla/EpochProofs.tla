---------------------------- MODULE EpochProofs ----------------------------
(***************************************************************************)
(* The epoch never moves, whatever the uninitialised cells hold and        *)
(* however many threads and cells there are; and every removed tower is in *)
(* exactly one of the lists that skiplist_free walks.                      *)
(***************************************************************************)
EXTENDS Epoch, TLAPS

\* What a thread at epoch_init expects of cell 1 is not -1: it was found in
\* cell 0, which has been claimed by then and holds an epoch.
StuckInv ==
  /\ global_epoch = 0
  /\ local_epochs[0] \in {-1, 0}
  /\ local_epochs[1] = -1
  /\ \A t \in Thread :
       /\ seen[t] = 0
       /\ pc[t] \notin {"Claim", "Read", "Scan"} => i[t] = 0
       /\ pc[t] = "Claim" => cell[t] = NoCell
       /\ pc[t] = "Read" => i[t] \in Cell
       /\ pc[t] = "Claim" /\ i[t] = 0 => previous[t] = -1
       /\ pc[t] = "Claim" /\ i[t] = 1 => previous[t] = 0
       /\ pc[t] = "Scan" => i[t] < 2
       /\ cell[t] # NoCell => local_epochs[cell[t]] = 0

Inv == TypeOK /\ StuckInv

\* The values the code writes are chars, and the first cells exist.
LEMMA Constants ==
  /\ -1 \in Char /\ 0 \in Char /\ 0 \in Epochs
  /\ Garbage \subseteq Char
  /\ 0 \in Cell /\ 1 \in Cell /\ NoCell \notin Cell
  /\ Cell \subseteq 0 .. Cells /\ \A c \in Cell : c + 1 \in 0 .. Cells
  /\ 0 \in 0 .. Cells
BY SizeAssumption, GarbageAssumption DEF Char, Epochs, Cell, NoCell

\* A cell is an index below Cells.
LEMMA Indices == \A c \in 0 .. Cells : c < Cells => c \in Cell /\ c + 1 \in 0 .. Cells
BY SizeAssumption DEF Cell

\* skiplist_init sets cells 0 and 1, among others, to -1.
LEMMA InvInit == Init => Inv
<1> SUFFICES ASSUME Init PROVE Inv
  OBVIOUS
<1>1. local_epochs \in [Cell -> Char]
  BY Constants DEF Init
<1>2. TypeOK
  BY <1>1, Constants DEF Init, TypeOK
<1>3. local_epochs[0] = -1 /\ local_epochs[1] = -1
  BY SizeAssumption, Constants DEF Init
<1>4. StuckInv
  BY <1>3, Constants DEF Init, StuckInv
<1>5. QED
  BY <1>2, <1>4 DEF Inv

\* Every step keeps the types.
LEMMA TypeStep == Inv /\ [Next]_vars => TypeOK'
<1> SUFFICES ASSUME Inv, [Next]_vars PROVE TypeOK'
  OBVIOUS
<1> USE Constants DEF Inv, TypeOK, Goto, shared, locals
<1>1. ASSUME NEW t \in Thread, EnterEpoch(t) PROVE TypeOK'
  <2>1. CASE Enter(t)
    BY <2>1 DEF Enter
  <2>2. CASE EnterFirst(t)
    BY <2>2 DEF EnterFirst
  <2>3. CASE ClaimCell(t)
    <3>1. i[t] \in Cell /\ seen[t] \in Char
      BY <2>3, Indices DEF ClaimCell, StuckInv
    <3>2. QED
      BY <2>3, <3>1 DEF ClaimCell
  <2>4. CASE NextCell(t)
    <3>1. i[t] \in Cell /\ i[t] + 1 \in 0 .. Cells
      BY <2>4, Indices DEF NextCell
    <3>2. QED
      BY <2>4, <3>1 DEF NextCell
  <2>5. CASE NoCellLeft(t)
    BY <2>5 DEF NoCellLeft
  <2>6. CASE ReadEpoch(t)
    <3>1. i[t] \in Cell
      BY <2>6 DEF ReadEpoch, StuckInv
    <3>2. QED
      BY <2>6, <3>1 DEF ReadEpoch
  <2>7. QED
    BY <1>1, <2>1, <2>2, <2>3, <2>4, <2>5, <2>6 DEF EnterEpoch
<1>2. ASSUME NEW t \in Thread, Operate(t) PROVE TypeOK'
  <2>1. CASE Unlink(t)
    BY <2>1 DEF Unlink
  <2>2. CASE Leave(t)
    BY <2>2 DEF Leave
  <2>3. CASE NoMemory(t)
    BY <2>3 DEF NoMemory
  <2>4. CASE AddLoad(t)
    BY <2>4 DEF AddLoad
  <2>5. CASE AddSucceed(t)
    BY <2>5 DEF AddSucceed, AddStore
  <2>6. CASE AddRetry(t)
    BY <2>6 DEF AddRetry
  <2>7. CASE Crash(t)
    BY <2>7 DEF Crash
  <2>8. QED
    BY <1>2, <2>1, <2>2, <2>3, <2>4, <2>5, <2>6, <2>7 DEF Operate
<1>3. ASSUME NEW t \in Thread, LeaveEpoch(t) PROVE TypeOK'
  <2>1. CASE LeaveLoad(t)
    BY <2>1 DEF LeaveLoad
  <2>2. CASE LeaveTest(t)
    BY <2>2 DEF LeaveTest
  <2>3. QED
    BY <1>3, <2>1, <2>2 DEF LeaveEpoch
<1>4. ASSUME NEW t \in Thread, Reclaim(t) PROVE TypeOK'
  <2>1. CASE LockTaken(t)
    BY <2>1 DEF LockTaken
  <2>2. CASE TakeLock(t)
    BY <2>2 DEF TakeLock
  <2>3. CASE ScanSame(t)
    BY <2>3, Indices DEF ScanSame
  <2>4. CASE ScanDiffers(t)
    BY <2>4 DEF ScanDiffers
  <2>5. CASE Unlock(t)
    BY <2>5 DEF Unlock
  <2>6. QED
    BY <1>4, <2>1, <2>2, <2>3, <2>4, <2>5 DEF Reclaim
<1>5. CASE UNCHANGED vars
  BY <1>5 DEF vars
<1>6. QED
  BY <1>1, <1>2, <1>3, <1>4, <1>5 DEF Next, Step

\* Claiming a cell is the only step that changes one; the others keep the
\* position of each thread in the table.
LEMMA StuckStep == Inv /\ [Next]_vars => StuckInv'
<1> SUFFICES ASSUME Inv, [Next]_vars PROVE StuckInv'
  OBVIOUS
<1> USE SizeAssumption
    DEF Inv, TypeOK, StuckInv, Goto, shared, locals, Cell, NoCell
<1>1. ASSUME NEW t \in Thread, EnterEpoch(t) PROVE StuckInv'
  <2>1. CASE Enter(t)
    BY <2>1 DEF Enter
  <2>2. CASE EnterFirst(t)
    BY <2>2 DEF EnterFirst
  <2>3. CASE ClaimCell(t)
    <3>1. i[t] # 1
      BY <2>3 DEF ClaimCell
    <3>2. local_epochs'[1] = -1 /\ local_epochs'[0] \in {-1, 0}
      BY <2>3, <3>1 DEF ClaimCell
    <3>3. \A u \in Thread : cell'[u] # NoCell => local_epochs'[cell'[u]] = 0
      BY <2>3 DEF ClaimCell
    <3>4. QED
      BY <2>3, <3>2, <3>3 DEF ClaimCell
  <2>4. CASE NextCell(t)
    BY <2>4 DEF NextCell
  <2>5. CASE NoCellLeft(t)
    BY <2>5 DEF NoCellLeft
  <2>6. CASE ReadEpoch(t)
    BY <2>6 DEF ReadEpoch
  <2>7. QED
    BY <1>1, <2>1, <2>2, <2>3, <2>4, <2>5, <2>6 DEF EnterEpoch
<1>2. ASSUME NEW t \in Thread, Operate(t) PROVE StuckInv'
  BY <1>2 DEF Operate, Unlink, Leave, NoMemory, AddLoad, AddSucceed, AddStore, AddRetry,
              Crash
<1>3. ASSUME NEW t \in Thread, LeaveEpoch(t) PROVE StuckInv'
  BY <1>3 DEF LeaveEpoch, LeaveLoad, LeaveTest
<1>4. ASSUME NEW t \in Thread, Reclaim(t) PROVE StuckInv'
  <2>1. CASE ScanSame(t)
    <3>1. i[t] = 0
      BY <2>1 DEF ScanSame
    <3>2. QED
      BY <2>1, <3>1 DEF ScanSame
  <2>2. CASE TakeLock(t)
    BY <2>2 DEF TakeLock
  <2>3. CASE ScanDiffers(t)
    BY <2>3 DEF ScanDiffers
  <2>4. CASE LockTaken(t)
    BY <2>4 DEF LockTaken
  <2>5. CASE Unlock(t)
    BY <2>5 DEF Unlock
  <2>6. QED
    BY <1>4, <2>1, <2>2, <2>3, <2>4, <2>5 DEF Reclaim
<1>5. CASE UNCHANGED vars
  BY <1>5 DEF vars
<1>6. QED
  BY <1>1, <1>2, <1>3, <1>4, <1>5 DEF Next, Step

\* Nothing is ever reclaimed: no scan of the local epochs gets past cell 1.
THEOREM EpochNeverMoves == Spec => []EpochStuck
<1>1. Inv /\ [Next]_vars => Inv'
  BY TypeStep, StuckStep DEF Inv
<1>2. Inv => EpochStuck
  BY DEF Inv, StuckInv, EpochStuck
<1>3. QED
  BY <1>1, <1>2, InvInit, PTL DEF Spec
-----------------------------------------------------------------------------
(***************************************************************************)
(* The reclaim lists.  A tower is in no list while a thread adds it, and   *)
(* what a list starts with follows no tower: so the compare-and-swap of    *)
(* add_to_reclaim_list lengthens one list and changes no other.            *)
(***************************************************************************)
Retired == {n \in Tower : status[n] = "retired"}

Adding(t) == pc[t] \in {"AddLoad", "AddCas"}

AddInv ==
  /\ \A t \in Thread : Adding(t) => tower[t] # NULL /\ status[tower[t]] = "unlinked"
  /\ \A t, u \in Thread : Adding(t) /\ Adding(u) /\ tower[t] = tower[u] => t = u
  /\ \A t \in Thread :
       pc[t] = "AddCas" => epoch[t] \in Epochs /\ reclaim_next[tower[t]] = head[t]

ListInv ==
  /\ RetiredOnce
  /\ \A e \in Epochs, m \in Retired :
       reclaim_next[m] = reclaim_lists[e] => reclaim_lists[e] = NULL

\* The walk of skiplist_free from p meets p and whatever follows a tower it meets.
LEMMA ReachableClosed ==
  ASSUME TypeOK, NEW p \in Tower \cup {NULL}
  PROVE  /\ Reachable(p) \subseteq Tower
         /\ p # NULL => p \in Reachable(p)
         /\ \A m \in Reachable(p) : reclaim_next[m] \in Reachable(p) \cup {NULL}
BY DEF TypeOK, Reachable

\* It stays in every set that contains p and what follows its members.
LEMMA ReachableIn ==
  ASSUME NEW p \in Tower \cup {NULL}, NEW S \in SUBSET Tower, p # NULL => p \in S,
         \A m \in S : reclaim_next[m] \in S \cup {NULL}
  PROVE  Reachable(p) \subseteq S
BY DEF Reachable

\* From the empty list it meets nothing.
LEMMA ReachableNull == Reachable(NULL) = {}
<1> DEFINE S == {}
<1>1. S \in SUBSET Tower /\ \A m \in S : reclaim_next[m] \in S \cup {NULL}
  OBVIOUS
<1> HIDE DEF S
<1>2. Reachable(NULL) \subseteq S
  BY <1>1, ReachableIn
<1>. QED
  BY <1>2 DEF S

\* It meets p first, and then what it would meet from the tower that follows.
LEMMA ReachableFrom ==
  ASSUME TypeOK, NEW p \in Tower
  PROVE  Reachable(p) = {p} \cup Reachable(reclaim_next[p])
<1> DEFINE q == reclaim_next[p]
           S == {p} \cup Reachable(q)
<1>1. q \in Tower \cup {NULL} /\ p # NULL
  BY NullAssumption DEF TypeOK
<1>2. S \in SUBSET Tower /\ \A m \in S : reclaim_next[m] \in S \cup {NULL}
  BY <1>1, ReachableClosed
<1> HIDE DEF S
<1>3. Reachable(p) \subseteq S
  <2>1. p \in S
    BY DEF S
  <2>. QED
    BY <1>2, <2>1, ReachableIn
<1>4. p \in Reachable(p) /\ Reachable(p) \in SUBSET Tower
      /\ \A m \in Reachable(p) : reclaim_next[m] \in Reachable(p) \cup {NULL}
  BY <1>1, ReachableClosed
<1>5. Reachable(q) \subseteq Reachable(p)
  BY <1>1, <1>4, ReachableIn
<1>. QED
  BY <1>3, <1>4, <1>5 DEF S

\* It does not notice a change of a tower that it does not meet.
LEMMA ReachableKept ==
  ASSUME TypeOK, TypeOK', NEW p \in Tower \cup {NULL},
         \A m \in Reachable(p) : reclaim_next'[m] = reclaim_next[m]
  PROVE  Reachable(p)' = Reachable(p)
<1> DEFINE R == Reachable(p)
<1>1. /\ R \in SUBSET Tower /\ (p # NULL => p \in R)
      /\ \A m \in R : reclaim_next[m] \in R \cup {NULL}
  BY ReachableClosed
<1>2. Reachable(p)' \subseteq R
  <2>1. \A m \in R : reclaim_next'[m] \in R \cup {NULL}
    BY <1>1
  <2> HIDE DEF R
  <2>. QED
    BY <1>1, <2>1 DEF Reachable
<1>3. ASSUME NEW n \in R
      PROVE  n \in Reachable(p)'
  <2>1. ASSUME NEW S \in SUBSET Tower, ({p} \ {NULL}) \subseteq S,
               \A m \in S : reclaim_next'[m] \in S \cup {NULL}
        PROVE  n \in S
    <3> DEFINE U == S \cap R
    <3>1. U \in SUBSET Tower /\ (p # NULL => p \in U)
      BY <1>1, <2>1
    <3>2. \A m \in U : reclaim_next[m] \in U \cup {NULL}
      BY <1>1, <2>1
    <3> HIDE DEF U
    <3>3. R \subseteq U
      BY <3>1, <3>2, ReachableIn
    <3>. QED
      BY <1>3, <3>3 DEF U
  <2>2. n \in Tower
    BY <1>1, <1>3
  <2>. QED
    BY <2>1, <2>2 DEF Reachable
<1>. QED
  BY <1>2, <1>3

LEMMA AddStep == Inv /\ AddInv /\ [Next]_vars => AddInv'
<1> SUFFICES ASSUME Inv, AddInv, [Next]_vars PROVE AddInv'
  OBVIOUS
<1> USE DEF Inv, TypeOK, AddInv, Adding, Goto, shared, locals
<1>1. ASSUME NEW t \in Thread, EnterEpoch(t) PROVE AddInv'
  BY <1>1 DEF EnterEpoch, Enter, EnterFirst, ClaimCell, NextCell, NoCellLeft, ReadEpoch
<1>2. ASSUME NEW t \in Thread, Operate(t) PROVE AddInv'
  <2>1. CASE Unlink(t)
    BY <2>1, NullAssumption DEF Unlink
  <2>2. CASE AddLoad(t)
    BY <2>2 DEF AddLoad
  <2>3. CASE AddSucceed(t)
    BY <2>3 DEF AddSucceed, AddStore
  <2>4. CASE Leave(t) \/ NoMemory(t) \/ AddRetry(t) \/ Crash(t)
    BY <2>4 DEF Leave, NoMemory, AddRetry, Crash
  <2>. QED
    BY <1>2, <2>1, <2>2, <2>3, <2>4 DEF Operate
<1>3. ASSUME NEW t \in Thread, LeaveEpoch(t) PROVE AddInv'
  BY <1>3 DEF LeaveEpoch, LeaveLoad, LeaveTest
<1>4. ASSUME NEW t \in Thread, Reclaim(t) PROVE AddInv'
  BY <1>4 DEF Reclaim, LockTaken, TakeLock, ScanSame, ScanDiffers, Unlock
<1>5. CASE UNCHANGED vars
  BY <1>5 DEF vars
<1>. QED
  BY <1>1, <1>2, <1>3, <1>4, <1>5 DEF Next, Step

\* A step that changes no list, and the fields of no tower in a list.
LEMMA ListKept ==
  ASSUME Inv, Inv', ListInv, UNCHANGED reclaim_lists, Retired' = Retired,
         \A m \in Retired : reclaim_next'[m] = reclaim_next[m]
  PROVE  ListInv'
<1>1. \A e \in Epochs : reclaim_lists[e] \in Tower \cup {NULL}
  BY DEF Inv, TypeOK
<1>2. \A e \in Epochs : Reachable(reclaim_lists[e]) \subseteq Retired
  BY DEF ListInv, RetiredOnce, Retired
<1>3. ASSUME NEW e \in Epochs
      PROVE  Reachable(reclaim_lists[e])' = Reachable(reclaim_lists[e])
  <2>1. \A m \in Reachable(reclaim_lists[e]) : reclaim_next'[m] = reclaim_next[m]
    BY <1>2
  <2> DEFINE p == reclaim_lists[e]
  <2>2. p \in Tower \cup {NULL} /\ reclaim_lists'[e] = p
    BY <1>1
  <2>3. Reachable(reclaim_lists[e])' = {n \in Tower : \A S \in SUBSET Tower :
           ({p} \ {NULL}) \subseteq S /\ (\A m \in S : reclaim_next'[m] \in S \cup {NULL})
             => n \in S}
    BY DEF Reachable
  <2>. QED
    BY <2>1, <2>2, <2>3, ReachableKept DEF Inv, Reachable
<1>. QED
  BY <1>3 DEF ListInv, RetiredOnce, Retired

\* The compare-and-swap of add_to_reclaim_list: the list e that started with
\* old starts with n, which old follows.
LEMMA ListAdd ==
  ASSUME Inv, Inv', ListInv, UNCHANGED reclaim_next,
         NEW e \in Epochs, NEW n \in Tower, NEW old,
         n \notin Retired, Retired' = Retired \cup {n},
         old = reclaim_lists[e], reclaim_next[n] = old,
         reclaim_lists' = [reclaim_lists EXCEPT ![e] = n]
  PROVE  ListInv'
<1> DEFINE R(d) == Reachable(reclaim_lists[d])
<1>0. /\ \A d \in Epochs : reclaim_lists[d] \in Tower \cup {NULL}
      /\ \A d \in Epochs : reclaim_lists'[d] \in Tower \cup {NULL}
      /\ \A d \in Epochs : reclaim_lists'[d] = IF d = e THEN n ELSE reclaim_lists[d]
      /\ n # NULL /\ Retired \in SUBSET Tower
  BY NullAssumption DEF Inv, TypeOK, Retired
<1>1. \A p \in Tower \cup {NULL} : Reachable(p)' = Reachable(p)
  BY ReachableKept DEF Inv
<1>2. ASSUME NEW d \in Epochs
      PROVE  R(d)' = IF d = e THEN {n} \cup R(e) ELSE R(d)
  <2> DEFINE p == reclaim_lists'[d]
  <2>1. R(d)' = {m \in Tower : \A S \in SUBSET Tower :
           ({p} \ {NULL}) \subseteq S /\ (\A k \in S : reclaim_next'[k] \in S \cup {NULL})
             => m \in S}
    BY DEF Reachable
  <2>2. R(d)' = Reachable(reclaim_lists'[d])
    BY <2>1 DEF Reachable
  <2>3. Reachable(n) = {n} \cup Reachable(old)
    BY ReachableFrom DEF Inv
  <2>. QED
    BY <1>0, <2>2, <2>3
<1>3. /\ UNION {R(d) : d \in Epochs} = Retired
      /\ \A c, d \in Epochs : c # d => R(c) \cap R(d) = {}
  BY DEF ListInv, RetiredOnce, Retired
<1>4. \A d \in Epochs : R(d) \subseteq Retired
  BY <1>3
<1> HIDE DEF R
<1>5. UNION {R(d)' : d \in Epochs} = Retired'
  BY <1>2, <1>3
<1>6. \A c, d \in Epochs : c # d => R(c)' \cap R(d)' = {}
  BY <1>2, <1>3, <1>4
<1>7. ASSUME NEW k \in Retired', NEW m \in Retired', k # m,
             reclaim_next'[k] = reclaim_next'[m]
      PROVE  reclaim_next'[k] = NULL
  <2>1. CASE k \in Retired /\ m \in Retired
    BY <1>7, <2>1 DEF ListInv, RetiredOnce, Retired
  <2>2. CASE k = n
    <3>1. m \in Retired /\ reclaim_next[m] = reclaim_lists[e]
      BY <1>7, <2>2
    <3>. QED
      BY <1>7, <2>2, <3>1 DEF ListInv
  <2>3. CASE m = n
    <3>1. k \in Retired /\ reclaim_next[k] = reclaim_lists[e]
      BY <1>7, <2>3
    <3>. QED
      BY <1>7, <2>3, <3>1 DEF ListInv
  <2>. QED
    BY <1>7, <2>1, <2>2, <2>3
<1>8. ASSUME NEW d \in Epochs, NEW m \in Retired', reclaim_next'[m] = reclaim_lists'[d]
      PROVE  reclaim_lists'[d] = NULL
  <2>1. m \in Retired => reclaim_next[m] \in Retired \cup {NULL}
    <3>1. ASSUME m \in Retired
          PROVE  \E c \in Epochs : m \in R(c)
      BY <1>3, <3>1
    <3>2. \A c \in Epochs : m \in R(c) => reclaim_next[m] \in R(c) \cup {NULL}
      BY <1>0, ReachableClosed DEF Inv, R
    <3>. QED
      BY <1>4, <3>1, <3>2
  <2>2. \A c \in Epochs : reclaim_lists[c] # NULL => reclaim_lists[c] \in R(c)
    BY <1>0, ReachableClosed DEF Inv, R
  <2>3. CASE d = e
    BY <1>0, <1>4, <1>8, <2>1, <2>2, <2>3
  <2>4. CASE d # e /\ m \in Retired
    BY <1>0, <1>8, <2>4 DEF ListInv
  <2>5. CASE d # e /\ m = n
    <3>1. reclaim_lists[e] = reclaim_lists[d]
      BY <1>0, <1>8, <2>5
    <3>. QED
      BY <1>0, <1>3, <2>2, <2>5, <3>1
  <2>. QED
    BY <1>8, <2>3, <2>4, <2>5
<1>. QED
  BY <1>5, <1>6, <1>7, <1>8 DEF ListInv, RetiredOnce, Retired, R

LEMMA ListStep == Inv /\ AddInv /\ ListInv /\ [Next]_vars => ListInv'
<1> SUFFICES ASSUME Inv, AddInv, ListInv, [Next]_vars PROVE ListInv'
  OBVIOUS
<1>0. Inv'
  BY TypeStep, StuckStep DEF Inv
<1>1. ASSUME UNCHANGED <<reclaim_lists, reclaim_next, status>>
      PROVE  ListInv'
  BY <1>0, <1>1, ListKept DEF Retired
<1>2. ASSUME NEW t \in Thread, EnterEpoch(t) PROVE ListInv'
  BY <1>1, <1>2 DEF EnterEpoch, Enter, EnterFirst, ClaimCell, NextCell, NoCellLeft,
                    ReadEpoch, shared
<1>3. ASSUME NEW t \in Thread, Operate(t) PROVE ListInv'
  <2>1. CASE Unlink(t)
    <3>1. Retired' = Retired
      BY <2>1 DEF Unlink, Retired, Inv, TypeOK
    <3>. QED
      BY <1>0, <2>1, <3>1, ListKept DEF Unlink
  <2>2. CASE AddLoad(t)
    <3>1. tower[t] \in Tower /\ tower[t] \notin Retired
      BY <2>2 DEF AddLoad, Goto, AddInv, Adding, Inv, TypeOK, Retired
    <3>2. \A m \in Retired : reclaim_next'[m] = reclaim_next[m]
      BY <2>2, <3>1 DEF AddLoad, Inv, TypeOK, Retired
    <3>3. Retired' = Retired /\ UNCHANGED reclaim_lists
      BY <2>2 DEF AddLoad, Retired
    <3>. QED
      BY <1>0, <3>2, <3>3, ListKept
  <2>3. CASE AddSucceed(t)
    <3> DEFINE n == tower[t]
               e == epoch[t]
    <3>1. /\ n \in Tower /\ n \notin Retired
          /\ e \in Epochs /\ reclaim_next[n] = reclaim_lists[e]
      BY <2>3 DEF AddSucceed, AddStore, Goto, AddInv, Adding, Inv, TypeOK, Retired
    <3>2. Retired' = Retired \cup {n}
      BY <2>3, <3>1 DEF AddSucceed, AddStore, Inv, TypeOK, Retired
    <3>3. /\ UNCHANGED reclaim_next
          /\ reclaim_lists' = [reclaim_lists EXCEPT ![e] = n]
      BY <2>3 DEF AddSucceed, AddStore
    <3> HIDE DEF n, e
    <3>. QED
      BY <1>0, <3>1, <3>2, <3>3, ListAdd
  <2>4. CASE Leave(t) \/ NoMemory(t) \/ AddRetry(t) \/ Crash(t)
    BY <1>1, <2>4 DEF Leave, NoMemory, AddRetry, Crash, shared
  <2>. QED
    BY <1>3, <2>1, <2>2, <2>3, <2>4 DEF Operate
<1>4. ASSUME NEW t \in Thread, LeaveEpoch(t) PROVE ListInv'
  BY <1>1, <1>4 DEF LeaveEpoch, LeaveLoad, LeaveTest, shared
<1>5. ASSUME NEW t \in Thread, Reclaim(t) PROVE ListInv'
  BY <1>1, <1>5 DEF Reclaim, LockTaken, TakeLock, ScanSame, ScanDiffers, Unlock, shared
<1>6. CASE UNCHANGED vars
  BY <1>1, <1>6 DEF vars, shared
<1>. QED
  BY <1>2, <1>3, <1>4, <1>5, <1>6 DEF Next, Step

LEMMA ListInit == Init => AddInv /\ ListInv
<1> SUFFICES ASSUME Init PROVE AddInv /\ ListInv
  OBVIOUS
<1>1. AddInv
  BY DEF Init, AddInv, Adding
<1>2. Retired = {}
  BY DEF Init, Retired
<1>3. \A e \in Epochs : Reachable(reclaim_lists[e]) = {}
  BY ReachableNull DEF Init
<1>. QED
  BY <1>1, <1>2, <1>3 DEF ListInv, RetiredOnce, Retired

\* skiplist_free meets every retired tower in one list, and meets no other.
THEOREM RetiredInOneList == Spec => []RetiredOnce
<1> DEFINE J == Inv /\ AddInv /\ ListInv
<1>1. Init => J
  BY InvInit, ListInit
<1>2. J /\ [Next]_vars => J'
  BY TypeStep, StuckStep, AddStep, ListStep DEF Inv
<1>3. J => RetiredOnce
  BY DEF ListInv
<1>. QED
  BY <1>1, <1>2, <1>3, PTL DEF Spec

\* Cells, epochs and lists keep to their ranges.
THEOREM EpochTypes == Spec => []TypeOK
<1>1. Inv /\ [Next]_vars => Inv'
  BY TypeStep, StuckStep DEF Inv
<1>2. Inv => TypeOK
  BY DEF Inv
<1>. QED
  BY <1>1, <1>2, InvInit, PTL DEF Spec
=============================================================================
