------------------------------- MODULE Epoch -------------------------------
(***************************************************************************)
(* The epoch-based reclamation of lab4/SkipList.c: the table of local      *)
(* epochs, the lists of removed towers, and the thread that reclaims them. *)
(* The search and the marking of towers are left out: here                 *)
(* an operation enters the epoch, perhaps retires a tower it has unlinked, *)
(* and leaves the epoch.  One action is one access to shared memory.       *)
(*                                                                         *)
(* Two statements are dead code and have no action: the branch of          *)
(* reclaim_nodes that frees a list and moves the epoch (317-335), and the  *)
(* store of leave_epoch (273).  EpochStuck states that the code gets to    *)
(* neither, and module EpochProofs proves it.                              *)
(***************************************************************************)
EXTENDS Integers, FiniteSets

CONSTANTS
  Thread,
  Tower,      \* towers that can be removed
  NULL,
  Cells,      \* MAX_THREADS, the length of local_epochs
  NumEpochs,  \* NUM_EPOCHS, which is also how many cells skiplist_init sets
  TlsMayFail, \* may pthread_setspecific report an error?
  Garbage     \* what the other cells may hold: malloc does not clear them

ASSUME SizeAssumption ==
  Cells \in Nat /\ NumEpochs \in Nat /\ 1 < NumEpochs /\ NumEpochs <= Cells
ASSUME GarbageAssumption == Garbage \subseteq -128 .. 127 /\ Garbage # {}
ASSUME NullAssumption == NULL \notin Tower
ASSUME FlagAssumption == TlsMayFail \in BOOLEAN

Cell  == 0 .. Cells - 1
Epochs == 0 .. NumEpochs - 1
NoCell == -1           \* a null char* in the thread-local storage
Char  == -128 .. 127   \* a char is signed on x86

VARIABLES
  global_epoch, local_epochs, reclaim_lists, reclaim_next, reclaim_lock,
  errno,
  live,     \* "up", or "crashed" after an access through an invalid pointer
  status,   \* "linked", "unlinked" or "retired", for each tower
  cell,     \* the thread-local pointer to the thread's local epoch
  pc,
  epoch,    \* what enter_epoch returned
  tower,    \* the tower the thread is removing
  seen,     \* global_epoch as loaded by epoch_init, leave_epoch, reclaim_nodes
  previous, \* expected value of epoch_init's compare-and-swap
  i,        \* index into local_epochs
  head      \* reclaim_head

shared == <<global_epoch, local_epochs, reclaim_lists, reclaim_next,
            reclaim_lock, status>>
locals == <<epoch, tower, seen, previous, i, head>>
vars == <<shared, errno, live, cell, pc, locals>>

TypeOK ==
  /\ global_epoch \in Epochs
  /\ local_epochs \in [Cell -> Char]
  /\ reclaim_lists \in [Epochs -> Tower \cup {NULL}]
  /\ reclaim_next \in [Tower -> Tower \cup {NULL}]
  /\ reclaim_lock \in BOOLEAN
  /\ errno \in {"NO_ERROR", "NO_MEMORY", "NO_THREADS"}
  /\ live \in {"up", "crashed"}
  /\ status \in [Tower -> {"linked", "unlinked", "retired"}]
  /\ cell \in [Thread -> Cell \cup {NoCell}]
  /\ pc \in [Thread -> {"Idle", "Claim", "Read", "Inside", "AddLoad", "AddCas",
                        "Leave", "LeaveTest", "TakeLock", "Scan", "Unlock"}]
  /\ epoch \in [Thread -> Char]
  /\ tower \in [Thread -> Tower \cup {NULL}]
  /\ seen \in [Thread -> Epochs]
  /\ previous \in [Thread -> Char]
  /\ i \in [Thread -> 0 .. Cells]
  /\ head \in [Thread -> Tower \cup {NULL}]

\* skiplist_init: the first loop sets NUM_EPOCHS cells only.
Init ==
  /\ global_epoch = 0
  /\ local_epochs \in [Cell -> Garbage \cup {-1}]
  /\ \A c \in Cell : IF c < NumEpochs THEN local_epochs[c] = -1
                                      ELSE local_epochs[c] \in Garbage
  /\ reclaim_lists = [e \in Epochs |-> NULL]
  /\ reclaim_next = [n \in Tower |-> NULL]
  /\ reclaim_lock = FALSE
  /\ errno = "NO_ERROR" /\ live = "up"
  /\ status = [n \in Tower |-> "linked"]
  /\ cell = [t \in Thread |-> NoCell]
  /\ pc = [t \in Thread |-> "Idle"]
  /\ epoch = [t \in Thread |-> 0]
  /\ tower = [t \in Thread |-> NULL]
  /\ seen = [t \in Thread |-> 0]
  /\ previous = [t \in Thread |-> -1]
  /\ i = [t \in Thread |-> 0]
  /\ head = [t \in Thread |-> NULL]

Goto(t, from, to) == pc[t] = from /\ pc' = [pc EXCEPT ![t] = to]
-----------------------------------------------------------------------------
(***************************************************************************)
(* enter_epoch and epoch_init                                              *)
(***************************************************************************)
\* The thread has a cell.
Enter(t) ==
  /\ cell[t] # NoCell
  /\ Goto(t, "Idle", "Inside")
  /\ epoch' = [epoch EXCEPT ![t] = local_epochs[cell[t]]]
  /\ UNCHANGED <<shared, errno, live, cell, tower, seen, previous, i, head>>

\* It has none: load the global epoch and look for one.
EnterFirst(t) ==
  /\ cell[t] = NoCell
  /\ Goto(t, "Idle", "Claim")
  /\ seen' = [seen EXCEPT ![t] = global_epoch]
  /\ previous' = [previous EXCEPT ![t] = -1]
  /\ i' = [i EXCEPT ![t] = 0]
  /\ UNCHANGED <<shared, errno, live, cell, epoch, tower, head>>

\* The compare-and-swap of local_epochs[i] from previous succeeds.  An error of
\* pthread_setspecific goes unnoticed: it is a positive number, not -1.
ClaimCell(t) ==
  /\ Goto(t, "Claim", "Read")
  /\ i[t] < Cells /\ local_epochs[i[t]] = previous[t]
  /\ local_epochs' = [local_epochs EXCEPT ![i[t]] = seen[t]]
  /\ \/ cell' = [cell EXCEPT ![t] = i[t]]
     \/ TlsMayFail /\ UNCHANGED cell
  /\ UNCHANGED <<global_epoch, reclaim_lists, reclaim_next, reclaim_lock,
                 status, errno, live, epoch, tower, seen, previous, i, head>>

\* Fault: -1 is expected of each cell.
NextCellAfresh(t) ==
  /\ pc[t] = "Claim"
  /\ i[t] < Cells /\ local_epochs[i[t]] # previous[t]
  /\ i' = [i EXCEPT ![t] = @ + 1]
  /\ UNCHANGED <<shared, errno, live, cell, pc, epoch, tower, seen, previous, head>>

\* It fails, and writes the value it found over previous: the value that is
\* expected of the next cell.
NextCell(t) ==
  /\ pc[t] = "Claim"
  /\ i[t] < Cells /\ local_epochs[i[t]] # previous[t]
  /\ previous' = [previous EXCEPT ![t] = local_epochs[i[t]]]
  /\ i' = [i EXCEPT ![t] = @ + 1]
  /\ UNCHANGED <<shared, errno, live, cell, pc, epoch, tower, seen, head>>

\* No cell is left: enter_epoch returns -1, which its callers do not look at.
NoCellLeft(t) ==
  /\ Goto(t, "Claim", "Inside")
  /\ i[t] = Cells
  /\ errno' = "NO_THREADS"
  /\ epoch' = [epoch EXCEPT ![t] = -1]
  /\ i' = [i EXCEPT ![t] = 0]
  /\ UNCHANGED <<shared, live, cell, tower, seen, previous, head>>

\* return *local_epoch
ReadEpoch(t) ==
  /\ Goto(t, "Read", "Inside")
  /\ epoch' = [epoch EXCEPT ![t] = local_epochs[i[t]]]
  /\ i' = [i EXCEPT ![t] = 0]
  /\ UNCHANGED <<shared, errno, live, cell, tower, seen, previous, head>>
-----------------------------------------------------------------------------
(***************************************************************************)
(* Inside: a removal unlinks a tower and adds it to the reclaim list.      *)
(***************************************************************************)
Unlink(t) ==
  /\ Goto(t, "Inside", "AddLoad")
  /\ \E n \in Tower :
       /\ status[n] = "linked"
       /\ status' = [status EXCEPT ![n] = "unlinked"]
       /\ tower' = [tower EXCEPT ![t] = n]
  /\ UNCHANGED <<global_epoch, local_epochs, reclaim_lists, reclaim_next,
                 reclaim_lock, errno, live, cell, epoch, seen, previous, i, head>>

\* Every other operation, or a removal that finds nothing to remove
Leave(t) ==
  /\ Goto(t, "Inside", "Leave")
  /\ UNCHANGED <<shared, errno, live, cell, locals>>

\* skiplist_insert without memory returns and does not leave the epoch.
NoMemory(t) ==
  /\ Goto(t, "Inside", "Idle")
  /\ errno' = "NO_MEMORY"
  /\ UNCHANGED <<shared, live, cell, locals>>

\* add_to_reclaim_list: load the head of the list and store it in the tower.
AddLoad(t) ==
  /\ Goto(t, "AddLoad", "AddCas")
  /\ epoch[t] \in Epochs
  /\ head' = [head EXCEPT ![t] = reclaim_lists[epoch[t]]]
  /\ reclaim_next' = [reclaim_next EXCEPT ![tower[t]] = reclaim_lists[epoch[t]]]
  /\ UNCHANGED <<global_epoch, local_epochs, reclaim_lists, reclaim_lock, status,
                 errno, live, cell, epoch, tower, seen, previous, i>>

\* The tower becomes the head of the list.
AddStore(t) ==
  /\ Goto(t, "AddCas", "Leave")
  /\ reclaim_lists' = [reclaim_lists EXCEPT ![epoch[t]] = tower[t]]
  /\ status' = [status EXCEPT ![tower[t]] = "retired"]
  /\ UNCHANGED <<global_epoch, local_epochs, reclaim_next, reclaim_lock, errno,
                 live, cell, locals>>

AddSucceed(t) == AddStore(t) /\ reclaim_lists[epoch[t]] = head[t]

AddRetry(t) ==
  /\ Goto(t, "AddCas", "AddLoad")
  /\ reclaim_lists[epoch[t]] # head[t]
  /\ UNCHANGED <<shared, errno, live, cell, locals>>

\* reclaim_lists[-1], or *local_epoch of a thread that has no cell
Crash(t) ==
  /\ \/ pc[t] = "AddLoad" /\ epoch[t] \notin Epochs
     \/ pc[t] = "LeaveTest" /\ cell[t] = NoCell
  /\ live' = "crashed"
  /\ UNCHANGED <<shared, errno, cell, pc, locals>>
-----------------------------------------------------------------------------
(***************************************************************************)
(* leave_epoch                                                             *)
(***************************************************************************)
LeaveLoad(t) ==
  /\ Goto(t, "Leave", "LeaveTest")
  /\ seen' = [seen EXCEPT ![t] = global_epoch]
  /\ UNCHANGED <<shared, errno, live, cell, epoch, tower, previous, i, head>>

\* The local epoch is the global one; a removal goes on to reclaim.
LeaveTest(t) ==
  /\ cell[t] # NoCell
  /\ local_epochs[cell[t]] = seen[t]
  /\ Goto(t, "LeaveTest", IF tower[t] # NULL THEN "TakeLock" ELSE "Idle")
  /\ UNCHANGED <<shared, errno, live, cell, locals>>
-----------------------------------------------------------------------------
(***************************************************************************)
(* reclaim_nodes                                                           *)
(***************************************************************************)
LockTaken(t) ==
  /\ reclaim_lock
  /\ Goto(t, "TakeLock", "Idle")
  /\ tower' = [tower EXCEPT ![t] = NULL]
  /\ UNCHANGED <<shared, errno, live, cell, epoch, seen, previous, i, head>>

\* The lock is taken and the global epoch loaded: only its holder changes it.
TakeLock(t) ==
  /\ ~reclaim_lock
  /\ Goto(t, "TakeLock", "Scan")
  /\ reclaim_lock' = TRUE
  /\ seen' = [seen EXCEPT ![t] = global_epoch]
  /\ UNCHANGED <<global_epoch, local_epochs, reclaim_lists, reclaim_next, status,
                 errno, live, cell, epoch, tower, previous, i, head>>

ScanSame(t) ==
  /\ pc[t] = "Scan" /\ i[t] < Cells
  /\ local_epochs[i[t]] = seen[t]
  /\ i' = [i EXCEPT ![t] = @ + 1]
  /\ UNCHANGED <<shared, errno, live, cell, pc, epoch, tower, seen, previous, head>>

ScanDiffers(t) ==
  /\ Goto(t, "Scan", "Unlock") /\ i[t] < Cells
  /\ local_epochs[i[t]] # seen[t]
  /\ i' = [i EXCEPT ![t] = 0]
  /\ UNCHANGED <<shared, errno, live, cell, epoch, tower, seen, previous, head>>

Unlock(t) ==
  /\ Goto(t, "Unlock", "Idle")
  /\ reclaim_lock' = FALSE
  /\ tower' = [tower EXCEPT ![t] = NULL]
  /\ UNCHANGED <<global_epoch, local_epochs, reclaim_lists, reclaim_next, status,
                 errno, live, cell, epoch, seen, previous, i, head>>
-----------------------------------------------------------------------------
EnterEpoch(t) == \/ Enter(t) \/ EnterFirst(t) \/ ClaimCell(t) \/ NextCell(t)
                 \/ NoCellLeft(t) \/ ReadEpoch(t)

Operate(t) == \/ Unlink(t) \/ Leave(t) \/ NoMemory(t) \/ AddLoad(t)
              \/ AddSucceed(t) \/ AddRetry(t) \/ Crash(t)

LeaveEpoch(t) == LeaveLoad(t) \/ LeaveTest(t)

Reclaim(t) == \/ LockTaken(t) \/ TakeLock(t) \/ ScanSame(t) \/ ScanDiffers(t)
              \/ Unlock(t)

Step(t) == EnterEpoch(t) \/ Operate(t) \/ LeaveEpoch(t) \/ Reclaim(t)

Next == live = "up" /\ \E t \in Thread : Step(t)

Spec == Init /\ [][Next]_vars
-----------------------------------------------------------------------------
\* epoch_init never claims cell 1: the value expected of it is the one found in
\* cell 0, which is not -1.  So no scan gets past cell 1 (SkipList.c:309), the
\* epoch never moves, and no tower is freed before skiplist_free.  The local
\* epoch of every thread is the global one when it leaves (SkipList.c:271).
EpochStuck ==
  /\ local_epochs[1] = -1
  /\ \A t \in Thread : pc[t] = "Scan" => i[t] < 2
  /\ \A t \in Thread :
       pc[t] = "LeaveTest" /\ cell[t] # NoCell => local_epochs[cell[t]] = seen[t]

Reachable(p) ==
  {n \in Tower : \A S \in SUBSET Tower :
     ({p} \ {NULL}) \subseteq S /\ (\A m \in S : reclaim_next[m] \in S \cup {NULL})
       => n \in S}

\* skiplist_free walks the lists (SkipList.c:137-149): every retired tower is in
\* exactly one of them, so that each is freed, and once.
RetiredOnce ==
  /\ UNION {Reachable(reclaim_lists[e]) : e \in Epochs}
       = {n \in Tower : status[n] = "retired"}
  /\ \A d, e \in Epochs :
       d # e => Reachable(reclaim_lists[d]) \cap Reachable(reclaim_lists[e]) = {}
  /\ \A m, n \in Tower :
       /\ m # n /\ status[m] = "retired" /\ status[n] = "retired"
       /\ reclaim_next[m] = reclaim_next[n]
       => reclaim_next[m] = NULL
=============================================================================
