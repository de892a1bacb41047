------------------------------- MODULE Stack -------------------------------
(***************************************************************************)
(* The stack of lab3/Stack.c, which takes no lock: a Treiber stack whose   *)
(* popped nodes are reclaimed with hazard pointers.  One action is one     *)
(* access to shared memory (a load, a store, a compare-and-swap), together *)
(* with the private computation up to the next one.                        *)
(*                                                                         *)
(* The relaxed store that publishes a hazard pointer is an ordinary store  *)
(* of the machine.  x86 keeps such stores in a FIFO store buffer, so that  *)
(* the load of the head that follows may be performed before the store is  *)
(* visible to the other threads; a locked instruction drains the buffer.   *)
(* StoreBuffer is the length of that buffer; 0 is sequential consistency.  *)
(* The other plain stores are each followed by a locked instruction of the *)
(* same thread before any load that could pass them, so buffering them     *)
(* only moves the store to a later step and adds no behaviour.             *)
(***************************************************************************)
EXTENDS Integers, Sequences, FiniteSets

CONSTANTS
  Thread,      \* threads that call the stack
  Node,        \* the memory cells malloc can hand out as stack nodes
  Value,       \* the values pushed
  NULL,        \* the null pointer
  MaxHazard,   \* MAX_HAZARD_POINTERS
  StoreBuffer, \* entries of a thread's store buffer, 0: none
  TlsMayFail,  \* may pthread_setspecific report an error?
  WeakMayFail, \* may a weak compare-and-swap fail spuriously? (not on x86)
  Nothing,     \* result of a thread that has not popped yet
  Empty        \* result of a pop that returned -1

ASSUME MaxHazardAssumption == MaxHazard \in Nat \ {0}
ASSUME StoreBufferAssumption == StoreBuffer \in Nat
ASSUME FlagAssumption == TlsMayFail \in BOOLEAN /\ WeakMayFail \in BOOLEAN
ASSUME ValueAssumption == Value # {}
ASSUME NodeAssumption == IsFiniteSet(Node)
ASSUME NullAssumption == NULL \notin Node /\ NULL \notin Thread

Slot      == 0 .. MaxHazard - 1
NoSlot    == -1             \* a null struct HazardPointer*
Pointer   == Node \cup {NULL}
Threshold == 2 * MaxHazard  \* pops between two reclamations
Garbage   == CHOOSE v \in Value : TRUE  \* stands for uninitialised data

VARIABLES
  \* struct Stack and the heap
  head,            \* stack->head
  next,            \* node->next
  data,            \* node->data
  to_reclaim,      \* head of the list of popped nodes not yet freed
  reclaim_counter, \* pops since the counter was last reset
  hp_id,           \* hazard_pointers[s].id: 0 free, 1 any other value
  hp_pointer,      \* hazard_pointers[s].pointer
  errno,           \* stack->errno
  live,            \* "up", or "crashed" after a dereference of NULL
  status,          \* life cycle of a node; only "free" or not is consulted
  owner,           \* the thread a private node belongs to (history)
  \* the threads
  pc, tls, hp, hp_i, node, old_head, nxt, current, reclaim_head,
  result,          \* outcome of the thread's last pop
  sb               \* stores to hp->pointer not yet visible to others

heapVars  == <<head, next, data, status, owner>>
recVars   == <<to_reclaim, reclaim_counter>>
hpVars    == <<hp_id, hp_pointer, tls, hp, sb>>
localVars == <<hp_i, node, old_head, nxt, current, reclaim_head, result>>
vars == <<heapVars, recVars, hpVars, localVars, errno, live, pc>>

Error == {"NO_ERROR", "NO_MEMORY", "NO_ELEMENT", "NO_THREADS",
          "INVALID_ARGUMENT", "THREAD_LOCAL_ERROR"}

Status == {"free",     \* not allocated
           "new",      \* allocated by a push, not yet published
           "stack",    \* reachable from head
           "detached", \* in the hands of one thread: popped, or being scanned
           "retired",  \* reachable from to_reclaim
           "grabbed"}  \* rest of the list a reclaiming thread took

PC == {"Idle", "PushLoad", "PushCas",
       "HpAcquire", "PopLoad", "PopPublish", "PopRecheck", "PopReadNext",
       "PopCas", "PopClear", "RecLoad", "RecStore", "RecCas", "Count",
       "Reset", "Grab", "Scan", "ExitId"}

TypeOK ==
  /\ head \in Pointer
  /\ next \in [Node -> Pointer]
  /\ data \in [Node -> Value]
  /\ to_reclaim \in Pointer
  /\ reclaim_counter \in Nat
  /\ hp_id \in [Slot -> {0, 1}]
  /\ hp_pointer \in [Slot -> Pointer]
  /\ errno \in Error
  /\ live \in {"up", "crashed"}
  /\ status \in [Node -> Status]
  /\ owner \in [Node -> Thread \cup {NULL}]
  /\ pc \in [Thread -> PC]
  /\ tls \in [Thread -> Slot \cup {NoSlot}]
  /\ hp \in [Thread -> Slot \cup {NoSlot}]
  /\ hp_i \in [Thread -> 0 .. MaxHazard]
  /\ node \in [Thread -> Pointer]
  /\ old_head \in [Thread -> Pointer]
  /\ nxt \in [Thread -> Pointer]
  /\ current \in [Thread -> Pointer]
  /\ reclaim_head \in [Thread -> Pointer]
  /\ result \in [Thread -> Value \cup {Nothing, Empty}]
  /\ sb \in [Thread -> Seq(Pointer)]

\* stack_init on fresh memory: no thread has a hazard pointer yet.
Init ==
  /\ head = NULL
  /\ next = [n \in Node |-> NULL]
  /\ data = [n \in Node |-> Garbage]
  /\ to_reclaim = NULL
  /\ reclaim_counter = 0
  /\ hp_id = [s \in Slot |-> 0]
  /\ hp_pointer = [s \in Slot |-> NULL]
  /\ errno = "NO_ERROR"
  /\ live = "up"
  /\ status = [n \in Node |-> "free"]
  /\ owner = [n \in Node |-> NULL]
  /\ pc = [t \in Thread |-> "Idle"]
  /\ tls = [t \in Thread |-> NoSlot]
  /\ hp = [t \in Thread |-> NoSlot]
  /\ hp_i = [t \in Thread |-> 0]
  /\ node = [t \in Thread |-> NULL]
  /\ old_head = [t \in Thread |-> NULL]
  /\ nxt = [t \in Thread |-> NULL]
  /\ current = [t \in Thread |-> NULL]
  /\ reclaim_head = [t \in Thread |-> NULL]
  /\ result = [t \in Thread |-> Nothing]
  /\ sb = [t \in Thread |-> <<>>]

-----------------------------------------------------------------------------
(***************************************************************************)
(* Memory.                                                                 *)
(***************************************************************************)
Goto(t, from, to) == pc[t] = from /\ pc' = [pc EXCEPT ![t] = to]

\* A locked instruction executes with an empty store buffer.
Drained(t) == sb[t] = <<>>

\* __atomic_store_n(&hazard_pointers[s].pointer, p, __ATOMIC_RELAXED)
StoreHazard(t, s, p) ==
  IF StoreBuffer = 0
  THEN hp_pointer' = [hp_pointer EXCEPT ![s] = p] /\ UNCHANGED sb
  ELSE /\ Len(sb[t]) < StoreBuffer
       /\ sb' = [sb EXCEPT ![t] = Append(@, p)]
       /\ UNCHANGED hp_pointer

\* The oldest buffered store of t becomes visible.
Drain(t) ==
  /\ sb[t] # <<>>
  /\ hp_pointer' = [hp_pointer EXCEPT ![tls[t]] = Head(sb[t])]
  /\ sb' = [sb EXCEPT ![t] = Tail(@)]
  /\ UNCHANGED <<heapVars, recVars, hp_id, tls, hp, localVars, errno, live, pc>>

\* What a load of n->next returns: anything, once n was freed, and until the
\* push that allocated it again has published it.
LoadNext(n) == IF status[n] \in {"free", "new"} THEN Pointer ELSE {next[n]}

\* free(n) for every n in S; the contents are no longer meaningful.
Free(S) ==
  /\ status' = [n \in Node |-> IF n \in S THEN "free" ELSE status[n]]
  /\ owner' = [n \in Node |-> IF n \in S THEN NULL ELSE owner[n]]
  /\ next' = [n \in Node |-> IF n \in S THEN NULL ELSE next[n]]
  /\ data' = [n \in Node |-> IF n \in S THEN Garbage ELSE data[n]]
-----------------------------------------------------------------------------
(***************************************************************************)
(* stack_push                                                              *)
(***************************************************************************)
PushMalloc(t, v) ==
  /\ Goto(t, "Idle", "PushLoad")
  /\ \E n \in Node :
       /\ status[n] = "free"
       /\ status' = [status EXCEPT ![n] = "new"]
       /\ owner' = [owner EXCEPT ![n] = t]
       /\ data' = [data EXCEPT ![n] = v]
       /\ node' = [node EXCEPT ![t] = n]
  /\ UNCHANGED <<head, next, recVars, hpVars, hp_i, old_head, nxt, current,
                 reclaim_head, result, errno, live>>

PushNoMemory(t) ==
  /\ pc[t] = "Idle"
  /\ errno' = "NO_MEMORY"
  /\ UNCHANGED <<heapVars, recVars, hpVars, localVars, live, pc>>

\* top = head; new_node->next = top
PushLoad(t) ==
  /\ Goto(t, "PushLoad", "PushCas")
  /\ old_head' = [old_head EXCEPT ![t] = head]
  /\ next' = [next EXCEPT ![node[t]] = head]
  /\ UNCHANGED <<head, data, status, owner, recVars, hpVars, hp_i, node, nxt,
                 current, reclaim_head, result, errno, live>>

\* The new node becomes the head.
PushPublish(t) ==
  /\ Goto(t, "PushCas", "Idle")
  /\ Drained(t)
  /\ head' = node[t]
  /\ status' = [status EXCEPT ![node[t]] = "stack"]
  /\ owner' = [owner EXCEPT ![node[t]] = NULL]
  /\ node' = [node EXCEPT ![t] = NULL]
  /\ old_head' = [old_head EXCEPT ![t] = NULL]
  /\ UNCHANGED <<next, data, recVars, hpVars, hp_i, nxt, current,
                 reclaim_head, result, errno, live>>

PushSucceed(t) == head = old_head[t] /\ PushPublish(t)

\* Fault: the compare-and-swap is repeated with the same expected top.
PushRetryStale(t) ==
  /\ Goto(t, "PushCas", "PushCas")
  /\ Drained(t)
  /\ head # old_head[t]
  /\ UNCHANGED <<heapVars, recVars, hpVars, localVars, errno, live>>

PushRetry(t) ==
  /\ Goto(t, "PushCas", "PushLoad")
  /\ Drained(t)
  /\ head # old_head[t]
  /\ old_head' = [old_head EXCEPT ![t] = NULL]
  /\ UNCHANGED <<heapVars, recVars, hpVars, hp_i, node, nxt, current,
                 reclaim_head, result, errno, live>>
-----------------------------------------------------------------------------
(***************************************************************************)
(* get_hazard_pointer_for_current_thread                                   *)
(***************************************************************************)
\* pthread_setspecific(key, slot s), then the hazard pointer is returned.
Bind(t, s) ==
  \/ /\ tls' = [tls EXCEPT ![t] = s]
     /\ hp' = [hp EXCEPT ![t] = s]
     /\ UNCHANGED errno
  \/ /\ TlsMayFail
     /\ errno' = "THREAD_LOCAL_ERROR"
     /\ UNCHANGED <<tls, hp>>

\* A pop by a thread whose thread-local slot is set already.
PopBegin(t) ==
  /\ tls[t] # NoSlot
  /\ Goto(t, "Idle", "PopLoad")
  /\ Bind(t, tls[t])
  /\ UNCHANGED <<heapVars, recVars, hp_id, hp_pointer, sb, localVars, live>>

\* The thread's first pop: look for a free slot.
PopBeginFirst(t) ==
  /\ tls[t] = NoSlot
  /\ Goto(t, "Idle", "HpAcquire")
  /\ UNCHANGED <<heapVars, recVars, hpVars, localVars, errno, live>>

PopInvalidArgument(t) ==
  /\ pc[t] = "Idle"
  /\ errno' = "INVALID_ARGUMENT"
  /\ UNCHANGED <<heapVars, recVars, hpVars, localVars, live, pc>>

\* Slot hp_i is taken ...
HpTake(t) ==
  /\ Goto(t, "HpAcquire", "PopLoad")
  /\ Drained(t)
  /\ hp_i[t] < MaxHazard
  /\ hp_id' = [hp_id EXCEPT ![hp_i[t]] = 1]
  /\ Bind(t, hp_i[t])
  /\ hp_i' = [hp_i EXCEPT ![t] = 0]
  /\ UNCHANGED <<heapVars, recVars, hp_pointer, sb, node, old_head, nxt,
                 current, reclaim_head, result, live>>

\* ... if the compare-and-swap finds that its id is 0.
HpAcquire(t) == HpTake(t) /\ hp_id[hp_i[t]] = 0

HpTaken(t) ==
  /\ pc[t] = "HpAcquire"
  /\ Drained(t)
  /\ hp_i[t] < MaxHazard
  /\ hp_id[hp_i[t]] # 0
  /\ hp_i' = [hp_i EXCEPT ![t] = @ + 1]
  /\ UNCHANGED <<heapVars, recVars, hpVars, node, old_head, nxt, current,
                 reclaim_head, result, errno, live, pc>>

\* Fault: the index of the loop is used although no slot was found.
HpOnePastTheEnd(t) ==
  /\ Goto(t, "HpAcquire", "PopLoad")
  /\ hp_i[t] = MaxHazard
  /\ hp' = [hp EXCEPT ![t] = hp_i[t]]
  /\ hp_i' = [hp_i EXCEPT ![t] = 0]
  /\ UNCHANGED <<heapVars, recVars, hp_id, hp_pointer, tls, sb, node, old_head,
                 nxt, current, reclaim_head, result, errno, live>>

\* No slot is left: errno is set and pop goes on with a null hazard pointer.
\* (pthread_setspecific is called all the same, and may overwrite errno.)
HpExhausted(t) ==
  /\ Goto(t, "HpAcquire", "PopLoad")
  /\ hp_i[t] = MaxHazard
  /\ errno' \in {"NO_THREADS"} \cup {e \in {"THREAD_LOCAL_ERROR"} : TlsMayFail}
  /\ hp_i' = [hp_i EXCEPT ![t] = 0]
  /\ UNCHANGED <<heapVars, recVars, hpVars, node, old_head, nxt, current,
                 reclaim_head, result, live>>
-----------------------------------------------------------------------------
(***************************************************************************)
(* stack_pop, up to the point where the popped node is private             *)
(***************************************************************************)
PopLoad(t) ==
  /\ Goto(t, "PopLoad", "PopPublish")
  /\ old_head' = [old_head EXCEPT ![t] = head]
  /\ UNCHANGED <<heapVars, recVars, hpVars, hp_i, node, nxt, current,
                 reclaim_head, result, errno, live>>

\* Fault: the hazard pointer is not published.
PopPublishNothing(t) ==
  /\ hp[t] # NoSlot
  /\ Goto(t, "PopPublish", "PopRecheck")
  /\ UNCHANGED <<heapVars, recVars, hpVars, localVars, errno, live>>

\* hp->pointer = old_head
PopPublish(t) ==
  /\ hp[t] # NoSlot
  /\ Goto(t, "PopPublish", "PopRecheck")
  /\ StoreHazard(t, hp[t], old_head[t])
  /\ UNCHANGED <<heapVars, recVars, hp_id, tls, hp, localVars, errno, live>>

\* The same statement when hp is NULL: the process is killed.
PopCrash(t) ==
  /\ hp[t] = NoSlot
  /\ pc[t] = "PopPublish"
  /\ live' = "crashed"
  /\ UNCHANGED <<heapVars, recVars, hpVars, localVars, errno, pc>>

\* Load the head again.  It moved: publish the new one.
PopMoved(t) ==
  /\ Goto(t, "PopRecheck", "PopPublish")
  /\ head # old_head[t]
  /\ old_head' = [old_head EXCEPT ![t] = head]
  /\ UNCHANGED <<heapVars, recVars, hpVars, hp_i, node, nxt, current,
                 reclaim_head, result, errno, live>>

\* Fault: the head is not looked at again.
PopConfirmUnchecked(t) ==
  /\ Goto(t, "PopRecheck", IF old_head[t] = NULL THEN "PopClear" ELSE "PopReadNext")
  /\ UNCHANGED <<heapVars, recVars, hpVars, localVars, errno, live>>

\* It did not: the hazard pointer protects old_head, unless that is NULL.
PopConfirm(t) ==
  /\ head = old_head[t]
  /\ Goto(t, "PopRecheck", IF head = NULL THEN "PopClear" ELSE "PopReadNext")
  /\ UNCHANGED <<heapVars, recVars, hpVars, localVars, errno, live>>

\* old_head->next, the third argument of the compare-and-swap
PopReadNext(t) ==
  /\ Goto(t, "PopReadNext", "PopCas")
  /\ \E p \in LoadNext(old_head[t]) : nxt' = [nxt EXCEPT ![t] = p]
  /\ UNCHANGED <<heapVars, recVars, hpVars, hp_i, node, old_head, current,
                 reclaim_head, result, errno, live>>

\* The successor becomes the head, and the old head is private.
PopSwap(t) ==
  /\ Goto(t, "PopCas", "PopClear")
  /\ Drained(t)
  /\ head' = nxt[t]
  /\ status' = [status EXCEPT ![old_head[t]] = "detached"]
  /\ owner' = [owner EXCEPT ![old_head[t]] = t]
  /\ nxt' = [nxt EXCEPT ![t] = NULL]
  /\ UNCHANGED <<next, data, recVars, hpVars, hp_i, node, old_head, current,
                 reclaim_head, result, errno, live>>

PopSucceed(t) == head = old_head[t] /\ PopSwap(t)

PopRetry(t) ==
  /\ Goto(t, "PopCas", "PopLoad")
  /\ Drained(t)
  /\ head # old_head[t]
  /\ old_head' = [old_head EXCEPT ![t] = NULL]
  /\ nxt' = [nxt EXCEPT ![t] = NULL]
  /\ UNCHANGED <<heapVars, recVars, hpVars, hp_i, node, current,
                 reclaim_head, result, errno, live>>

\* hp->pointer = NULL, then the error return for an empty stack
PopFail(t) ==
  /\ old_head[t] = NULL
  /\ Goto(t, "PopClear", "Idle")
  /\ StoreHazard(t, hp[t], NULL)
  /\ hp' = [hp EXCEPT ![t] = NoSlot]
  /\ errno' = "NO_ELEMENT"
  /\ result' = [result EXCEPT ![t] = Empty]
  /\ UNCHANGED <<heapVars, recVars, hp_id, tls, hp_i, node, old_head, nxt,
                 current, reclaim_head, live>>

\* hp->pointer = NULL, *place_to_pop = old_head->data
PopTake(t) ==
  /\ old_head[t] # NULL
  /\ Goto(t, "PopClear", "RecLoad")
  /\ StoreHazard(t, hp[t], NULL)
  /\ hp' = [hp EXCEPT ![t] = NoSlot]
  /\ result' = [result EXCEPT ![t] = data[old_head[t]]]
  /\ node' = [node EXCEPT ![t] = old_head[t]]
  /\ old_head' = [old_head EXCEPT ![t] = NULL]
  /\ UNCHANGED <<heapVars, recVars, hp_id, tls, hp_i, nxt, current,
                 reclaim_head, errno, live>>
-----------------------------------------------------------------------------
(***************************************************************************)
(* delete_nodes_with_no_hazards: the loop over the list taken from         *)
(* to_reclaim.  The node in hand is detached from that list, so that       *)
(* add_to_reclaim_list may overwrite its next field.                       *)
(***************************************************************************)
\* current = next, or the end of the loop; st is the status array so far.
Advance(t, st) ==
  LET c == nxt[t] IN
  /\ current' = [current EXCEPT ![t] = c]
  /\ nxt' = [nxt EXCEPT ![t] = IF c = NULL THEN NULL ELSE next[c]]
  /\ status' = IF c = NULL THEN st ELSE [st EXCEPT ![c] = "detached"]
  /\ hp_i' = [hp_i EXCEPT ![t] = 0]
  /\ pc' = [pc EXCEPT ![t] = IF c = NULL THEN "Idle" ELSE "Scan"]

\* The counter is incremented, and compared with n.
CountTo(t, n) ==
  /\ Drained(t)
  /\ reclaim_counter' = reclaim_counter + 1
  /\ Goto(t, "Count", IF reclaim_counter' >= n THEN "Reset" ELSE "Idle")
  /\ UNCHANGED <<heapVars, to_reclaim, hpVars, localVars, errno, live>>

\* Fault: one pop too many before a reclamation.
CountLate(t) == CountTo(t, Threshold + 1)

Count(t) == CountTo(t, Threshold)

Reset(t) ==
  /\ Goto(t, "Reset", "Grab")
  /\ reclaim_counter' = 0
  /\ UNCHANGED <<heapVars, to_reclaim, hpVars, localVars, errno, live>>

\* current = exchange(to_reclaim, NULL); next = current->next
Grab(t) ==
  /\ Drained(t)
  /\ to_reclaim # NULL
  /\ Goto(t, "Grab", "Scan")
  /\ to_reclaim' = NULL
  /\ current' = [current EXCEPT ![t] = to_reclaim]
  /\ nxt' = [nxt EXCEPT ![t] = next[to_reclaim]]
  /\ status' = [n \in Node |-> IF n = to_reclaim THEN "detached"
                               ELSE IF status[n] = "retired" THEN "grabbed"
                               ELSE status[n]]
  /\ owner' = [n \in Node |-> IF status[n] = "retired" THEN t ELSE owner[n]]
  /\ UNCHANGED <<head, next, data, reclaim_counter, hpVars, hp_i, node,
                 old_head, reclaim_head, result, errno, live>>

GrabNothing(t) ==
  /\ Drained(t)
  /\ to_reclaim = NULL
  /\ Goto(t, "Grab", "Idle")
  /\ UNCHANGED <<heapVars, recVars, hpVars, localVars, errno, live>>

\* outstanding_hazard_pointers_for(current), slot hp_i
ScanClear(t) ==
  /\ pc[t] = "Scan"
  /\ hp_i[t] < MaxHazard
  /\ hp_pointer[hp_i[t]] # current[t]
  /\ hp_i' = [hp_i EXCEPT ![t] = @ + 1]
  /\ UNCHANGED <<heapVars, recVars, hpVars, node, old_head, nxt, current,
                 reclaim_head, result, errno, live, pc>>

ScanHazard(t) ==
  /\ hp_i[t] < MaxHazard
  /\ hp_pointer[hp_i[t]] = current[t]
  /\ Goto(t, "Scan", "RecLoad")
  /\ node' = [node EXCEPT ![t] = current[t]]
  /\ hp_i' = [hp_i EXCEPT ![t] = 0]
  /\ UNCHANGED <<heapVars, recVars, hpVars, old_head, nxt, current,
                 reclaim_head, result, errno, live>>

\* No slot held current: free it.
ScanFree(t) ==
  /\ pc[t] = "Scan"
  /\ hp_i[t] = MaxHazard
  /\ Advance(t, [status EXCEPT ![current[t]] = "free"])
  /\ owner' = [owner EXCEPT ![current[t]] = NULL]
  /\ next' = [next EXCEPT ![current[t]] = NULL]
  /\ data' = [data EXCEPT ![current[t]] = Garbage]
  /\ UNCHANGED <<head, recVars, hpVars, node, old_head, reclaim_head, result,
                 errno, live>>
-----------------------------------------------------------------------------
(***************************************************************************)
(* add_to_reclaim_list(node): by a pop, or for a node that is still hazard *)
(***************************************************************************)
RecLoad(t) ==
  /\ Goto(t, "RecLoad", "RecStore")
  /\ reclaim_head' = [reclaim_head EXCEPT ![t] = to_reclaim]
  /\ UNCHANGED <<heapVars, recVars, hpVars, hp_i, node, old_head, nxt,
                 current, result, errno, live>>

RecStore(t) ==
  /\ Goto(t, "RecStore", "RecCas")
  /\ next' = [next EXCEPT ![node[t]] = reclaim_head[t]]
  /\ reclaim_head' = [reclaim_head EXCEPT ![t] = NULL]
  /\ UNCHANGED <<head, data, status, owner, recVars, hpVars, hp_i, node,
                 old_head, nxt, current, result, errno, live>>

\* node becomes the head of to_reclaim.
PutOnList(t) ==
  /\ Drained(t)
  /\ to_reclaim' = node[t]
  /\ owner' = [owner EXCEPT ![node[t]] = NULL]
  /\ node' = [node EXCEPT ![t] = NULL]
  /\ UNCHANGED <<head, next, data, reclaim_counter, hpVars, old_head,
                 reclaim_head, result, errno, live>>

\* The compare-and-swap of to_reclaim from node->next to node.
Retire(t) == to_reclaim = next[node[t]] /\ PutOnList(t)

RetirePopped(t) ==
  /\ current[t] = NULL
  /\ Goto(t, "RecCas", "Count")
  /\ Retire(t)
  /\ status' = [status EXCEPT ![node[t]] = "retired"]
  /\ UNCHANGED <<hp_i, nxt, current>>

RetireHazard(t) ==
  /\ current[t] # NULL
  /\ pc[t] = "RecCas"
  /\ Retire(t)
  /\ Advance(t, [status EXCEPT ![node[t]] = "retired"])

\* It fails, perhaps spuriously (it is the weak form), and writes the value it
\* found over node->next, the expected value.
RecRetry(t) ==
  /\ Goto(t, "RecCas", "RecLoad")
  /\ Drained(t)
  /\ WeakMayFail \/ to_reclaim # next[node[t]]
  /\ next' = [next EXCEPT ![node[t]] = to_reclaim]
  /\ UNCHANGED <<head, data, status, owner, recVars, hpVars, localVars, errno,
                 live>>
-----------------------------------------------------------------------------
(***************************************************************************)
(* The end of a thread, and the end of a stack.                            *)
(***************************************************************************)
\* hazard_pointer_cleanup, the destructor of the thread-local slot
ExitClearPointer(t) ==
  /\ tls[t] # NoSlot
  /\ Goto(t, "Idle", "ExitId")
  /\ StoreHazard(t, tls[t], NULL)
  /\ UNCHANGED <<heapVars, recVars, hp_id, tls, hp, localVars, errno, live>>

\* Fault: the id is cleared before the store that clears the pointer is visible.
ExitClearIdEarly(t) ==
  /\ Goto(t, "ExitId", "Idle")
  /\ hp_id' = [hp_id EXCEPT ![tls[t]] = 0]
  /\ UNCHANGED <<heapVars, recVars, hp_pointer, tls, hp, sb, localVars, errno,
                 live>>

ExitClearId(t) ==
  /\ Goto(t, "ExitId", "Idle")
  /\ Drained(t)
  /\ hp_id' = [hp_id EXCEPT ![tls[t]] = 0]
  /\ tls' = [tls EXCEPT ![t] = NoSlot]
  /\ UNCHANGED <<heapVars, recVars, hp_pointer, hp, sb, localVars, errno, live>>

\* The nodes met from p on by following next: those that are in every set of
\* nodes that contains p and is closed under next.
Reachable(p) ==
  {n \in Node : \A S \in SUBSET Node :
     ({p} \ {NULL}) \subseteq S /\ (\A m \in S : next[m] \in S \cup {NULL})
       => n \in S}

\* stack_free of the nodes S by thread t, the others having ended, and stack_init
\* of the next stack (run_test does this for every number of threads).
Renew(t, S) ==
  /\ \A u \in Thread : pc[u] = "Idle" /\ (u # t => tls[u] = NoSlot)
  /\ Free(S)
  /\ head' = NULL
  /\ to_reclaim' = NULL
  /\ reclaim_counter' = 0
  /\ hp_id' = [s \in Slot |-> 0]
  /\ hp_pointer' = [s \in Slot |-> NULL]
  /\ tls' = [u \in Thread |-> NoSlot]
  /\ sb' = [u \in Thread |-> <<>>]
  /\ errno' = "NO_ERROR"
  /\ UNCHANGED <<hp, localVars, live, pc>>

\* Fault: the popped nodes that wait for reclamation are forgotten.
FreeStackOnly(t) == Renew(t, Reachable(head))

FreeAndInit(t) == Renew(t, Reachable(head) \cup Reachable(to_reclaim))
-----------------------------------------------------------------------------
Push(t) == \/ \E v \in Value : PushMalloc(t, v)
           \/ PushNoMemory(t) \/ PushLoad(t) \/ PushSucceed(t) \/ PushRetry(t)

GetHazard(t) == PopBegin(t) \/ PopBeginFirst(t) \/ HpAcquire(t) \/ HpTaken(t)
                  \/ HpExhausted(t)

Pop(t) == \/ GetHazard(t) \/ PopInvalidArgument(t)
          \/ PopLoad(t) \/ PopPublish(t) \/ PopCrash(t) \/ PopMoved(t)
          \/ PopConfirm(t) \/ PopReadNext(t) \/ PopSucceed(t) \/ PopRetry(t)
          \/ PopFail(t) \/ PopTake(t)

Reclaim(t) == \/ RecLoad(t) \/ RecStore(t) \/ RetirePopped(t)
              \/ RetireHazard(t) \/ RecRetry(t)
              \/ Count(t) \/ Reset(t) \/ Grab(t) \/ GrabNothing(t)
              \/ ScanClear(t) \/ ScanHazard(t) \/ ScanFree(t)

Exit(t) == ExitClearPointer(t) \/ ExitClearId(t)

Step(t) == Push(t) \/ Pop(t) \/ Reclaim(t) \/ Exit(t)

Next ==
  /\ live = "up"
  /\ \E t \in Thread : Step(t) \/ Drain(t) \/ FreeAndInit(t)

Spec == Init /\ [][Next]_vars
-----------------------------------------------------------------------------
(***************************************************************************)
(* Properties.                                                             *)
(***************************************************************************)
\* The thread found the head unchanged after publishing it as a hazard, and
\* has not yet replaced the head or given up.
Protects(t, n) == pc[t] \in {"PopReadNext", "PopCas"} /\ old_head[t] = n

\* The promise of the hazard pointers (Stack.c:356, 174): a node that a pop is
\* about to dereference, or to compare with the head, is not freed meanwhile.
NoFreeWhileProtected ==
  [][\A n \in Node : status[n] # "free" /\ status'[n] = "free"
       => \A t \in Thread : ~Protects(t, n)]_vars

\* The nodes met from p on by following nx, one after the other, then NULL.
Walk(nx, p) ==
  LET at[i \in Nat] == IF i = 0 THEN p
                       ELSE IF at[i - 1] = NULL THEN NULL ELSE nx[at[i - 1]]
  IN  at

\* The list that starts at p, in order (cut after as many nodes as there are).
ListFrom(nx, p) ==
  LET at == Walk(nx, p)
      n  == Cardinality({i \in 1 .. Cardinality(Node) : at[i - 1] # NULL})
  IN  [i \in 1 .. n |-> at[i - 1]]

Chain(p) == ListFrom(next, p)

InChain(p) == {Chain(p)[i] : i \in DOMAIN Chain(p)}

\* When no operation is in progress every allocated node is in exactly one of
\* the two lists stack_free walks (Stack.c:242-267): a node in neither leaks, a
\* node in both is freed twice, and a longer walk never ends.
Quiescent == \A t \in Thread : pc[t] \in {"Idle", "ExitId"}

NothingLeaked ==
  Quiescent =>
    /\ InChain(head) \cap InChain(to_reclaim) = {}
    /\ InChain(head) \cup InChain(to_reclaim)
         = {n \in Node : status[n] # "free"}
    /\ Len(Chain(head)) + Len(Chain(to_reclaim))
         = Cardinality({n \in Node : status[n] # "free"})

\* Two threads never use the same hazard slot, and a slot whose thread has
\* ended no longer protects anything (Stack.c:105-112).
SlotsExclusive ==
  /\ \A t, u \in Thread : t # u /\ tls[t] # NoSlot => tls[t] # tls[u]
  /\ \A s \in Slot : hp_id[s] = 0 => hp_pointer[s] = NULL

\* The retired nodes do not pile up (Stack.c:386-394): between operations the
\* counter is below the threshold and accounts for every waiting node, except
\* those that a scan found to be hazards and put back.  Each of the scans that
\* ran at the last exchange may have put back two nodes for each slot of a
\* popper: the one published, and the one loaded and published during the scan.
RetiredBounded ==
  Quiescent =>
    /\ reclaim_counter < Threshold
    /\ Len(Chain(to_reclaim)) <= reclaim_counter + (MaxHazard * MaxHazard) \div 2

\* The refinement: the abstract stack holds the data of the nodes from head on;
\* a pop takes effect when its compare-and-swap succeeds, or when it finds the
\* head NULL for the second time.
Contents == [i \in 1 .. Len(Chain(head)) |-> data[Chain(head)[i]]]

Outcome(t) ==
  IF pc[t] # "PopClear" THEN result[t]
  ELSE IF old_head[t] = NULL THEN Empty ELSE data[old_head[t]]

Abstract == INSTANCE AbstractStack
  WITH stk <- Contents, out <- [t \in Thread |-> Outcome(t)]

\* Every behaviour of the code is one of the atomic stack that the callers of
\* stack_push and stack_pop reckon with (Stack.h:17-21): no value is lost, popped
\* twice or popped out of order, whatever node is reused meanwhile.
Linearizable == Abstract!Spec

\* The stack takes no lock: a retry (Stack.c:324, 160) or a second look at the
\* head (Stack.c:365) is always due to the progress of another thread, so that
\* some operation ends again and again.  The only fairness is that the machine
\* does not stop for good while an operation is in progress, and that stores
\* become visible by and by: a thread may be suspended for ever in the middle of
\* an operation, as long as another unfinished one goes on.
Pending(t) == pc[t] # "Idle" /\ Step(t)

LiveSpec ==
  /\ Spec
  /\ WF_vars(live = "up" /\ \E t \in Thread : Pending(t))
  /\ WF_vars(live = "up" /\ \E t \in Thread : Drain(t))

Completes == \E t \in Thread : pc[t] # "Idle" /\ pc'[t] = "Idle"

LockFree ==
  \/ []<>(\A t \in Thread : pc[t] = "Idle")
  \/ []<><<Completes>>_vars
  \/ <>(live = "crashed")
-----------------------------------------------------------------------------
(***************************************************************************)
(* The inductive invariant behind NoFreeWhileProtected and SlotsExclusive, *)
(* under sequential consistency.                                           *)
(***************************************************************************)
Listed(n) == status[n] \in {"stack", "retired", "grabbed"}

SameList(m, n) == status[m] = status[n] /\ owner[m] = owner[n]

\* p is not the next field of a listed node.
First(p) == \A n \in Node : Listed(n) => next[n] # p

\* The lists of struct Stack are disjoint, and none of their nodes has two
\* predecessors.
ListsOK ==
  /\ head # NULL => status[head] = "stack" /\ First(head)
  /\ to_reclaim # NULL => status[to_reclaim] = "retired" /\ First(to_reclaim)
  /\ \A n \in Node : status[n] \in {"stack", "retired"} => owner[n] = NULL
  /\ \A n \in Node : Listed(n) /\ next[n] # NULL => SameList(n, next[n])
  /\ \A m, n \in Node : Listed(m) /\ Listed(n) /\ next[m] = next[n] /\ m # n
                          => next[m] = NULL

Recycling == {"RecLoad", "RecStore", "RecCas"}

\* Node n is in the hands of t alone.
Mine(t, n, st) == n \in Node /\ status[n] = st /\ owner[n] = t

\* What a thread holds outside the lists is its own.
PrivateOK ==
  \A t \in Thread :
    /\ pc[t] \in {"PushLoad", "PushCas"} => Mine(t, node[t], "new")
    /\ pc[t] = "PushCas" => next[node[t]] = old_head[t]
    /\ pc[t] \in Recycling => Mine(t, node[t], "detached")
    /\ pc[t] \in Recycling => current[t] \in {NULL, node[t]}
    /\ pc[t] \notin Recycling \cup {"Scan"} => current[t] = NULL
    /\ pc[t] = "Scan" => Mine(t, current[t], "detached")
    /\ pc[t] = "PopClear" /\ old_head[t] # NULL => Mine(t, old_head[t], "detached")
    /\ pc[t] \in Recycling \cup {"Scan"} /\ current[t] # NULL /\ nxt[t] # NULL
         => Mine(t, nxt[t], "grabbed") /\ First(nxt[t])

Holding == {"PopRecheck", "PopReadNext", "PopCas"}
Popping == {"PopLoad", "PopPublish", "PopClear"} \cup Holding

\* A thread uses its own slot only, and only from a pop.
SlotsOK ==
  /\ \A s \in Slot : hp_id[s] = 0 => hp_pointer[s] = NULL
  /\ \A t \in Thread :
       /\ sb[t] = <<>>
       /\ tls[t] # NoSlot => hp_id[tls[t]] = 1
       /\ hp[t] \in {NoSlot, tls[t]}
       /\ pc[t] \notin Popping => hp[t] = NoSlot
       /\ pc[t] \in Holding \cup {"PopClear"} => hp[t] # NoSlot
       /\ pc[t] = "ExitId" => tls[t] # NoSlot /\ hp_pointer[tls[t]] = NULL
       /\ pc[t] = "HpAcquire" => tls[t] = NoSlot
  /\ \A t, u \in Thread : t # u /\ tls[t] # NoSlot => tls[t] # tls[u]

\* A published hazard is seen by every scan that has not passed its slot, and
\* while it is protected a node is not allocated again: if it is in the stack,
\* it is there since before, with the same successor.
HazardsOK ==
  \A t \in Thread :
    /\ pc[t] \in Holding => hp_pointer[hp[t]] = old_head[t]
    /\ pc[t] \in {"PopReadNext", "PopCas"} =>
         /\ old_head[t] # NULL
         /\ status[old_head[t]] \notin {"free", "new"}
    /\ pc[t] = "PopCas" /\ status[old_head[t]] = "stack"
         => nxt[t] = next[old_head[t]]
    /\ pc[t] \notin {"HpAcquire", "Scan"} => hp_i[t] = 0
    /\ pc[t] = "Scan" => \A u \in Thread : Protects(u, current[t]) => hp_i[t] <= hp[u]

\* The lists are disjoint, what is in hand is private, slots have one user and
\* confirmed hazards are visible: together these are inductive (Stack.c:284-397).
SafeInv == TypeOK /\ ListsOK /\ PrivateOK /\ SlotsOK /\ HazardsOK
-----------------------------------------------------------------------------
(***************************************************************************)
(* What NothingLeaked and Linearizable rest on besides.                    *)
(***************************************************************************)
Entry(s, i) == IF i \in DOMAIN s THEN s[i] ELSE NULL

\* s lists the nodes S, each once, from p on along nx.
IsList(s, nx, p, S) ==
  /\ s \in Seq(S)
  /\ \A n \in S : \E i \in DOMAIN s : s[i] = n
  /\ \A i, j \in DOMAIN s : s[i] = s[j] => i = j
  /\ Entry(s, 1) = p
  /\ \A i \in DOMAIN s : nx[s[i]] = Entry(s, i + 1)

InStack    == {n \in Node : status[n] = "stack"}
Retired    == {n \in Node : status[n] = "retired"}
Grabbed(t) == {n \in Node : status[n] = "grabbed" /\ owner[n] = t}

\* t runs delete_nodes_with_no_hazards.
Scanning(t) == pc[t] = "Scan" \/ (pc[t] \in Recycling /\ current[t] # NULL)

\* A node outside the lists is in the hands of its owner, who knows where.
InHandOK ==
  \A n \in Node :
    /\ status[n] \in {"new", "detached", "grabbed"} => owner[n] \in Thread
    /\ status[n] = "new" => pc[owner[n]] \in {"PushLoad", "PushCas"} /\ node[owner[n]] = n
    /\ status[n] = "detached" =>
         \/ pc[owner[n]] \in Recycling /\ node[owner[n]] = n
         \/ pc[owner[n]] = "Scan" /\ current[owner[n]] = n
         \/ pc[owner[n]] = "PopClear" /\ old_head[owner[n]] = n
    /\ status[n] = "grabbed" => Scanning(owner[n])

\* The walk from p meets the nodes S, each once, and ends.
Complete(p, S) == IsList(Chain(p), next, p, S)

CompleteOK ==
  /\ Complete(head, InStack)
  /\ Complete(to_reclaim, Retired)
  /\ \A t \in Thread : Scanning(t) => Complete(nxt[t], Grabbed(t))
  /\ InHandOK

\* Besides, every list is complete, and every other node is in somebody's hands:
\* no node is lost by a step of the stack (Stack.c:52-68, 123-177, 187-397).
StackInv == SafeInv /\ CompleteOK
=============================================================================
