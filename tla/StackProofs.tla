---------------------------- MODULE StackProofs ----------------------------
(***************************************************************************)
(* Proofs about the stack, for any number of threads, nodes and slots: its *)
(* types; under sequential consistency (StoreBuffer = 0) the safety of its *)
(* hazard pointers, by the inductive invariant SafeInv; that it loses no   *)
(* node, by StackInv; and that it implements the atomic stack.             *)
(***************************************************************************)
EXTENDS Stack, Induction, FiniteSetTheorems, SequenceTheorems

(***************************************************************************)
(* Types.  They are inductive but for one case: the third argument of the  *)
(* compare-and-swap of a pop is read through old_head, which               *)
(* Dereferenceable says is a node.                                         *)
(***************************************************************************)
\* What malloc leaves in node->data is some value of Data_t.
LEMMA GarbageType == Garbage \in Value
  BY ValueAssumption DEF Garbage

\* stack_init leaves every field with its type.
LEMMA TypeInit == Init => TypeOK
  BY GarbageType, MaxHazardAssumption
  DEF Init, TypeOK, Pointer, Error, Status, PC, Slot, NoSlot

\* Storing a hazard, in memory or in the store buffer, keeps the types of both.
LEMMA StoreHazardType ==
  ASSUME TypeOK, NEW t \in Thread, NEW s, NEW p \in Pointer,
         StoreHazard(t, s, p)
  PROVE  hp_pointer' \in [Slot -> Pointer] /\ sb' \in [Thread -> Seq(Pointer)]
<1>1. Append(sb[t], p) \in Seq(Pointer)
  BY DEF TypeOK
<1>2. QED
  BY <1>1 DEF TypeOK, StoreHazard

\* Going on to the next node of the list being scanned keeps the types.
LEMMA AdvanceType ==
  ASSUME TypeOK, NEW t \in Thread, NEW st \in [Node -> Status], Advance(t, st),
         next \in [Node -> Pointer]
  PROVE  /\ current' \in [Thread -> Pointer]
         /\ nxt' \in [Thread -> Pointer]
         /\ status' \in [Node -> Status]
         /\ hp_i' \in [Thread -> 0 .. MaxHazard]
         /\ pc' \in [Thread -> PC]
<1> DEFINE c == nxt[t]
<1>1. c \in Pointer
  BY DEF TypeOK
<1>2. (IF c = NULL THEN NULL ELSE next[c]) \in Pointer
  BY <1>1, NullAssumption DEF Pointer
<1>3. (IF c = NULL THEN st ELSE [st EXCEPT ![c] = "detached"]) \in [Node -> Status]
  BY <1>1 DEF Pointer, Status
<1>4. 0 \in 0 .. MaxHazard
  BY MaxHazardAssumption
<1>5. QED
  BY <1>1, <1>2, <1>3, <1>4 DEF TypeOK, Advance, PC

\* The node whose next field is loaded exists: all that the types rest on.
Dereferenceable == \A t \in Thread : pc[t] = "PopReadNext" => old_head[t] # NULL

\* Every step of the stack keeps the types.
LEMMA TypeStep ==
  ASSUME TypeOK, Dereferenceable, NEW t \in Thread,
         Step(t) \/ Drain(t) \/ FreeAndInit(t)
  PROVE  TypeOK'
<1> USE GarbageType, MaxHazardAssumption, NullAssumption
    DEF TypeOK, Pointer, Error, Status, PC, Slot, NoSlot, heapVars, recVars,
        hpVars, localVars
<1>1. CASE \E v \in Value : PushMalloc(t, v)
  BY <1>1 DEF PushMalloc, Goto
<1>2. CASE PushNoMemory(t)
  BY <1>2 DEF PushNoMemory
<1>3. CASE PushLoad(t)
  BY <1>3 DEF PushLoad, Goto
<1>4. CASE PushSucceed(t)
  BY <1>4 DEF PushSucceed, PushPublish, Goto
<1>5. CASE PushRetry(t)
  BY <1>5 DEF PushRetry, Goto
<1>6. CASE PopBegin(t)
  BY <1>6 DEF PopBegin, Goto, Bind
<1>7. CASE PopBeginFirst(t)
  BY <1>7 DEF PopBeginFirst, Goto
<1>8. CASE HpAcquire(t)
  <2>1. hp_i[t] \in Slot
    BY <1>8 DEF HpAcquire, HpTake
  <2>2. /\ hp' \in [Thread -> Slot \cup {NoSlot}]
        /\ tls' \in [Thread -> Slot \cup {NoSlot}]
        /\ errno' \in Error
    BY <1>8, <2>1 DEF HpAcquire, HpTake, Bind
  <2>3. /\ hp_id' \in [Slot -> {0, 1}]
        /\ hp_i' \in [Thread -> 0 .. MaxHazard]
        /\ pc' \in [Thread -> PC]
    BY <1>8 DEF HpAcquire, HpTake, Goto
  <2>4. QED
    BY <1>8, <2>2, <2>3 DEF HpAcquire, HpTake
<1>9. CASE HpTaken(t)
  BY <1>9 DEF HpTaken
<1>10. CASE HpExhausted(t)
  BY <1>10 DEF HpExhausted, Goto
<1>11. CASE PopInvalidArgument(t)
  BY <1>11 DEF PopInvalidArgument
<1>12. CASE PopLoad(t)
  BY <1>12 DEF PopLoad, Goto
<1>13. CASE PopPublish(t)
  <2>1. hp_pointer' \in [Slot -> Pointer] /\ sb' \in [Thread -> Seq(Pointer)]
    BY <1>13, StoreHazardType DEF PopPublish
  <2>2. QED
    BY <1>13, <2>1 DEF PopPublish, Goto
<1>14. CASE PopCrash(t)
  BY <1>14 DEF PopCrash
<1>15. CASE PopMoved(t)
  BY <1>15 DEF PopMoved, Goto
<1>16. CASE PopConfirm(t)
  BY <1>16 DEF PopConfirm, Goto
<1>17. CASE PopReadNext(t)
  <2>1. PICK p \in LoadNext(old_head[t]) : nxt' = [nxt EXCEPT ![t] = p]
    BY <1>17 DEF PopReadNext
  <2>2. p \in Pointer
    BY <1>17, <2>1 DEF LoadNext, Dereferenceable, PopReadNext, Goto
  <2>3. QED
    BY <1>17, <2>1, <2>2 DEF PopReadNext, Goto
<1>18. CASE PopSucceed(t)
  BY <1>18 DEF PopSucceed, PopSwap, Goto
<1>19. CASE PopRetry(t)
  BY <1>19 DEF PopRetry, Goto
<1>20. CASE PopFail(t)
  <2>1. hp_pointer' \in [Slot -> Pointer] /\ sb' \in [Thread -> Seq(Pointer)]
    BY <1>20, StoreHazardType DEF PopFail
  <2>2. QED
    BY <1>20, <2>1 DEF PopFail, Goto
<1>21. CASE PopTake(t)
  <2>1. hp_pointer' \in [Slot -> Pointer] /\ sb' \in [Thread -> Seq(Pointer)]
    BY <1>21, StoreHazardType DEF PopTake
  <2>2. QED
    BY <1>21, <2>1 DEF PopTake, Goto
<1>22. CASE RecLoad(t)
  BY <1>22 DEF RecLoad, Goto
<1>23. CASE RecStore(t)
  BY <1>23 DEF RecStore, Goto
<1>24. CASE RetirePopped(t)
  BY <1>24 DEF RetirePopped, Goto, Retire, PutOnList
<1>25. CASE RetireHazard(t)
  <2>1. [status EXCEPT ![node[t]] = "retired"] \in [Node -> Status]
    OBVIOUS
  <2>2. /\ current' \in [Thread -> Pointer]
        /\ nxt' \in [Thread -> Pointer]
        /\ status' \in [Node -> Status]
        /\ hp_i' \in [Thread -> 0 .. MaxHazard]
        /\ pc' \in [Thread -> PC]
    BY <1>25, <2>1, AdvanceType DEF RetireHazard
  <2>3. QED
    BY <1>25, <2>2 DEF RetireHazard, Retire, PutOnList
<1>26. CASE RecRetry(t)
  BY <1>26 DEF RecRetry, Goto
<1>27. CASE Count(t)
  BY <1>27 DEF Count, CountTo, Goto
<1>28. CASE Reset(t)
  BY <1>28 DEF Reset, Goto
<1>29. CASE Grab(t)
  BY <1>29 DEF Grab, Goto
<1>30. CASE GrabNothing(t)
  BY <1>30 DEF GrabNothing, Goto
<1>31. CASE ScanClear(t)
  BY <1>31 DEF ScanClear
<1>32. CASE ScanHazard(t)
  BY <1>32 DEF ScanHazard, Goto
<1>33. CASE ScanFree(t)
  <2>1. [status EXCEPT ![current[t]] = "free"] \in [Node -> Status]
    OBVIOUS
  <2>2. /\ current' \in [Thread -> Pointer]
        /\ nxt' \in [Thread -> Pointer]
        /\ status' \in [Node -> Status]
        /\ hp_i' \in [Thread -> 0 .. MaxHazard]
        /\ pc' \in [Thread -> PC]
    BY <1>33, <2>1, AdvanceType DEF ScanFree
  <2>3. QED
    BY <1>33, <2>2 DEF ScanFree
<1>34. CASE ExitClearPointer(t)
  <2>1. hp_pointer' \in [Slot -> Pointer] /\ sb' \in [Thread -> Seq(Pointer)]
    BY <1>34, StoreHazardType DEF ExitClearPointer
  <2>2. QED
    BY <1>34, <2>1 DEF ExitClearPointer, Goto
<1>35. CASE ExitClearId(t)
  BY <1>35 DEF ExitClearId, Goto
<1>36. CASE Drain(t)
  <2>1. sb[t] \in Seq(Pointer) /\ sb[t] # <<>>
    BY <1>36 DEF Drain
  <2>2. Head(sb[t]) \in Pointer /\ Tail(sb[t]) \in Seq(Pointer)
    BY <2>1
  <2>3. QED
    BY <1>36, <2>2 DEF Drain
<1>37. CASE FreeAndInit(t)
  BY <1>37 DEF FreeAndInit, Renew, Free
<1> QED
  BY <1>1, <1>2, <1>3, <1>4, <1>5, <1>6, <1>7, <1>8, <1>9, <1>10, <1>11,
     <1>12, <1>13, <1>14, <1>15, <1>16, <1>17, <1>18, <1>19, <1>20, <1>21,
     <1>22, <1>23, <1>24, <1>25, <1>26, <1>27, <1>28, <1>29, <1>30, <1>31,
     <1>32, <1>33, <1>34, <1>35, <1>36, <1>37
  DEF Step, Push, Pop, GetHazard, Reclaim, Exit

\* A pop reads old_head->next only after it has found old_head not NULL
\* (Stack.c:367), and nobody else writes its old_head.
LEMMA DereferenceableStep ==
  ASSUME TypeOK, Dereferenceable, NEW t \in Thread,
         Step(t) \/ Drain(t) \/ FreeAndInit(t)
  PROVE  Dereferenceable'
<1>1. CASE PopConfirm(t)
  BY <1>1 DEF PopConfirm, Goto, TypeOK, Dereferenceable, localVars
<1>2. CASE ~PopConfirm(t)
  <2> SUFFICES ASSUME NEW u \in Thread, pc'[u] = "PopReadNext"
                 PROVE  pc[u] = "PopReadNext" /\ old_head'[u] = old_head[u]
      BY DEF Dereferenceable
  <2> USE DEF TypeOK, Goto, localVars
  <2>1. CASE Push(t)
    BY <1>2, <2>1
      DEF Push, PushMalloc, PushNoMemory, PushLoad, PushSucceed, PushPublish,
          PushRetry
  <2>2. CASE GetHazard(t)
    BY <1>2, <2>2
      DEF GetHazard, PopBegin, PopBeginFirst, HpAcquire, HpTake, HpTaken,
          HpExhausted
  <2>3. CASE Pop(t) /\ ~GetHazard(t)
    BY <1>2, <2>3
      DEF Pop, PopInvalidArgument, PopLoad, PopPublish, PopCrash,
          PopMoved, PopConfirm, PopReadNext, PopSucceed, PopSwap, PopRetry,
          PopFail, PopTake
  <2>4. CASE Reclaim(t)
    BY <1>2, <2>4
      DEF Reclaim, RecLoad, RecStore, RetirePopped, RetireHazard,
          Retire, PutOnList, Advance, RecRetry, Count, CountTo, Reset, Grab,
          GrabNothing, ScanClear, ScanHazard, ScanFree
  <2>5. CASE Exit(t) \/ Drain(t) \/ FreeAndInit(t)
    BY <1>2, <2>5
      DEF Exit, ExitClearPointer, ExitClearId, Drain, FreeAndInit, Renew
  <2>. QED
    BY <2>1, <2>2, <2>3, <2>4, <2>5 DEF Step, Pop
<1>3. QED
  BY <1>1, <1>2

\* Type correctness: the variables of the stack keep their types, for any number
\* of threads, nodes and hazard pointers and any store buffer.
THEOREM TypeCorrect == Spec => []TypeOK
<1> DEFINE TypeInv == TypeOK /\ Dereferenceable
<1>1. Init => TypeInv
  BY TypeInit DEF Init, Dereferenceable
<1>2. TypeInv /\ [Next]_vars => TypeInv'
  <2> SUFFICES ASSUME TypeInv, [Next]_vars PROVE TypeInv'
    OBVIOUS
  <2>1. CASE Next
    BY <2>1, TypeStep, DereferenceableStep DEF Next
  <2>2. CASE UNCHANGED vars
    BY <2>2 DEF vars, heapVars, recVars, hpVars, localVars, TypeOK, Dereferenceable
  <2>3. QED
    BY <2>1, <2>2
<1>3. QED
  BY <1>1, <1>2, PTL DEF Spec

-----------------------------------------------------------------------------
(***************************************************************************)
(* Safety.  SafeInv is inductive: the lists of nodes are disjoint and      *)
(* without a fork, what a thread holds outside them is its own, slots have *)
(* one user, and a confirmed hazard is in its slot for every scan that has *)
(* still to reach that slot.  One lemma per conjunct shows that the steps  *)
(* keep it.                                                                *)
(***************************************************************************)
\* The walk of stack_free from p meets p and whatever follows a node it meets.
LEMMA ReachableClosed ==
  ASSUME TypeOK, NEW p \in Pointer
  PROVE  /\ p # NULL => p \in Reachable(p)
         /\ \A m \in Reachable(p) : next[m] \in Reachable(p) \cup {NULL}
  BY DEF TypeOK, Reachable, Pointer

\* It stays in every set that contains p and what follows its members.
LEMMA ReachableIn ==
  ASSUME TypeOK, NEW p \in Pointer, NEW S \in SUBSET Node, p # NULL => p \in S,
         \A m \in S : next[m] \in S \cup {NULL}
  PROVE  Reachable(p) \subseteq S
  BY DEF Reachable, Pointer

\* It meets every node but the first through the next field of another.
LEMMA ReachablePredecessor ==
  ASSUME TypeOK, NEW p \in Pointer, NEW n \in Reachable(p), n # p
  PROVE  \E m \in Reachable(p) : next[m] = n
<1> SUFFICES ASSUME \A m \in Reachable(p) : next[m] # n PROVE FALSE
  OBVIOUS
<1> DEFINE S == Reachable(p) \ {n}
<1>1. S \in SUBSET Node /\ (p # NULL => p \in S)
  BY ReachableClosed DEF Reachable
<1>2. \A m \in S : next[m] \in S \cup {NULL}
  BY ReachableClosed
<1>3. Reachable(p) \subseteq S
  BY <1>1, <1>2, ReachableIn
<1>4. QED
  BY <1>3

\* The two walks of stack_free (Stack.c:243-267) meet nodes of their list only.
LEMMA ReachableListed ==
  ASSUME TypeOK, ListsOK
  PROVE  /\ \A n \in Reachable(head) : n \in Node /\ status[n] = "stack"
         /\ \A n \in Reachable(to_reclaim) : n \in Node /\ status[n] = "retired"
<1> DEFINE S == {n \in Node : status[n] = "stack"}
           R == {n \in Node : status[n] = "retired"}
<1>1. Reachable(head) \subseteq S
  <2>1. \A m \in S : next[m] \in S \cup {NULL}
    BY DEF TypeOK, ListsOK, Listed, SameList, Pointer
  <2>2. QED
    BY <2>1, ReachableIn DEF TypeOK, ListsOK, Pointer
<1>2. Reachable(to_reclaim) \subseteq R
  <2>1. \A m \in R : next[m] \in R \cup {NULL}
    BY DEF TypeOK, ListsOK, Listed, SameList, Pointer
  <2>2. QED
    BY <2>1, ReachableIn DEF TypeOK, ListsOK, Pointer
<1>3. QED
  BY <1>1, <1>2

\* The lists from head and from to_reclaim stay disjoint and without a fork.
LEMMA ListsStep ==
  ASSUME SafeInv, StoreBuffer = 0, NEW t \in Thread,
         Step(t) \/ Drain(t) \/ FreeAndInit(t)
  PROVE  ListsOK'
<1> USE NullAssumption DEF SafeInv, TypeOK, ListsOK, Listed, SameList, First,
        Pointer, heapVars, recVars, hpVars, localVars
<1>1. CASE \E v \in Value : PushMalloc(t, v)
  BY <1>1 DEF PushMalloc
<1>2. CASE PushLoad(t)
  BY <1>2 DEF PushLoad, Goto, PrivateOK, Mine
<1>3. CASE PushSucceed(t)
  BY <1>3 DEF PushSucceed, PushPublish, Goto, PrivateOK, Mine
<1>4. CASE PopSucceed(t)
  BY <1>4 DEF PopSucceed, PopSwap, Goto, HazardsOK
<1>5. CASE RecStore(t)
  BY <1>5 DEF RecStore, Goto, PrivateOK, Mine, Recycling
<1>6. CASE RetirePopped(t)
  BY <1>6 DEF RetirePopped, Retire, PutOnList, Goto, PrivateOK, Mine, Recycling
<1>7. CASE RetireHazard(t)
  BY <1>7 DEF RetireHazard, Retire, PutOnList, Advance, Goto, PrivateOK, Mine, Recycling
<1>8. CASE RecRetry(t)
  BY <1>8 DEF RecRetry, Goto, PrivateOK, Mine, Recycling
<1>9. CASE Grab(t)
  BY <1>9 DEF Grab
<1>10. CASE ScanFree(t)
  BY <1>10 DEF ScanFree, Advance, PrivateOK, Mine, Recycling
<1>11. CASE FreeAndInit(t)
  BY <1>11, ReachableListed, ReachablePredecessor DEF FreeAndInit, Renew, Free
<1>12. CASE UNCHANGED <<head, next, to_reclaim, status, owner>>
  BY <1>12
<1>13. QED
  BY <1>1, <1>2, <1>3, <1>4, <1>5, <1>6, <1>7, <1>8, <1>9, <1>10, <1>11, <1>12
  DEF Step, Push, Pop, GetHazard, Reclaim, Exit, PushNoMemory, PushRetry,
      PopBegin, PopBeginFirst, HpAcquire, HpTake, HpTaken, HpExhausted,
      PopInvalidArgument, PopLoad, PopPublish, PopCrash, PopMoved, PopConfirm,
      PopReadNext, PopRetry, PopFail, PopTake, RecLoad, Count, CountTo, Reset,
      GrabNothing, ScanClear, ScanHazard, ExitClearPointer, ExitClearId, Drain

\* Nodes in hand stay private.
LEMMA PrivateStep ==
  ASSUME SafeInv, StoreBuffer = 0, NEW t \in Thread,
         Step(t) \/ Drain(t) \/ FreeAndInit(t)
  PROVE  PrivateOK'
<1> USE NullAssumption, MaxHazardAssumption DEF SafeInv, TypeOK, Pointer,
        Goto, heapVars, recVars, hpVars, localVars, ListsOK, PrivateOK, Mine,
        First, Listed, SameList, Recycling
<1>1. CASE Push(t)
  BY <1>1 DEF Push, PushMalloc, PushNoMemory, PushLoad, PushSucceed, PushPublish, PushRetry
<1>2. CASE GetHazard(t)
  BY <1>2 DEF GetHazard, PopBegin, Bind, PopBeginFirst, HpAcquire, HpTake, HpTaken, HpExhausted
<1>3. CASE PopInvalidArgument(t)
  BY <1>3 DEF PopInvalidArgument
<1>4. CASE PopLoad(t)
  BY <1>4 DEF PopLoad
<1>5. CASE PopPublish(t)
  BY <1>5 DEF PopPublish, StoreHazard
<1>6. CASE PopCrash(t)
  BY <1>6 DEF PopCrash
<1>7. CASE PopMoved(t)
  BY <1>7 DEF PopMoved
<1>8. CASE PopConfirm(t)
  BY <1>8 DEF PopConfirm
<1>9. CASE PopReadNext(t)
  BY <1>9 DEF PopReadNext, LoadNext
<1>10. CASE PopSucceed(t)
  BY <1>10 DEF PopSucceed, PopSwap
<1>11. CASE PopRetry(t)
  BY <1>11 DEF PopRetry
<1>12. CASE PopFail(t)
  BY <1>12 DEF PopFail, StoreHazard
<1>13. CASE PopTake(t)
  BY <1>13 DEF PopTake, StoreHazard
<1>14. CASE RecLoad(t)
  BY <1>14 DEF RecLoad
<1>15. CASE RecStore(t)
  BY <1>15 DEF RecStore
<1>16. CASE RecRetry(t)
  BY <1>16 DEF RecRetry
<1>17. CASE RetirePopped(t)
  BY <1>17 DEF RetirePopped, Retire, PutOnList
<1>18. CASE RetireHazard(t)
  BY <1>18 DEF RetireHazard, Retire, PutOnList, Advance
<1>19. CASE Count(t)
  BY <1>19 DEF Count, CountTo
<1>20. CASE Reset(t)
  BY <1>20 DEF Reset
<1>21. CASE GrabNothing(t)
  BY <1>21 DEF GrabNothing
<1>22. CASE Grab(t)
  BY <1>22 DEF Grab
<1>23. CASE ScanClear(t)
  BY <1>23 DEF ScanClear
<1>24. CASE ScanHazard(t)
  BY <1>24 DEF ScanHazard
<1>25. CASE ScanFree(t)
  BY <1>25 DEF ScanFree, Advance
<1>26. CASE ExitClearPointer(t)
  BY <1>26 DEF ExitClearPointer, StoreHazard
<1>27. CASE ExitClearId(t)
  BY <1>27 DEF ExitClearId
<1>28. CASE Drain(t)
  BY <1>28 DEF Drain
<1>29. CASE FreeAndInit(t)
  BY <1>29 DEF FreeAndInit, Renew, Free
<1>30. QED
  BY <1>1, <1>2, <1>3, <1>4, <1>5, <1>6, <1>7, <1>8, <1>9, <1>10, <1>11,
      <1>12, <1>13, <1>14, <1>15, <1>16, <1>17, <1>18, <1>19, <1>20, <1>21,
      <1>22, <1>23, <1>24, <1>25, <1>26, <1>27, <1>28, <1>29 DEF Step, Push,
      Pop, GetHazard, Reclaim, Exit

\* A thread that takes a free slot is its only user.
LEMMA SlotsAcquire ==
  ASSUME SafeInv, NEW t \in Thread, HpAcquire(t)
  PROVE  SlotsOK'
<1> DEFINE s == hp_i[t]
<1>1. s \in Slot /\ hp_id[s] = 0
  BY MaxHazardAssumption DEF HpAcquire, HpTake, SafeInv, TypeOK, Slot
<1>2. tls[t] = NoSlot /\ hp[t] = NoSlot
  BY DEF HpAcquire, HpTake, Goto, SafeInv, SlotsOK, Popping, Holding
<1>3. /\ tls' = [tls EXCEPT ![t] = s] \/ tls' = tls
      /\ hp'[t] = tls'[t] /\ \A u \in Thread : u # t => hp'[u] = hp[u]
  BY <1>2 DEF HpAcquire, HpTake, Bind, SafeInv, TypeOK
<1>4. hp_id' = [hp_id EXCEPT ![s] = 1] /\ UNCHANGED <<hp_pointer, sb>>
  BY DEF HpAcquire, HpTake
<1>5. pc' = [pc EXCEPT ![t] = "PopLoad"]
  BY DEF HpAcquire, HpTake, Goto
<1>6. \A u \in Thread : tls[u] # s
  BY <1>1 DEF SafeInv, SlotsOK, Slot, NoSlot
<1> HIDE DEF s
<1> USE DEF SafeInv, TypeOK, SlotsOK, Slot, NoSlot
<1>7. \A u, v \in Thread : u # v /\ tls'[u] # NoSlot => tls'[u] # tls'[v]
  <2>1. \A u \in Thread : u # t => tls'[u] = tls[u]
    BY <1>3
  <2>2. tls'[t] \in {s, NoSlot} /\ s # NoSlot
    BY <1>1, <1>2, <1>3
  <2>3. QED
    BY <2>1, <2>2, <1>6
<1>8. \A u \in Thread : tls'[u] # NoSlot => hp_id'[tls'[u]] = 1
  BY <1>1, <1>2, <1>3, <1>4, <1>6
<1>9. \A u \in Thread : u # t => /\ tls'[u] = tls[u]
                                 /\ hp'[u] = hp[u]
                                 /\ pc'[u] = pc[u]
  BY <1>3, <1>5
<1>10. QED
  BY <1>1, <1>2, <1>3, <1>4, <1>5, <1>7, <1>8, <1>9 DEF Popping, Holding

\* Slots stay exclusive.
LEMMA SlotsStep ==
  ASSUME SafeInv, StoreBuffer = 0, NEW t \in Thread,
         Step(t) \/ Drain(t) \/ FreeAndInit(t)
  PROVE  SlotsOK'
<1> USE NullAssumption, MaxHazardAssumption DEF SafeInv, TypeOK, Pointer,
        Goto, heapVars, recVars, hpVars, localVars, SlotsOK, Slot, NoSlot,
        Popping, Holding
<1>1. CASE \E v \in Value : PushMalloc(t, v)
  BY <1>1 DEF PushMalloc
<1>2. CASE PushNoMemory(t)
  BY <1>2 DEF PushNoMemory
<1>3. CASE PushLoad(t)
  BY <1>3 DEF PushLoad
<1>4. CASE PushSucceed(t)
  BY <1>4 DEF PushSucceed, PushPublish
<1>5. CASE PushRetry(t)
  BY <1>5 DEF PushRetry
<1>6. CASE PopBegin(t)
  BY <1>6 DEF PopBegin, Bind
<1>7. CASE PopBeginFirst(t)
  BY <1>7 DEF PopBeginFirst
<1>8. CASE HpAcquire(t)
  BY <1>8, SlotsAcquire
<1>9. CASE HpTaken(t)
  BY <1>9 DEF HpTaken
<1>10. CASE HpExhausted(t)
  BY <1>10 DEF HpExhausted
<1>11. CASE PopInvalidArgument(t)
  BY <1>11 DEF PopInvalidArgument
<1>12. CASE PopLoad(t)
  BY <1>12 DEF PopLoad
<1>13. CASE PopPublish(t)
  BY <1>13 DEF PopPublish, StoreHazard
<1>14. CASE PopCrash(t)
  BY <1>14 DEF PopCrash
<1>15. CASE PopMoved(t)
  BY <1>15 DEF PopMoved
<1>16. CASE PopConfirm(t)
  BY <1>16 DEF PopConfirm
<1>17. CASE PopReadNext(t)
  BY <1>17 DEF PopReadNext, LoadNext
<1>18. CASE PopSucceed(t)
  BY <1>18 DEF PopSucceed, PopSwap
<1>19. CASE PopRetry(t)
  BY <1>19 DEF PopRetry
<1>20. CASE PopFail(t)
  BY <1>20 DEF PopFail, StoreHazard
<1>21. CASE PopTake(t)
  BY <1>21 DEF PopTake, StoreHazard
<1>22. CASE RecLoad(t) \/ RecStore(t) \/ RecRetry(t)
  BY <1>22 DEF RecLoad, RecStore, RecRetry
<1>23. CASE RetirePopped(t)
  BY <1>23 DEF RetirePopped, Retire, PutOnList
<1>24. CASE RetireHazard(t)
  BY <1>24 DEF RetireHazard, Retire, PutOnList, Advance
<1>25. CASE Count(t)
  BY <1>25 DEF Count, CountTo
<1>26. CASE Reset(t)
  BY <1>26 DEF Reset
<1>27. CASE GrabNothing(t)
  BY <1>27 DEF GrabNothing
<1>28. CASE Grab(t)
  BY <1>28 DEF Grab
<1>29. CASE ScanClear(t)
  BY <1>29 DEF ScanClear
<1>30. CASE ScanHazard(t)
  BY <1>30 DEF ScanHazard
<1>31. CASE ScanFree(t)
  BY <1>31 DEF ScanFree, Advance
<1>32. CASE ExitClearPointer(t)
  BY <1>32 DEF ExitClearPointer, StoreHazard
<1>33. CASE ExitClearId(t)
  BY <1>33 DEF ExitClearId
<1>34. CASE Drain(t)
  BY <1>34 DEF Drain
<1>35. CASE FreeAndInit(t)
  BY <1>35 DEF FreeAndInit, Renew, Free
<1>36. QED
  BY <1>1, <1>2, <1>3, <1>4, <1>5, <1>6, <1>7, <1>8, <1>9, <1>10, <1>11,
      <1>12, <1>13, <1>14, <1>15, <1>16, <1>17, <1>18, <1>19, <1>20, <1>21,
      <1>22, <1>23, <1>24, <1>25, <1>26, <1>27, <1>28, <1>29, <1>30, <1>31,
      <1>32, <1>33, <1>34, <1>35 DEF Step, Push, Pop, GetHazard, Reclaim,
      Exit

\* Hazards stay visible, and what they protect stays put.
LEMMA HazardsStep ==
  ASSUME SafeInv, StoreBuffer = 0, NEW t \in Thread,
         Step(t) \/ Drain(t) \/ FreeAndInit(t)
  PROVE  HazardsOK'
<1> USE NullAssumption, MaxHazardAssumption DEF SafeInv, TypeOK, Pointer,
        Goto, heapVars, recVars, hpVars, localVars, ListsOK, PrivateOK, Mine,
        Recycling, SlotsOK, Slot, NoSlot, Popping, Holding, HazardsOK,
        Protects
<1>1. CASE \E v \in Value : PushMalloc(t, v)
  BY <1>1 DEF PushMalloc
<1>2. CASE PushNoMemory(t)
  BY <1>2 DEF PushNoMemory
<1>3. CASE PushLoad(t)
  BY <1>3 DEF PushLoad
<1>4. CASE PushSucceed(t)
  BY <1>4 DEF PushSucceed, PushPublish
<1>5. CASE PushRetry(t)
  BY <1>5 DEF PushRetry
<1>6. CASE PopBegin(t)
  BY <1>6 DEF PopBegin, Bind
<1>7. CASE PopBeginFirst(t)
  BY <1>7 DEF PopBeginFirst
<1>8. CASE HpAcquire(t)
  BY <1>8 DEF HpAcquire, HpTake, Bind
<1>9. CASE HpTaken(t)
  BY <1>9 DEF HpTaken
<1>10. CASE HpExhausted(t)
  BY <1>10 DEF HpExhausted
<1>11. CASE PopInvalidArgument(t)
  BY <1>11 DEF PopInvalidArgument
<1>12. CASE PopLoad(t)
  BY <1>12 DEF PopLoad
<1>13. CASE PopPublish(t)
  BY <1>13 DEF PopPublish, StoreHazard
<1>14. CASE PopCrash(t)
  BY <1>14 DEF PopCrash
<1>15. CASE PopMoved(t)
  BY <1>15 DEF PopMoved
<1>16. CASE PopConfirm(t)
  BY <1>16 DEF PopConfirm
<1>17. CASE PopReadNext(t)
  BY <1>17 DEF PopReadNext, LoadNext
<1>18. CASE PopSucceed(t)
  BY <1>18 DEF PopSucceed, PopSwap
<1>19. CASE PopRetry(t)
  BY <1>19 DEF PopRetry
<1>20. CASE PopFail(t)
  BY <1>20 DEF PopFail, StoreHazard
<1>21. CASE PopTake(t)
  BY <1>21 DEF PopTake, StoreHazard
<1>22. CASE RecLoad(t)
  BY <1>22 DEF RecLoad
<1>23. CASE RecStore(t)
  BY <1>23 DEF RecStore
<1>24. CASE RecRetry(t)
  BY <1>24 DEF RecRetry
<1>25. CASE RetirePopped(t)
  BY <1>25 DEF RetirePopped, Retire, PutOnList
<1>26. CASE RetireHazard(t)
  BY <1>26 DEF RetireHazard, Retire, PutOnList, Advance
<1>27. CASE Count(t)
  BY <1>27 DEF Count, CountTo
<1>28. CASE Reset(t)
  BY <1>28 DEF Reset
<1>29. CASE GrabNothing(t)
  BY <1>29 DEF GrabNothing
<1>30. CASE Grab(t)
  BY <1>30 DEF Grab
<1>31. CASE ScanClear(t)
  BY <1>31 DEF ScanClear
<1>32. CASE ScanHazard(t)
  BY <1>32 DEF ScanHazard
<1>33. CASE ScanFree(t)
  BY <1>33 DEF ScanFree, Advance
<1>34. CASE ExitClearPointer(t)
  BY <1>34 DEF ExitClearPointer, StoreHazard
<1>35. CASE ExitClearId(t)
  BY <1>35 DEF ExitClearId
<1>36. CASE Drain(t)
  BY <1>36 DEF Drain
<1>37. CASE FreeAndInit(t)
  BY <1>37 DEF FreeAndInit, Renew, Free
<1>38. QED
  BY <1>1, <1>2, <1>3, <1>4, <1>5, <1>6, <1>7, <1>8, <1>9, <1>10, <1>11,
      <1>12, <1>13, <1>14, <1>15, <1>16, <1>17, <1>18, <1>19, <1>20, <1>21,
      <1>22, <1>23, <1>24, <1>25, <1>26, <1>27, <1>28, <1>29, <1>30, <1>31,
      <1>32, <1>33, <1>34, <1>35, <1>36, <1>37 DEF Step, Push, Pop,
      GetHazard, Reclaim, Exit

\* SafeInv is an inductive invariant of the sequentially consistent stack.
LEMMA SafeInit == Init /\ StoreBuffer = 0 => SafeInv
<1> SUFFICES ASSUME Init, StoreBuffer = 0 PROVE SafeInv
  OBVIOUS
<1>1. TypeOK
  BY TypeInit
<1>2. ListsOK
  BY DEF Init, ListsOK, Listed
<1>3. PrivateOK
  BY DEF Init, PrivateOK, Recycling
<1>4. SlotsOK
  BY DEF Init, SlotsOK, Popping, Holding
<1>5. HazardsOK
  BY DEF Init, HazardsOK, Holding
<1>6. QED
  BY <1>1, <1>2, <1>3, <1>4, <1>5 DEF SafeInv

\* Every step keeps the five parts of the invariant.
LEMMA SafeStep == StoreBuffer = 0 /\ SafeInv /\ [Next]_vars => SafeInv'
<1> SUFFICES ASSUME StoreBuffer = 0, SafeInv, [Next]_vars PROVE SafeInv'
  OBVIOUS
<1>1. CASE Next
  <2>1. PICK t \in Thread : Step(t) \/ Drain(t) \/ FreeAndInit(t)
    BY <1>1 DEF Next
  <2>2. Dereferenceable
    BY DEF SafeInv, HazardsOK, Dereferenceable
  <2>3. TypeOK'
    BY <2>1, <2>2, TypeStep DEF SafeInv
  <2>4. ListsOK' /\ PrivateOK' /\ SlotsOK' /\ HazardsOK'
    BY <2>1, ListsStep, PrivateStep, SlotsStep, HazardsStep
  <2>5. QED
    BY <2>3, <2>4 DEF SafeInv
<1>2. CASE UNCHANGED vars
  <2> USE <1>2 DEF vars, heapVars, recVars, hpVars, localVars, SafeInv
  <2>1. TypeOK'
    BY DEF TypeOK
  <2>2. ListsOK'
    BY DEF ListsOK, Listed, SameList, First
  <2>3. PrivateOK'
    BY DEF PrivateOK, Mine, First, Listed
  <2>4. SlotsOK'
    BY DEF SlotsOK
  <2>5. HazardsOK'
    BY DEF HazardsOK, Protects
  <2>. QED
    BY <2>1, <2>2, <2>3, <2>4, <2>5
<1>3. QED
  BY <1>1, <1>2

\* So it holds in every reachable state, whatever the number of threads, nodes
\* and slots.
THEOREM SafeInvariant == StoreBuffer = 0 /\ Spec => []SafeInv
<1>1. SUFFICES ASSUME StoreBuffer = 0 PROVE Spec => []SafeInv
  OBVIOUS
<1>2. QED
  BY <1>1, SafeInit, SafeStep, PTL DEF Spec

-----------------------------------------------------------------------------
\* A slot that is taken belongs to one thread, and a free one protects nothing,
\* for any number of threads and slots.
THEOREM SlotsExclusiveCorrect == StoreBuffer = 0 /\ Spec => []SlotsExclusive
<1>1. SafeInv => SlotsExclusive
  BY DEF SafeInv, SlotsOK, SlotsExclusive
<1>2. QED
  BY <1>1, SafeInvariant, PTL

\* Only a scan that has passed every slot, or stack_free, frees a node.
LEMMA FreeingStep ==
  ASSUME SafeInv, StoreBuffer = 0, NEW u \in Thread,
         Step(u) \/ Drain(u) \/ FreeAndInit(u),
         NEW n \in Node, status[n] # "free", status'[n] = "free"
  PROVE  FreeAndInit(u) \/ (ScanFree(u) /\ n = current[u])
<1> USE DEF SafeInv, TypeOK, Goto, heapVars
<1>1. CASE Push(u)
  BY <1>1 DEF Push, PushMalloc, PushNoMemory, PushLoad, PushSucceed, PushPublish, PushRetry
<1>2. CASE Pop(u)
  BY <1>2 DEF Pop, GetHazard, PopBegin, PopBeginFirst, HpAcquire, HpTake, HpTaken,
      HpExhausted, PopInvalidArgument, PopLoad, PopPublish, PopCrash, PopMoved,
      PopConfirm, PopReadNext, PopSucceed, PopSwap, PopRetry, PopFail, PopTake
<1>3. CASE Reclaim(u)
  <2>1. CASE ScanFree(u)
    BY <2>1 DEF ScanFree, Advance
  <2>2. CASE RetireHazard(u)
    BY <2>2 DEF RetireHazard, Advance
  <2>3. CASE RetirePopped(u)
    BY <2>3 DEF RetirePopped
  <2>4. CASE Grab(u)
    BY <2>4 DEF Grab
  <2>5. QED
    BY <1>3, <2>1, <2>2, <2>3, <2>4 DEF Reclaim, RecLoad, RecStore, RecRetry,
        Count, CountTo, Reset, GrabNothing, ScanClear, ScanHazard
<1>4. CASE Exit(u) \/ Drain(u)
  BY <1>4 DEF Exit, ExitClearPointer, ExitClearId, Drain
<1>5. QED
  BY <1>1, <1>2, <1>3, <1>4 DEF Step

\* The hazard pointers keep their promise: no step frees a node that a pop has
\* confirmed as its hazard and has not yet let go.
THEOREM HazardPointersProtect == StoreBuffer = 0 /\ Spec => NoFreeWhileProtected
<1> DEFINE Kept == \A n \in Node : status[n] # "free" /\ status'[n] = "free"
                     => \A t \in Thread : ~Protects(t, n)
<1>1. SUFFICES ASSUME StoreBuffer = 0 PROVE Spec => NoFreeWhileProtected
  OBVIOUS
<1>2. SafeInv /\ [Next]_vars => [Kept]_vars
  <2> SUFFICES ASSUME SafeInv, Next, NEW n \in Node, status[n] # "free",
                      status'[n] = "free", NEW t \in Thread, Protects(t, n)
               PROVE  FALSE
    OBVIOUS
  <2>1. PICK u \in Thread : Step(u) \/ Drain(u) \/ FreeAndInit(u)
    BY DEF Next
  <2>2. CASE FreeAndInit(u)
    BY <2>2 DEF FreeAndInit, Renew, Protects
  <2>3. CASE ScanFree(u) /\ n = current[u]
    <3>1. pc[u] = "Scan" /\ hp_i[u] = MaxHazard
      BY <2>3 DEF ScanFree
    <3>2. hp_i[u] <= hp[t]
      BY <2>3, <3>1 DEF SafeInv, HazardsOK
    <3>3. hp[t] \in Slot \cup {NoSlot}
      BY DEF SafeInv, TypeOK
    <3>4. QED
      BY <3>1, <3>2, <3>3, MaxHazardAssumption DEF Slot, NoSlot
  <2>4. QED
    BY <1>1, <2>1, <2>2, <2>3, FreeingStep
<1>3. QED
  BY <1>1, <1>2, SafeInvariant, PTL DEF Spec, NoFreeWhileProtected

-----------------------------------------------------------------------------
(***************************************************************************)
(* Lists.  The walk from a pointer is a recursive function, about which    *)
(* nothing is known before it is shown to exist, by induction.  What a     *)
(* walk meets is then known for every list whose nodes are known, and      *)
(* CompleteOK knows the nodes of every list of the stack.                  *)
(***************************************************************************)
LEMMA IntervalSize ==
  ASSUME NEW n \in Nat
  PROVE  Cardinality(1 .. n) = n
<1>1. Cardinality(1 .. n) = IF 1 > n THEN 0 ELSE n - 1 + 1
  BY FS_Interval
<1>. QED
  BY <1>1

\* A function on pointers can be iterated.
LEMMA PointerIteration ==
  ASSUME NEW p \in Pointer, NEW g \in [Pointer -> Pointer]
  PROVE  \E f \in [Nat -> Pointer] : f[0] = p /\ \A n \in Nat : f[n + 1] = g[f[n]]
BY Iteration

\* A walk is what its definition says.
LEMMA WalkStep ==
  ASSUME NEW nx \in [Node -> Pointer], NEW p \in Pointer
  PROVE  /\ Walk(nx, p) \in [Nat -> Pointer]
         /\ Walk(nx, p)[0] = p
         /\ \A i \in Nat : Walk(nx, p)[i + 1] = IF Walk(nx, p)[i] = NULL THEN NULL
                                                ELSE nx[Walk(nx, p)[i]]
<1>1. [q \in Pointer |-> IF q = NULL THEN NULL ELSE nx[q]] \in [Pointer -> Pointer]
  BY DEF Pointer
<1>0. PICK g \in [Pointer -> Pointer] :
        \A q \in Pointer : g[q] = IF q = NULL THEN NULL ELSE nx[q]
  BY <1>1
<1>2. PICK f \in [Nat -> Pointer] : f[0] = p /\ \A n \in Nat : f[n + 1] = g[f[n]]
  BY PointerIteration
<1> DEFINE F(a) == [i \in Nat |-> IF i = 0 THEN p
                           ELSE IF a[i - 1] = NULL THEN NULL ELSE nx[a[i - 1]]]
<1>3. f = F(f)
  <2>1. ASSUME NEW i \in Nat PROVE f[i] = F(f)[i]
    <3>1. CASE i = 0
      BY <1>2, <3>1
    <3>2. CASE i # 0
      <4>1. i - 1 \in Nat /\ f[i - 1] \in Pointer /\ (i - 1) + 1 = i
        BY <1>2, <3>2
      <4>2. f[(i - 1) + 1] = g[f[i - 1]]
        BY <1>2, <4>1
      <4>. QED
        BY <1>0, <3>2, <4>1, <4>2
    <3>. QED
      BY <1>2, <3>1, <3>2
  <2>. QED
    BY <1>2, <2>1
<1>4. Walk(nx, p) = CHOOSE a : a = F(a)
  BY DEF Walk
<1> DEFINE w == Walk(nx, p)
<1>5. w = F(w)
  <2> HIDE DEF F
  <2>. QED
    BY <1>3, <1>4
<1> HIDE DEF w
<1>6. /\ w[0] = p
      /\ \A i \in Nat : w[i + 1] = IF w[i] = NULL THEN NULL ELSE nx[w[i]]
  BY <1>5
<1>7. w \in [Nat -> Pointer]
  <2> DEFINE S == {i \in Nat : w[i] \in Pointer}
  <2>1. 0 \in S
    BY <1>6
  <2>2. ASSUME NEW i \in Nat, i \in S PROVE i + 1 \in S
    BY <1>6, <2>2 DEF Pointer
  <2> HIDE DEF S
  <2>3. Nat \subseteq S
    BY <2>1, <2>2, SetInduction
  <2>. QED
    BY <1>5, <2>3 DEF S
<1>. QED
  BY <1>6, <1>7 DEF w

\* The entries of a list, and the pointer that follows each.
LEMMA ListFacts ==
  ASSUME NEW nx, NEW p, NEW S, NEW s, IsList(s, nx, p, S)
  PROVE  /\ Len(s) \in Nat /\ DOMAIN s = 1 .. Len(s)
         /\ s \in [1 .. Len(s) -> S]
         /\ \A i \in 1 .. Len(s) : s[i] \in S
BY DEF IsList

\* A walk from the beginning of a list of nodes meets the nodes of the list.
LEMMA ListFound ==
  ASSUME NEW nx \in [Node -> Pointer], NEW p \in Pointer, NEW S \in SUBSET Node,
         NEW s, IsList(s, nx, p, S)
  PROVE  ListFrom(nx, p) = s
<1> DEFINE w == Walk(nx, p)
           U == {i \in Nat : w[i] = Entry(s, i + 1)}
           I == {i \in 1 .. Cardinality(Node) : w[i - 1] # NULL}
<1>1. /\ w[0] = p
      /\ \A i \in Nat : w[i + 1] = IF w[i] = NULL THEN NULL ELSE nx[w[i]]
  BY WalkStep
<1> HIDE DEF w
<1>2. /\ Len(s) \in Nat /\ DOMAIN s = 1 .. Len(s)
      /\ s \in [1 .. Len(s) -> S]
      /\ \A i \in 1 .. Len(s) : s[i] \in Node /\ s[i] # NULL
  BY ListFacts, NullAssumption
<1>3. \A i \in Nat : Entry(s, i + 1) = IF i < Len(s) THEN s[i + 1] ELSE NULL
  BY <1>2 DEF Entry
<1>4. 0 \in U
  BY <1>1 DEF IsList
<1>5. ASSUME NEW i \in Nat, i \in U PROVE i + 1 \in U
  <2>1. CASE i < Len(s)
    <3>1. i + 1 \in DOMAIN s /\ w[i] = s[i + 1] /\ w[i] # NULL
      BY <1>2, <1>3, <1>5, <2>1
    <3>2. nx[s[i + 1]] = Entry(s, (i + 1) + 1)
      BY <3>1 DEF IsList
    <3>. QED
      BY <1>1, <3>1, <3>2
  <2>2. CASE ~ (i < Len(s))
    <3>1. w[i] = NULL /\ Entry(s, (i + 1) + 1) = NULL
      BY <1>2, <1>3, <1>5, <2>2
    <3>. QED
      BY <1>1, <3>1
  <2>. QED
    BY <2>1, <2>2
<1>6. \A i \in Nat : w[i] = IF i < Len(s) THEN s[i + 1] ELSE NULL
  <2> HIDE DEF U
  <2>1. Nat \subseteq U
    BY <1>4, <1>5, SetInduction
  <2>. QED
    BY <1>3, <2>1 DEF U
<1>7. Cardinality(Node) \in Nat /\ Len(s) <= Cardinality(Node)
  <2>1. s \in Injection(1 .. Len(s), Node)
    BY <1>2 DEF IsList, Injection, IsInjective
  <2>2. Cardinality(1 .. Len(s)) <= Cardinality(Node)
    BY <2>1, FS_Injection, NodeAssumption
  <2>3. Cardinality(1 .. Len(s)) = Len(s)
    BY <1>2, IntervalSize
  <2>. QED
    BY <2>2, <2>3, FS_CardinalityType, NodeAssumption
<1>8. I = 1 .. Len(s)
  <2>1. ASSUME NEW i \in 1 .. Cardinality(Node)
        PROVE  w[i - 1] # NULL <=> i <= Len(s)
    <3>1. i - 1 \in Nat /\ (i - 1) + 1 = i
      BY <1>7
    <3>. QED
      BY <1>2, <1>6, <1>7, <3>1
  <2>. QED
    BY <1>2, <1>7, <2>1
<1>9. Cardinality(I) = Len(s)
  BY <1>2, <1>8, IntervalSize
<1>10. ListFrom(nx, p) = [i \in 1 .. Cardinality(I) |-> w[i - 1]]
  BY DEF ListFrom, w
<1>11. ASSUME NEW i \in 1 .. Len(s) PROVE w[i - 1] = s[i]
  <2>1. i - 1 \in Nat /\ (i - 1) + 1 = i /\ i - 1 < Len(s)
    BY <1>2
  <2>. QED
    BY <1>6, <2>1
<1> HIDE DEF I
<1>. QED
  BY <1>2, <1>9, <1>10, <1>11

\* No node, no list.
LEMMA EmptyList ==
  ASSUME NEW nx
  PROVE  IsList(<<>>, nx, NULL, {})
BY DEF IsList, Entry

\* NULL begins the empty list only.
LEMMA NullList ==
  ASSUME NEW nx, NEW S \in SUBSET Node, NEW s, IsList(s, nx, NULL, S)
  PROVE  s = <<>> /\ S = {}
<1>1. /\ Len(s) \in Nat /\ DOMAIN s = 1 .. Len(s)
      /\ \A i \in 1 .. Len(s) : s[i] \in S
  BY ListFacts
<1>2. Len(s) = 0
  BY <1>1, NullAssumption DEF IsList, Entry
<1>. QED
  BY <1>1, <1>2 DEF IsList

\* A list that does not begin with NULL begins with one of its nodes.
LEMMA HeadList ==
  ASSUME NEW nx, NEW S \in SUBSET Node, NEW p \in Node, NEW s, IsList(s, nx, p, S)
  PROVE  s # <<>> /\ Head(s) = p /\ p \in S
<1>1. /\ Len(s) \in Nat /\ DOMAIN s = 1 .. Len(s)
      /\ \A i \in 1 .. Len(s) : s[i] \in S
  BY ListFacts
<1>2. 1 \in 1 .. Len(s) /\ s[1] = p
  BY <1>1, NullAssumption DEF IsList, Entry
<1>. QED
  BY <1>1, <1>2 DEF IsList

\* A new node before the list.
LEMMA PushList ==
  ASSUME NEW nx, NEW ny, NEW S \in SUBSET Node, NEW p, NEW s, IsList(s, nx, p, S),
         NEW n \in Node \ S, ny[n] = p, \A m \in S : ny[m] = nx[m]
  PROVE  IsList(<<n>> \o s, ny, n, S \cup {n})
<1> DEFINE r == <<n>> \o s
           R == S \cup {n}
<1>1. /\ Len(s) \in Nat /\ DOMAIN s = 1 .. Len(s)
      /\ \A i \in 1 .. Len(s) : s[i] \in S
  BY ListFacts
<1>2. s \in Seq(R) /\ <<n>> \in Seq(R)
  BY DEF IsList
<1>3. /\ r \in Seq(R) /\ Len(r) = Len(s) + 1
      /\ \A i \in 1 .. Len(s) + 1 : r[i] = IF i <= 1 THEN n ELSE s[i - 1]
  BY <1>2, ConcatProperties
<1> HIDE DEF r
<1>4. DOMAIN r = 1 .. Len(s) + 1
  BY <1>3
<1>5. /\ r[1] = n
      /\ \A i \in 1 .. Len(s) : r[i + 1] = s[i]
      /\ \A i \in DOMAIN r : i # 1 => i - 1 \in DOMAIN s /\ r[i] = s[i - 1]
  BY <1>1, <1>3, <1>4
<1>6. \A m \in R : \E i \in DOMAIN r : r[i] = m
  <2>1. ASSUME NEW m \in S PROVE \E i \in DOMAIN r : r[i] = m
    <3>1. PICK i \in DOMAIN s : s[i] = m
      BY DEF IsList
    <3>2. i + 1 \in DOMAIN r /\ r[i + 1] = m
      BY <1>1, <1>4, <1>5, <3>1
    <3>. QED
      BY <3>2
  <2>2. 1 \in DOMAIN r /\ r[1] = n
    BY <1>1, <1>4, <1>5
  <2>. QED
    BY <2>1, <2>2
<1>7. ASSUME NEW i \in DOMAIN r, NEW j \in DOMAIN r, r[i] = r[j] PROVE i = j
  <2>1. CASE i # 1 /\ j # 1
    <3>1. i - 1 \in DOMAIN s /\ j - 1 \in DOMAIN s /\ s[i - 1] = s[j - 1]
      BY <1>5, <1>7, <2>1
    <3>2. i - 1 = j - 1
      BY <3>1 DEF IsList
    <3>. QED
      BY <1>1, <1>4, <3>2
  <2>2. CASE i = 1 \/ j = 1
    BY <1>1, <1>5, <1>7, <2>2
  <2>. QED
    BY <2>1, <2>2
<1>8. Entry(r, 1) = n
  BY <1>1, <1>4, <1>5 DEF Entry
<1>9. ASSUME NEW i \in DOMAIN r PROVE ny[r[i]] = Entry(r, i + 1)
  <2>1. Entry(r, i + 1) = Entry(s, i)
    BY <1>1, <1>4, <1>5 DEF Entry
  <2>2. CASE i = 1
    BY <1>5, <2>1, <2>2 DEF IsList
  <2>3. CASE i # 1
    <3>1. i - 1 \in DOMAIN s /\ r[i] = s[i - 1] /\ (i - 1) + 1 = i
      BY <1>1, <1>4, <1>5, <2>3
    <3>2. nx[s[i - 1]] = Entry(s, (i - 1) + 1)
      BY <3>1 DEF IsList
    <3>3. ny[s[i - 1]] = nx[s[i - 1]]
      BY <1>1, <3>1
    <3>. QED
      BY <2>1, <3>1, <3>2, <3>3
  <2>. QED
    BY <2>2, <2>3
<1>. QED
  BY <1>3, <1>6, <1>7, <1>8, <1>9 DEF IsList, r

\* The list without its first node.
LEMMA TailList ==
  ASSUME NEW nx, NEW ny, NEW S \in SUBSET Node, NEW p \in Node, NEW s,
         IsList(s, nx, p, S), \A m \in S \ {p} : ny[m] = nx[m]
  PROVE  IsList(Tail(s), ny, nx[p], S \ {p})
<1> DEFINE r == Tail(s)
           R == S \ {p}
<1>1. /\ Len(s) \in Nat /\ DOMAIN s = 1 .. Len(s)
      /\ \A i \in 1 .. Len(s) : s[i] \in S
  BY ListFacts
<1>2. s # <<>> /\ s \in Seq(S) /\ s[1] = p /\ 1 \in DOMAIN s
  <2>1. s # <<>>
    BY HeadList
  <2>2. 1 \in DOMAIN s /\ s[1] = p
    BY NullAssumption DEF IsList, Entry
  <2>. QED
    BY <2>1, <2>2 DEF IsList
<1>3. /\ r \in Seq(S) /\ Len(r) = Len(s) - 1
      /\ \A i \in 1 .. Len(r) : r[i] = s[i + 1]
  BY <1>2, HeadTailProperties
<1> HIDE DEF r
<1>4. /\ Len(r) \in Nat /\ DOMAIN r = 1 .. Len(r)
      /\ \A i \in DOMAIN r : i + 1 \in DOMAIN s /\ i + 1 # 1 /\ r[i] = s[i + 1]
  BY <1>1, <1>2, <1>3
<1>5. \A i \in DOMAIN r : r[i] \in R
  <2> SUFFICES ASSUME NEW i \in DOMAIN r PROVE r[i] \in R
    OBVIOUS
  <2>1. i + 1 \in DOMAIN s /\ i + 1 # 1 /\ r[i] = s[i + 1]
    BY <1>4
  <2>2. s[i + 1] # s[1]
    BY <1>2, <2>1 DEF IsList
  <2>. QED
    BY <1>1, <1>2, <2>1, <2>2
<1>6. r \in Seq(R)
  <2>1. r \in [1 .. Len(r) -> R]
    BY <1>3, <1>4, <1>5
  <2>. QED
    BY <1>4, <2>1
<1>7. \A m \in R : \E i \in DOMAIN r : r[i] = m
  <2> SUFFICES ASSUME NEW m \in R PROVE \E i \in DOMAIN r : r[i] = m
    OBVIOUS
  <2>1. PICK i \in DOMAIN s : s[i] = m
    BY DEF IsList
  <2>2. i - 1 \in DOMAIN r /\ (i - 1) + 1 = i
    BY <1>1, <1>2, <1>3, <1>4, <2>1
  <2>. QED
    BY <1>4, <2>1, <2>2
<1>8. ASSUME NEW i \in DOMAIN r, NEW j \in DOMAIN r, r[i] = r[j] PROVE i = j
  <2>1. i + 1 \in DOMAIN s /\ j + 1 \in DOMAIN s /\ s[i + 1] = s[j + 1]
    BY <1>4, <1>8
  <2>2. i + 1 = j + 1
    BY <2>1 DEF IsList
  <2>. QED
    BY <1>4, <2>2
<1>9. Entry(r, 1) = nx[p]
  <2>1. nx[p] = Entry(s, 1 + 1)
    BY <1>2 DEF IsList
  <2>. QED
    BY <1>1, <1>3, <1>4, <2>1 DEF Entry
<1>10. ASSUME NEW i \in DOMAIN r PROVE ny[r[i]] = Entry(r, i + 1)
  <2>1. nx[s[i + 1]] = Entry(s, (i + 1) + 1)
    BY <1>4 DEF IsList
  <2>2. Entry(s, (i + 1) + 1) = Entry(r, i + 1)
    BY <1>1, <1>3, <1>4 DEF Entry
  <2>. QED
    BY <1>4, <1>5, <2>1, <2>2
<1>. QED
  BY <1>6, <1>7, <1>8, <1>9, <1>10 DEF IsList, r

\* A list does not see what changes elsewhere.
LEMMA SameNodes ==
  ASSUME NEW nx, NEW ny, NEW S, NEW p, NEW s, IsList(s, nx, p, S),
         \A m \in S : ny[m] = nx[m]
  PROVE  IsList(s, ny, p, S)
<1>1. DOMAIN s = 1 .. Len(s) /\ \A i \in 1 .. Len(s) : s[i] \in S
  BY ListFacts
<1>. QED
  BY <1>1 DEF IsList

\* A list that is complete stays so, with the same nodes in the same order.
LEMMA ListKept ==
  ASSUME NEW nx \in [Node -> Pointer], NEW ny \in [Node -> Pointer],
         NEW p \in Pointer, NEW S \in SUBSET Node,
         IsList(ListFrom(nx, p), nx, p, S), \A m \in S : ny[m] = nx[m]
  PROVE  /\ IsList(ListFrom(ny, p), ny, p, S)
         /\ ListFrom(ny, p) = ListFrom(nx, p)
<1>1. IsList(ListFrom(nx, p), ny, p, S)
  BY SameNodes
<1>. QED
  BY <1>1, ListFound

\* A compare-and-swap puts n before the list from p.
LEMMA ListPushed ==
  ASSUME NEW nx \in [Node -> Pointer], NEW ny \in [Node -> Pointer],
         NEW p \in Pointer, NEW S \in SUBSET Node, NEW n \in Node \ S,
         IsList(ListFrom(nx, p), nx, p, S), ny[n] = p, \A m \in S : ny[m] = nx[m]
  PROVE  /\ IsList(ListFrom(ny, n), ny, n, S \cup {n})
         /\ ListFrom(ny, n) = <<n>> \o ListFrom(nx, p)
<1>1. IsList(<<n>> \o ListFrom(nx, p), ny, n, S \cup {n})
  BY PushList
<1>2. n \in Pointer /\ S \cup {n} \in SUBSET Node
  BY DEF Pointer
<1>. QED
  BY <1>1, <1>2, ListFound

\* The list without its first node p, whose next field may change.
LEMMA ListPopped ==
  ASSUME NEW nx \in [Node -> Pointer], NEW ny \in [Node -> Pointer],
         NEW p \in Node, NEW S \in SUBSET Node,
         IsList(ListFrom(nx, p), nx, p, S), \A m \in S \ {p} : ny[m] = nx[m]
  PROVE  /\ IsList(ListFrom(ny, nx[p]), ny, nx[p], S \ {p})
         /\ ListFrom(ny, nx[p]) = Tail(ListFrom(nx, p))
         /\ ListFrom(nx, p) # <<>> /\ Head(ListFrom(nx, p)) = p /\ p \in S
<1>1. IsList(Tail(ListFrom(nx, p)), ny, nx[p], S \ {p})
  BY TailList
<1>2. nx[p] \in Pointer /\ S \ {p} \in SUBSET Node
  OBVIOUS
<1>3. ListFrom(nx, p) # <<>> /\ Head(ListFrom(nx, p)) = p /\ p \in S
  BY HeadList
<1>. QED
  BY <1>1, <1>2, <1>3, ListFound

\* The list from NULL.
LEMMA ListOfNull ==
  ASSUME NEW nx \in [Node -> Pointer]
  PROVE  ListFrom(nx, NULL) = <<>> /\ IsList(ListFrom(nx, NULL), nx, NULL, {})
<1>1. IsList(<<>>, nx, NULL, {}) /\ NULL \in Pointer
  BY EmptyList DEF Pointer
<1>. QED
  BY <1>1, ListFound

\* The walk of stack_free meets every node of a complete list.
LEMMA ListReachable ==
  ASSUME TypeOK, NEW p \in Pointer, NEW S \in SUBSET Node, Complete(p, S)
  PROVE  S \subseteq Reachable(p)
<1> DEFINE s == Chain(p)
           U == {i \in Nat : i + 1 \in DOMAIN s => s[i + 1] \in Reachable(p)}
<1>1. /\ Len(s) \in Nat /\ DOMAIN s = 1 .. Len(s)
      /\ \A i \in 1 .. Len(s) : s[i] \in S
      /\ IsList(s, next, p, S)
  BY ListFacts DEF Complete
<1> HIDE DEF s
<1>2. 0 \in U
  <2>1. ASSUME 1 \in DOMAIN s PROVE s[1] \in Reachable(p)
    BY <1>1, <2>1, NullAssumption, ReachableClosed DEF IsList, Entry
  <2>. QED
    BY <2>1
<1>3. ASSUME NEW i \in Nat, i \in U PROVE i + 1 \in U
  <2> SUFFICES ASSUME (i + 1) + 1 \in DOMAIN s PROVE s[(i + 1) + 1] \in Reachable(p)
    OBVIOUS
  <2>1. i + 1 \in DOMAIN s /\ s[i + 1] \in Reachable(p)
    BY <1>1, <1>3
  <2>2. next[s[i + 1]] = s[(i + 1) + 1]
    BY <1>1, <2>1 DEF IsList, Entry
  <2>. QED
    BY <1>1, <2>1, <2>2, NullAssumption, ReachableClosed
<1>4. Nat \subseteq U
  <2> HIDE DEF U
  <2>. QED
    BY <1>2, <1>3, SetInduction
<1>5. ASSUME NEW n \in S PROVE n \in Reachable(p)
  <2>1. PICK i \in DOMAIN s : s[i] = n
    BY <1>1 DEF IsList
  <2>2. i - 1 \in Nat /\ (i - 1) + 1 = i
    BY <1>1
  <2>. QED
    BY <1>4, <2>1, <2>2
<1>. QED
  BY <1>5
-----------------------------------------------------------------------------
(***************************************************************************)
(* The lists stay complete.                                                *)
(***************************************************************************)
\* When all threads are idle, stack_free reaches every allocated node.
LEMMA RenewAll ==
  ASSUME StackInv, NEW t \in Thread, FreeAndInit(t)
  PROVE  \A n \in Node : status'[n] = "free"
<1>1. InStack \subseteq Reachable(head) /\ Retired \subseteq Reachable(to_reclaim)
  BY ListReachable DEF StackInv, SafeInv, TypeOK, CompleteOK, InStack, Retired
<1>2. \A u \in Thread : pc[u] = "Idle" /\ current[u] = NULL
  BY DEF FreeAndInit, Renew, StackInv, SafeInv, PrivateOK, Recycling
<1>3. \A n \in Node : status[n] \in {"free", "stack", "retired"}
  BY <1>2 DEF StackInv, SafeInv, TypeOK, Status, CompleteOK, InHandOK, Scanning, Recycling
<1>. QED
  BY <1>1, <1>3 DEF FreeAndInit, Renew, Free, InStack, Retired

\* What a step does to the nodes from head on.
LEMMA HeadStep ==
  ASSUME StackInv, StoreBuffer = 0, NEW t \in Thread,
         Step(t) \/ Drain(t) \/ FreeAndInit(t)
  PROVE  \/ PushSucceed(t) \/ PopSucceed(t) \/ FreeAndInit(t)
         \/ /\ head' = head /\ InStack' = InStack
            /\ \A n \in InStack : next'[n] = next[n] /\ data'[n] = data[n]
<1> USE NullAssumption DEF StackInv, SafeInv, TypeOK, Pointer, Goto, heapVars,
        recVars, hpVars, localVars, PrivateOK, Mine, Recycling, InStack
<1>1. CASE \E v \in Value : PushMalloc(t, v)
  BY <1>1 DEF PushMalloc
<1>2. CASE PushLoad(t)
  BY <1>2 DEF PushLoad
<1>3. CASE RecStore(t)
  BY <1>3 DEF RecStore
<1>4. CASE RecRetry(t)
  BY <1>4 DEF RecRetry
<1>5. CASE RetirePopped(t)
  BY <1>5 DEF RetirePopped, Retire, PutOnList
<1>6. CASE RetireHazard(t)
  BY <1>6 DEF RetireHazard, Retire, PutOnList, Advance
<1>7. CASE Grab(t)
  BY <1>7 DEF Grab, ListsOK
<1>8. CASE ScanFree(t)
  BY <1>8 DEF ScanFree, Advance
<1>9. CASE UNCHANGED heapVars
  BY <1>9
<1>. QED
  BY <1>1, <1>2, <1>3, <1>4, <1>5, <1>6, <1>7, <1>8, <1>9
  DEF Step, Push, Pop, GetHazard, Reclaim, Exit, PushNoMemory, PushRetry,
      PopBegin, PopBeginFirst, HpAcquire, HpTake, HpTaken, HpExhausted,
      PopInvalidArgument, PopLoad, PopPublish, PopCrash, PopMoved, PopConfirm,
      PopReadNext, PopRetry, PopFail, PopTake, RecLoad, Count, CountTo, Reset,
      GrabNothing, ScanClear, ScanHazard, ExitClearPointer, ExitClearId, Drain

\* The cell of a new node goes before the stack.
LEMMA PushEffect ==
  ASSUME StackInv, TypeOK', NEW t \in Thread, PushSucceed(t)
  PROVE  /\ Chain(head)' = <<node[t]>> \o Chain(head)
         /\ Complete(head, InStack)'
         /\ node[t] \in Node
<1> USE DEF StackInv, SafeInv
<1>1. /\ next' = next /\ head' = node[t] /\ head = next[node[t]]
      /\ Mine(t, node[t], "new")
      /\ status' = [status EXCEPT ![node[t]] = "stack"]
  BY DEF PushSucceed, PushPublish, Goto, PrivateOK
<1>2. node[t] \in Node \ InStack /\ InStack' = InStack \cup {node[t]}
  BY <1>1 DEF Mine, InStack, TypeOK
<1>3. IsList(ListFrom(next, head), next, head, InStack)
  BY DEF CompleteOK, Complete, Chain
<1>4. InStack \in SUBSET Node /\ next \in [Node -> Pointer] /\ head \in Pointer
  BY DEF InStack, TypeOK
<1>5. /\ IsList(ListFrom(next, node[t]), next, node[t], InStack \cup {node[t]})
      /\ ListFrom(next, node[t]) = <<node[t]>> \o ListFrom(next, head)
  BY <1>1, <1>2, <1>3, <1>4, ListPushed
<1>. QED
  BY <1>1, <1>2, <1>5 DEF Complete, Chain

\* The first node leaves the stack.
LEMMA PopEffect ==
  ASSUME StackInv, TypeOK', NEW t \in Thread, PopSucceed(t)
  PROVE  /\ Chain(head) # <<>> /\ Head(Chain(head)) = old_head[t]
         /\ Chain(head)' = Tail(Chain(head))
         /\ Complete(head, InStack)'
<1> USE DEF StackInv, SafeInv
<1>1. /\ next' = next /\ head' = nxt[t] /\ head = old_head[t] /\ head # NULL
      /\ status[head] = "stack" /\ nxt[t] = next[head]
      /\ status' = [status EXCEPT ![head] = "detached"]
  BY DEF PopSucceed, PopSwap, Goto, HazardsOK, ListsOK
<1>2. head \in Node /\ InStack' = InStack \ {head}
  BY <1>1 DEF InStack, TypeOK, Pointer
<1>3. IsList(ListFrom(next, head), next, head, InStack)
  BY DEF CompleteOK, Complete, Chain
<1>4. InStack \in SUBSET Node /\ next \in [Node -> Pointer]
  BY DEF InStack, TypeOK
<1>5. /\ IsList(ListFrom(next, next[head]), next, next[head], InStack \ {head})
      /\ ListFrom(next, next[head]) = Tail(ListFrom(next, head))
      /\ ListFrom(next, head) # <<>> /\ Head(ListFrom(next, head)) = head
  BY <1>2, <1>3, <1>4, ListPopped
<1>. QED
  BY <1>1, <1>2, <1>5 DEF Complete, Chain

\* Everything is freed.
LEMMA RenewEffect ==
  ASSUME StackInv, TypeOK', NEW t \in Thread, FreeAndInit(t)
  PROVE  /\ Chain(head)' = <<>>
         /\ Complete(head, InStack)' /\ Complete(to_reclaim, Retired)'
         /\ \A u \in Thread : ~ Scanning(u)'
         /\ InHandOK'
<1>1. \A n \in Node : status'[n] = "free"
  BY RenewAll
<1>2. head' = NULL /\ to_reclaim' = NULL
  BY DEF FreeAndInit, Renew
<1>3. InStack' = {} /\ Retired' = {} /\ InHandOK'
  BY <1>1 DEF InStack, Retired, InHandOK
<1>4. \A u \in Thread : pc'[u] = "Idle"
  BY DEF FreeAndInit, Renew
<1>5. /\ ListFrom(next', NULL) = <<>>
      /\ IsList(ListFrom(next', NULL), next', NULL, {})
  BY ListOfNull DEF TypeOK
<1>. QED
  BY <1>2, <1>3, <1>4, <1>5 DEF Complete, Chain, Scanning, Recycling

\* The nodes from head on: the whole of the stack.
LEMMA StackComplete ==
  ASSUME StackInv, TypeOK', StoreBuffer = 0, NEW t \in Thread,
         Step(t) \/ Drain(t) \/ FreeAndInit(t)
  PROVE  Complete(head, InStack)'
<1>1. CASE /\ head' = head /\ InStack' = InStack
           /\ \A n \in InStack : next'[n] = next[n]
  <2>1. /\ InStack \in SUBSET Node /\ head \in Pointer
        /\ next \in [Node -> Pointer] /\ next' \in [Node -> Pointer]
    BY DEF InStack, StackInv, SafeInv, TypeOK
  <2>2. IsList(ListFrom(next, head), next, head, InStack)
    BY DEF StackInv, CompleteOK, Complete, Chain
  <2>3. IsList(ListFrom(next', head), next', head, InStack)
    BY <1>1, <2>1, <2>2, ListKept
  <2>. QED
    BY <1>1, <2>3 DEF Complete, Chain
<1>. QED
  BY <1>1, HeadStep, PushEffect, PopEffect, RenewEffect

\* What a step does to the nodes from to_reclaim on.
LEMMA ReclaimStep ==
  ASSUME StackInv, StoreBuffer = 0, NEW t \in Thread,
         Step(t) \/ Drain(t) \/ FreeAndInit(t)
  PROVE  \/ RetirePopped(t) \/ RetireHazard(t) \/ Grab(t) \/ FreeAndInit(t)
         \/ /\ to_reclaim' = to_reclaim /\ Retired' = Retired
            /\ \A n \in Retired : next'[n] = next[n]
<1> USE NullAssumption DEF StackInv, SafeInv, TypeOK, Pointer, Goto, heapVars,
        recVars, hpVars, localVars, PrivateOK, Mine, Recycling, Retired
<1>1. CASE \E v \in Value : PushMalloc(t, v)
  BY <1>1 DEF PushMalloc
<1>2. CASE PushLoad(t)
  BY <1>2 DEF PushLoad
<1>3. CASE RecStore(t)
  BY <1>3 DEF RecStore
<1>4. CASE RecRetry(t)
  BY <1>4 DEF RecRetry
<1>5. CASE PushSucceed(t)
  BY <1>5 DEF PushSucceed, PushPublish
<1>6. CASE PopSucceed(t)
  BY <1>6 DEF PopSucceed, PopSwap, HazardsOK, ListsOK
<1>7. CASE ScanFree(t)
  BY <1>7 DEF ScanFree, Advance
<1>8. CASE UNCHANGED <<next, status, to_reclaim>>
  BY <1>8
<1>. QED
  BY <1>1, <1>2, <1>3, <1>4, <1>5, <1>6, <1>7, <1>8
  DEF Step, Push, Pop, GetHazard, Reclaim, Exit, PushNoMemory, PushRetry,
      PopBegin, PopBeginFirst, HpAcquire, HpTake, HpTaken, HpExhausted,
      PopInvalidArgument, PopLoad, PopPublish, PopCrash, PopMoved, PopConfirm,
      PopReadNext, PopRetry, PopFail, PopTake, RecLoad, Count, CountTo, Reset,
      GrabNothing, ScanClear, ScanHazard, ExitClearPointer, ExitClearId, Drain

\* A node that was popped, or was found to be a hazard, goes before the others.
LEMMA RetireEffect ==
  ASSUME StackInv, TypeOK', NEW t \in Thread, RetirePopped(t) \/ RetireHazard(t)
  PROVE  Complete(to_reclaim, Retired)'
<1> USE DEF StackInv, SafeInv
<1>1. /\ next' = next /\ to_reclaim' = node[t] /\ to_reclaim = next[node[t]]
      /\ pc[t] = "RecCas"
  BY DEF RetirePopped, RetireHazard, Retire, PutOnList, Goto
<1>2. Mine(t, node[t], "detached")
  BY <1>1 DEF PrivateOK, Recycling
<1>3. node[t] \in Node \ Retired
  BY <1>2 DEF Mine, Retired
<1>4. Retired' = Retired \cup {node[t]}
  <2>1. CASE RetirePopped(t)
    BY <1>3, <2>1 DEF RetirePopped, Retired, TypeOK
  <2>2. CASE RetireHazard(t)
    <3>1. nxt[t] # NULL => Mine(t, nxt[t], "grabbed")
      BY <1>1, <2>2 DEF RetireHazard, PrivateOK, Recycling
    <3>. QED
      BY <1>2, <1>3, <2>2, <3>1 DEF RetireHazard, Advance, Retired, Mine, TypeOK
  <2>. QED
    BY <2>1, <2>2
<1>5. IsList(ListFrom(next, to_reclaim), next, to_reclaim, Retired)
  BY DEF CompleteOK, Complete, Chain
<1>6. Retired \in SUBSET Node /\ next \in [Node -> Pointer] /\ to_reclaim \in Pointer
  BY DEF Retired, TypeOK
<1>7. IsList(ListFrom(next, node[t]), next, node[t], Retired \cup {node[t]})
  BY <1>1, <1>3, <1>5, <1>6, ListPushed
<1>. QED
  BY <1>1, <1>4, <1>7 DEF Complete, Chain

\* The list is taken: its first node in hand, the others grabbed.
LEMMA GrabEffect ==
  ASSUME StackInv, TypeOK', NEW t \in Thread, Grab(t)
  PROVE  /\ Complete(to_reclaim, Retired)'
         /\ Complete(nxt[t], Grabbed(t))'
<1> USE DEF StackInv, SafeInv
<1>1. /\ next' = next /\ to_reclaim' = NULL /\ to_reclaim # NULL
      /\ nxt'[t] = next[to_reclaim] /\ pc[t] = "Grab"
  BY DEF Grab, Goto, TypeOK
<1>2. to_reclaim \in Node /\ status[to_reclaim] = "retired"
  BY <1>1 DEF TypeOK, Pointer, ListsOK
<1>3. IsList(ListFrom(next, to_reclaim), next, to_reclaim, Retired)
  BY DEF CompleteOK, Complete, Chain
<1>4. Retired \in SUBSET Node /\ next \in [Node -> Pointer]
  BY DEF Retired, TypeOK
<1>5. IsList(ListFrom(next, next[to_reclaim]), next, next[to_reclaim],
             Retired \ {to_reclaim})
  BY <1>2, <1>3, <1>4, ListPopped
<1>6. Grabbed(t) = {}
  <2>1. ~ Scanning(t)
    BY <1>1 DEF Scanning, Recycling
  <2>. QED
    BY <2>1 DEF Grabbed, CompleteOK, InHandOK
<1>7. Grabbed(t)' = Retired \ {to_reclaim}
  BY <1>6 DEF Grab, Grabbed, Retired
<1>8. Retired' = {}
  BY <1>2 DEF Grab, Retired
<1>9. IsList(ListFrom(next, NULL), next, NULL, {})
  BY <1>4, ListOfNull
<1>. QED
  BY <1>1, <1>5, <1>7, <1>8, <1>9 DEF Complete, Chain

\* The nodes from to_reclaim on: all that wait for reclamation.
LEMMA ReclaimComplete ==
  ASSUME StackInv, TypeOK', StoreBuffer = 0, NEW t \in Thread,
         Step(t) \/ Drain(t) \/ FreeAndInit(t)
  PROVE  Complete(to_reclaim, Retired)'
<1>1. CASE /\ to_reclaim' = to_reclaim /\ Retired' = Retired
           /\ \A n \in Retired : next'[n] = next[n]
  <2>1. /\ Retired \in SUBSET Node /\ to_reclaim \in Pointer
        /\ next \in [Node -> Pointer] /\ next' \in [Node -> Pointer]
    BY DEF Retired, StackInv, SafeInv, TypeOK
  <2>2. IsList(ListFrom(next, to_reclaim), next, to_reclaim, Retired)
    BY DEF StackInv, CompleteOK, Complete, Chain
  <2>3. IsList(ListFrom(next', to_reclaim), next', to_reclaim, Retired)
    BY <1>1, <2>1, <2>2, ListKept
  <2>. QED
    BY <1>1, <2>3 DEF Complete, Chain
<1>. QED
  BY <1>1, ReclaimStep, RetireEffect, GrabEffect, RenewEffect

\* What a step of t does to the nodes that the scan of u has still to visit.
LEMMA GrabbedStep ==
  ASSUME StackInv, StoreBuffer = 0, NEW t \in Thread, NEW u \in Thread,
         Step(t) \/ Drain(t) \/ FreeAndInit(t), Scanning(u)'
  PROVE  \/ Grab(t) /\ u = t
         \/ (RetireHazard(t) \/ ScanFree(t)) /\ u = t
         \/ FreeAndInit(t)
         \/ /\ Scanning(u) /\ nxt'[u] = nxt[u] /\ Grabbed(u)' = Grabbed(u)
            /\ \A n \in Grabbed(u) : next'[n] = next[n]
<1> USE NullAssumption DEF StackInv, SafeInv, TypeOK, Pointer, Goto, heapVars,
        recVars, hpVars, localVars, PrivateOK, Mine, Recycling, Scanning, Grabbed
<1>1. CASE \E v \in Value : PushMalloc(t, v)
  BY <1>1 DEF PushMalloc
<1>2. CASE PushLoad(t)
  BY <1>2 DEF PushLoad
<1>3. CASE PushSucceed(t)
  BY <1>3 DEF PushSucceed, PushPublish
<1>4. CASE PopReadNext(t)
  BY <1>4 DEF PopReadNext
<1>5. CASE PopSucceed(t)
  BY <1>5 DEF PopSucceed, PopSwap, HazardsOK, ListsOK
<1>6. CASE PopRetry(t)
  BY <1>6 DEF PopRetry
<1>7. CASE PopTake(t)
  BY <1>7 DEF PopTake
<1>8. CASE RecStore(t)
  BY <1>8 DEF RecStore
<1>9. CASE RecRetry(t)
  BY <1>9 DEF RecRetry
<1>10. CASE RetirePopped(t)
  BY <1>10 DEF RetirePopped, Retire, PutOnList
<1>11. CASE RetireHazard(t) /\ u # t
  BY <1>11 DEF RetireHazard, Retire, PutOnList, Advance
<1>12. CASE Grab(t) /\ u # t
  BY <1>12 DEF Grab, ListsOK
<1>13. CASE ScanFree(t) /\ u # t
  BY <1>13 DEF ScanFree, Advance
<1>14. CASE ScanHazard(t)
  BY <1>14 DEF ScanHazard
<1>15. CASE /\ UNCHANGED <<next, status, owner, nxt, current>>
            /\ Scanning(u)' => Scanning(u)
  BY <1>15
<1>16. CASE Push(t)
  BY <1>1, <1>2, <1>3, <1>15, <1>16 DEF Push, PushNoMemory, PushRetry
<1>17. CASE GetHazard(t)
  BY <1>15, <1>17
  DEF GetHazard, PopBegin, PopBeginFirst, HpAcquire, HpTake, HpTaken, HpExhausted
<1>18. CASE Pop(t)
  BY <1>4, <1>5, <1>6, <1>7, <1>15, <1>17, <1>18
  DEF Pop, PopInvalidArgument, PopLoad, PopPublish, PopCrash, PopMoved,
      PopConfirm, PopFail
<1>19. CASE Reclaim(t)
  BY <1>8, <1>9, <1>10, <1>11, <1>12, <1>13, <1>14, <1>15, <1>19
  DEF Reclaim, RecLoad, Count, CountTo, Reset, GrabNothing, ScanClear
<1>20. CASE Exit(t) \/ Drain(t)
  BY <1>15, <1>20 DEF Exit, ExitClearPointer, ExitClearId, Drain
<1>. QED
  BY <1>16, <1>18, <1>19, <1>20 DEF Step

\* The scan goes on to the next node.
LEMMA AdvanceEffect ==
  ASSUME StackInv, TypeOK', NEW t \in Thread, RetireHazard(t) \/ ScanFree(t),
         Scanning(t)'
  PROVE  Complete(nxt[t], Grabbed(t))'
<1> DEFINE c == nxt[t]
<1> USE DEF StackInv, SafeInv
<1>1. pc[t] \in Recycling \cup {"Scan"} /\ current[t] # NULL
  BY NullAssumption DEF RetireHazard, ScanFree, PrivateOK, Mine, Recycling
<1>2. c # NULL /\ nxt'[t] = next[c]
  BY DEF RetireHazard, ScanFree, Advance, Scanning, Recycling, TypeOK
<1>3. Mine(t, c, "grabbed") /\ c \in Node
  BY <1>1, <1>2 DEF PrivateOK, Mine
<1>4. IsList(ListFrom(next, c), next, c, Grabbed(t))
  BY <1>1 DEF CompleteOK, Complete, Chain, Scanning
<1>5. Grabbed(t)' = Grabbed(t) \ {c}
  <2>1. CASE RetireHazard(t)
    <3>1. Mine(t, node[t], "detached")
      BY <2>1 DEF RetireHazard, PrivateOK, Recycling
    <3>. QED
      BY <1>2, <1>3, <2>1, <3>1
      DEF RetireHazard, Retire, PutOnList, Advance, Grabbed, Mine, TypeOK
  <2>2. CASE ScanFree(t)
    <3>1. Mine(t, current[t], "detached")
      BY <2>2 DEF ScanFree, PrivateOK
    <3>. QED
      BY <1>2, <1>3, <2>2, <3>1 DEF ScanFree, Advance, Grabbed, Mine, TypeOK
  <2>. QED
    BY <2>1, <2>2
<1>6. \A n \in Grabbed(t) : next'[n] = next[n]
  <2>1. CASE RetireHazard(t)
    BY <2>1 DEF RetireHazard, Retire, PutOnList
  <2>2. CASE ScanFree(t)
    BY <2>2 DEF ScanFree, PrivateOK, Mine, Grabbed, TypeOK
  <2>. QED
    BY <2>1, <2>2
<1>7. /\ Grabbed(t) \in SUBSET Node
      /\ next \in [Node -> Pointer] /\ next' \in [Node -> Pointer]
  BY DEF Grabbed, TypeOK
<1>8. IsList(ListFrom(next', next[c]), next', next[c], Grabbed(t) \ {c})
  <2> HIDE DEF c
  <2>. QED
    BY <1>3, <1>4, <1>6, <1>7, ListPopped
<1>. QED
  BY <1>2, <1>5, <1>8 DEF Complete, Chain

\* The nodes a scan has still to visit.
LEMMA GrabbedComplete ==
  ASSUME StackInv, TypeOK', StoreBuffer = 0, NEW t \in Thread, NEW u \in Thread,
         Step(t) \/ Drain(t) \/ FreeAndInit(t), Scanning(u)'
  PROVE  Complete(nxt[u], Grabbed(u))'
<1>1. CASE /\ Scanning(u) /\ nxt'[u] = nxt[u] /\ Grabbed(u)' = Grabbed(u)
           /\ \A n \in Grabbed(u) : next'[n] = next[n]
  <2>1. /\ Grabbed(u) \in SUBSET Node /\ nxt[u] \in Pointer
        /\ next \in [Node -> Pointer] /\ next' \in [Node -> Pointer]
    BY DEF Grabbed, StackInv, SafeInv, TypeOK
  <2>2. IsList(ListFrom(next, nxt[u]), next, nxt[u], Grabbed(u))
    BY <1>1 DEF StackInv, CompleteOK, Complete, Chain
  <2>3. IsList(ListFrom(next', nxt[u]), next', nxt[u], Grabbed(u))
    BY <1>1, <2>1, <2>2, ListKept
  <2>. QED
    BY <1>1, <2>3 DEF Complete, Chain
<1>2. CASE Grab(t) /\ u = t
  BY <1>2, GrabEffect
<1>3. CASE (RetireHazard(t) \/ ScanFree(t)) /\ u = t
  BY <1>3, AdvanceEffect
<1>4. CASE FreeAndInit(t)
  BY <1>4, RenewEffect
<1>. QED
  BY <1>1, <1>2, <1>3, <1>4, GrabbedStep

\* A scan ends when every node it grabbed has been visited.
LEMMA ScanEnds ==
  ASSUME StackInv, NEW t \in Thread, Scanning(t), nxt[t] = NULL
  PROVE  Grabbed(t) = {}
BY NullList DEF StackInv, CompleteOK, Complete, Grabbed

\* A node outside the lists stays in the hands of its owner.
LEMMA InHandStep ==
  ASSUME StackInv, TypeOK', StoreBuffer = 0, NEW t \in Thread,
         Step(t) \/ Drain(t) \/ FreeAndInit(t)
  PROVE  InHandOK'
<1>0. Scanning(t) /\ nxt[t] = NULL => Grabbed(t) = {}
  BY ScanEnds
<1> USE NullAssumption DEF StackInv, SafeInv, TypeOK, Pointer, Goto, heapVars,
        recVars, hpVars, localVars, ListsOK, PrivateOK, Mine, Recycling,
        CompleteOK, InHandOK, Scanning
<1>1. CASE \E v \in Value : PushMalloc(t, v)
  BY <1>1 DEF PushMalloc
<1>2. CASE PushNoMemory(t)
  BY <1>2 DEF PushNoMemory
<1>3. CASE PushLoad(t)
  BY <1>3 DEF PushLoad
<1>4. CASE PushSucceed(t)
  BY <1>4 DEF PushSucceed, PushPublish
<1>5. CASE PushRetry(t)
  BY <1>5 DEF PushRetry
<1>6. CASE GetHazard(t)
  <2>1. CASE PopBegin(t)
    BY <2>1 DEF PopBegin
  <2>2. CASE PopBeginFirst(t)
    BY <2>2 DEF PopBeginFirst
  <2>3. CASE HpAcquire(t)
    BY <2>3 DEF HpAcquire, HpTake
  <2>4. CASE HpTaken(t)
    BY <2>4 DEF HpTaken
  <2>5. CASE HpExhausted(t)
    BY <2>5 DEF HpExhausted
  <2>. QED
    BY <1>6, <2>1, <2>2, <2>3, <2>4, <2>5 DEF GetHazard
<1>7. CASE PopInvalidArgument(t)
  BY <1>7 DEF PopInvalidArgument
<1>8. CASE PopLoad(t)
  BY <1>8 DEF PopLoad
<1>9. CASE PopPublish(t)
  BY <1>9 DEF PopPublish
<1>10. CASE PopCrash(t)
  BY <1>10 DEF PopCrash
<1>11. CASE PopMoved(t)
  BY <1>11 DEF PopMoved
<1>12. CASE PopConfirm(t)
  BY <1>12 DEF PopConfirm
<1>13. CASE PopReadNext(t)
  BY <1>13 DEF PopReadNext
<1>14. CASE PopSucceed(t)
  BY <1>14 DEF PopSucceed, PopSwap, HazardsOK
<1>15. CASE PopRetry(t)
  BY <1>15 DEF PopRetry
<1>16. CASE PopFail(t)
  BY <1>16 DEF PopFail
<1>17. CASE PopTake(t)
  BY <1>17 DEF PopTake
<1>18. CASE RecLoad(t)
  BY <1>18 DEF RecLoad
<1>19. CASE RecStore(t)
  BY <1>19 DEF RecStore
<1>20. CASE RecRetry(t)
  BY <1>20 DEF RecRetry
<1>21. CASE RetirePopped(t)
  BY <1>21 DEF RetirePopped, Retire, PutOnList
<1>22. CASE RetireHazard(t)
  <2>1. \A n \in Node : status[n] = "grabbed" /\ owner[n] = t => nxt[t] # NULL
    BY <1>0, <1>22 DEF RetireHazard, Grabbed
  <2>. QED
    BY <1>22, <2>1 DEF RetireHazard, Retire, PutOnList, Advance
<1>23. CASE Count(t)
  BY <1>23 DEF Count, CountTo
<1>24. CASE Reset(t)
  BY <1>24 DEF Reset
<1>25. CASE GrabNothing(t)
  BY <1>25 DEF GrabNothing
<1>26. CASE Grab(t)
  BY <1>26 DEF Grab
<1>27. CASE ScanClear(t)
  BY <1>27 DEF ScanClear
<1>28. CASE ScanHazard(t)
  BY <1>28 DEF ScanHazard
<1>29. CASE ScanFree(t)
  <2>1. \A n \in Node : status[n] = "grabbed" /\ owner[n] = t => nxt[t] # NULL
    BY <1>0, <1>29 DEF ScanFree, Grabbed
  <2>. QED
    BY <1>29, <2>1 DEF ScanFree, Advance
<1>30. CASE Exit(t)
  <2>1. CASE ExitClearPointer(t)
    BY <2>1 DEF ExitClearPointer
  <2>2. CASE ExitClearId(t)
    BY <2>2 DEF ExitClearId
  <2>. QED
    BY <1>30, <2>1, <2>2 DEF Exit
<1>31. CASE Drain(t)
  BY <1>31 DEF Drain
<1>32. CASE FreeAndInit(t)
  BY <1>32, RenewEffect
<1>. QED
  BY <1>1, <1>2, <1>3, <1>4, <1>5, <1>6, <1>7, <1>8, <1>9, <1>10, <1>11,
     <1>12, <1>13, <1>14, <1>15, <1>16, <1>17, <1>18, <1>19, <1>20,
     <1>21, <1>22, <1>23, <1>24, <1>25, <1>26, <1>27, <1>28, <1>29,
     <1>30, <1>31, <1>32
  DEF Step, Push, Pop, Reclaim

\* So the lists are complete, as long as memory is sequentially consistent.
LEMMA CompleteInit == Init /\ StoreBuffer = 0 => StackInv
<1> SUFFICES ASSUME Init, StoreBuffer = 0 PROVE StackInv
  OBVIOUS
<1>1. SafeInv
  BY SafeInit
<1>2. next \in [Node -> Pointer]
  BY <1>1 DEF SafeInv, TypeOK
<1>3. IsList(ListFrom(next, NULL), next, NULL, {})
  BY <1>2, ListOfNull
<1>4. head = NULL /\ to_reclaim = NULL /\ InStack = {} /\ Retired = {}
  BY DEF Init, InStack, Retired
<1>5. \A t \in Thread : ~ Scanning(t)
  BY DEF Init, Scanning, Recycling
<1>6. InHandOK
  BY DEF Init, InHandOK
<1>. QED
  BY <1>1, <1>3, <1>4, <1>5, <1>6 DEF StackInv, CompleteOK, Complete, Chain

LEMMA CompleteStep == StoreBuffer = 0 /\ StackInv /\ [Next]_vars => StackInv'
<1> SUFFICES ASSUME StoreBuffer = 0, StackInv, [Next]_vars PROVE StackInv'
  OBVIOUS
<1>1. SafeInv'
  BY SafeStep DEF StackInv
<1>2. CASE Next
  <2>1. PICK t \in Thread : Step(t) \/ Drain(t) \/ FreeAndInit(t)
    BY <1>2 DEF Next
  <2>2. TypeOK'
    BY <1>1 DEF SafeInv
  <2>3. Complete(head, InStack)' /\ Complete(to_reclaim, Retired)' /\ InHandOK'
    BY <2>1, <2>2, StackComplete, ReclaimComplete, InHandStep
  <2>4. ASSUME NEW u \in Thread, Scanning(u)' PROVE Complete(nxt[u], Grabbed(u))'
    BY <2>1, <2>2, <2>4, GrabbedComplete
  <2>. QED
    BY <1>1, <2>3, <2>4 DEF StackInv, CompleteOK
<1>3. CASE UNCHANGED vars
  <2> USE <1>3 DEF vars, heapVars, recVars, hpVars, localVars
  <2>1. InHandOK'
    BY DEF StackInv, CompleteOK, InHandOK, Scanning
  <2>2. Complete(head, InStack)' /\ Complete(to_reclaim, Retired)'
    BY DEF StackInv, CompleteOK, Complete, Chain, InStack, Retired
  <2>3. ASSUME NEW u \in Thread, Scanning(u)' PROVE Complete(nxt[u], Grabbed(u))'
    BY <2>3 DEF StackInv, CompleteOK, Complete, Chain, Grabbed, Scanning
  <2>. QED
    BY <1>1, <2>1, <2>2, <2>3 DEF StackInv, CompleteOK
<1>. QED
  BY <1>2, <1>3

\* No step of a push, of a pop, of a reclamation or of stack_free loses a node,
\* for any number of threads, nodes and slots.
THEOREM StackInvariant == StoreBuffer = 0 /\ Spec => []StackInv
<1>1. SUFFICES ASSUME StoreBuffer = 0 PROVE Spec => []StackInv
  OBVIOUS
<1>. QED
  BY <1>1, CompleteInit, CompleteStep, PTL DEF Spec
-----------------------------------------------------------------------------
(***************************************************************************)
(* No node is lost.                                                        *)
(***************************************************************************)
\* A complete list has its nodes as entries, and as many entries as nodes.
LEMMA CompleteSize ==
  ASSUME NEW p, NEW S \in SUBSET Node, Complete(p, S)
  PROVE  InChain(p) = S /\ Len(Chain(p)) = Cardinality(S)
<1> DEFINE s == Chain(p)
<1>1. /\ Len(s) \in Nat /\ DOMAIN s = 1 .. Len(s)
      /\ s \in [1 .. Len(s) -> S]
      /\ IsList(s, next, p, S)
  BY ListFacts DEF Complete
<1> HIDE DEF s
<1>2. {s[i] : i \in DOMAIN s} = S
  BY <1>1 DEF IsList
<1>3. s \in Bijection(1 .. Len(s), S)
  BY <1>1 DEF IsList, Bijection, Injection, IsInjective, Surjection
<1>4. Cardinality(S) = Len(s)
  BY <1>1, <1>3, FS_CountingElements DEF ExistsBijection
<1>. QED
  BY <1>2, <1>4 DEF InChain, s

\* Between operations every allocated node is in exactly one of the two lists
\* that stack_free walks, for any number of threads, nodes and slots.
THEOREM NothingLeaks == StoreBuffer = 0 /\ Spec => []NothingLeaked
<1>1. StackInv => NothingLeaked
  <2> SUFFICES ASSUME StackInv, Quiescent
      PROVE  /\ InChain(head) \cap InChain(to_reclaim) = {}
             /\ InChain(head) \cup InChain(to_reclaim)
                  = {n \in Node : status[n] # "free"}
             /\ Len(Chain(head)) + Len(Chain(to_reclaim))
                  = Cardinality({n \in Node : status[n] # "free"})
    BY DEF NothingLeaked
  <2>1. InStack \in SUBSET Node /\ Retired \in SUBSET Node /\ InStack \cap Retired = {}
    BY DEF InStack, Retired
  <2>2. /\ InChain(head) = InStack /\ Len(Chain(head)) = Cardinality(InStack)
        /\ InChain(to_reclaim) = Retired
        /\ Len(Chain(to_reclaim)) = Cardinality(Retired)
    BY <2>1, CompleteSize DEF StackInv, CompleteOK
  <2>3. ASSUME NEW n \in Node PROVE status[n] \in {"free", "stack", "retired"}
    BY DEF StackInv, SafeInv, TypeOK, Status, CompleteOK, InHandOK, Quiescent,
           Scanning, Recycling
  <2>4. InStack \cup Retired = {n \in Node : status[n] # "free"}
    BY <2>3 DEF InStack, Retired
  <2>5. IsFiniteSet(InStack) /\ IsFiniteSet(Retired)
    BY <2>1, FS_Subset, NodeAssumption
  <2>6. Cardinality(InStack \cup Retired) = Cardinality(InStack) + Cardinality(Retired)
    <3>1. Cardinality(InStack \cap Retired) = 0
      BY <2>1, FS_EmptySet
    <3>2. Cardinality(InStack) \in Nat /\ Cardinality(Retired) \in Nat
      BY <2>5, FS_CardinalityType
    <3>3. Cardinality(InStack \cup Retired)
            = Cardinality(InStack) + Cardinality(Retired) - Cardinality(InStack \cap Retired)
      BY <2>5, FS_Union
    <3>. QED
      BY <3>1, <3>2, <3>3
  <2>. QED
    BY <2>1, <2>2, <2>4, <2>6
<1>. QED
  BY <1>1, StackInvariant, PTL
-----------------------------------------------------------------------------
(***************************************************************************)
(* The refinement.                                                         *)
(***************************************************************************)
\* The values of a list of nodes.
Values(d, s) == [i \in 1 .. Len(s) |-> d[s[i]]]

LEMMA ValuesPush ==
  ASSUME NEW d, NEW n \in Node, NEW s \in Seq(Node)
  PROVE  Values(d, <<n>> \o s) = <<d[n]>> \o Values(d, s)
<1> DEFINE r == <<n>> \o s
           V == {d[m] : m \in Node}
           v == Values(d, s)
           c == <<d[n]>> \o v
<1>1. Len(s) \in Nat /\ DOMAIN s = 1 .. Len(s)
  OBVIOUS
<1>2. /\ r \in Seq(Node) /\ Len(r) = Len(s) + 1
      /\ \A i \in 1 .. Len(s) + 1 : r[i] = IF i <= 1 THEN n ELSE s[i - 1]
  BY ConcatProperties
<1>3. v \in Seq(V) /\ Len(v) = Len(s) /\ <<d[n]>> \in Seq(V)
  BY <1>1 DEF Values
<1>4. /\ c \in Seq(V) /\ Len(c) = Len(s) + 1
      /\ \A i \in 1 .. Len(s) + 1 : c[i] = IF i <= 1 THEN d[n] ELSE v[i - 1]
  BY <1>3, ConcatProperties
<1>5. DOMAIN c = 1 .. Len(s) + 1 /\ DOMAIN Values(d, r) = 1 .. Len(s) + 1
  BY <1>2, <1>4 DEF Values
<1>6. ASSUME NEW i \in 1 .. Len(s) + 1 PROVE Values(d, r)[i] = c[i]
  <2>1. Values(d, r)[i] = d[r[i]]
    BY <1>2 DEF Values
  <2>2. i > 1 => v[i - 1] = d[s[i - 1]]
    BY <1>1 DEF Values
  <2>. QED
    BY <1>1, <1>2, <1>4, <2>1, <2>2
<1>7. c = [i \in 1 .. Len(s) + 1 |-> c[i]]
  <2> HIDE DEF c, V
  <2>1. c \in [1 .. Len(c) -> V]
    BY <1>4
  <2>. QED
    BY <1>4, <2>1
<1>8. Values(d, r) = [i \in 1 .. Len(s) + 1 |-> Values(d, r)[i]]
  BY <1>2 DEF Values
<1> HIDE DEF c, r
<1>9. Values(d, r) = c
  BY <1>6, <1>7, <1>8
<1>. QED
  BY <1>9 DEF c, r

LEMMA ValuesPop ==
  ASSUME NEW d, NEW s \in Seq(Node), s # <<>>
  PROVE  /\ Values(d, s) # <<>>
         /\ Head(Values(d, s)) = d[Head(s)]
         /\ Values(d, Tail(s)) = Tail(Values(d, s))
<1> DEFINE V == {d[m] : m \in Node}
           v == Values(d, s)
<1>1. Len(s) \in Nat /\ DOMAIN s = 1 .. Len(s) /\ Len(s) # 0
  OBVIOUS
<1>2. v \in Seq(V) /\ Len(v) = Len(s) /\ v # <<>> /\ \A i \in 1 .. Len(s) : v[i] = d[s[i]]
  BY <1>1 DEF Values
<1>3. /\ Tail(s) \in Seq(Node) /\ Len(Tail(s)) = Len(s) - 1
      /\ \A i \in 1 .. Len(Tail(s)) : Tail(s)[i] = s[i + 1]
  BY HeadTailProperties
<1>4. /\ Tail(v) \in Seq(V) /\ Len(Tail(v)) = Len(s) - 1
      /\ \A i \in 1 .. Len(Tail(v)) : Tail(v)[i] = v[i + 1]
  BY <1>2, HeadTailProperties
<1>5. Head(v) = d[Head(s)]
  BY <1>1, <1>2
<1>6. ASSUME NEW i \in 1 .. Len(s) - 1 PROVE Values(d, Tail(s))[i] = Tail(v)[i]
  <2>1. Values(d, Tail(s))[i] = d[s[i + 1]]
    BY <1>1, <1>3 DEF Values
  <2>2. i + 1 \in 1 .. Len(s)
    BY <1>1
  <2>. QED
    BY <1>2, <1>4, <2>1, <2>2
<1> HIDE DEF v
<1>7. Tail(v) = [i \in 1 .. Len(s) - 1 |-> Tail(v)[i]]
  <2> DEFINE w == Tail(v)
  <2>1. w \in Seq(V) /\ Len(w) = Len(s) - 1
    BY <1>4
  <2> HIDE DEF w, V
  <2>2. w \in [1 .. Len(w) -> V]
    BY <2>1
  <2>3. w = [i \in 1 .. Len(s) - 1 |-> w[i]]
    BY <2>1, <2>2
  <2>. QED
    BY <2>3 DEF w
<1>8. Values(d, Tail(s)) = Tail(v)
  <2>1. Values(d, Tail(s)) = [i \in 1 .. Len(s) - 1 |-> Values(d, Tail(s))[i]]
    BY <1>3 DEF Values
  <2>. QED
    BY <1>6, <1>7, <2>1
<1>. QED
  BY <1>2, <1>5, <1>8 DEF v

\* A step that does not change the stack leaves its contents.
LEMMA ContentsStep ==
  ASSUME StackInv, TypeOK', StoreBuffer = 0, NEW t \in Thread,
         Step(t) \/ Drain(t) \/ FreeAndInit(t)
  PROVE  PushSucceed(t) \/ PopSucceed(t) \/ FreeAndInit(t) \/ Contents' = Contents
<1> SUFFICES ASSUME head' = head, InStack' = InStack,
                    \A n \in InStack : next'[n] = next[n] /\ data'[n] = data[n]
             PROVE  Contents' = Contents
  BY HeadStep
<1>1. /\ InStack \in SUBSET Node /\ head \in Pointer
      /\ next \in [Node -> Pointer] /\ next' \in [Node -> Pointer]
  BY DEF InStack, StackInv, SafeInv, TypeOK
<1>2. IsList(ListFrom(next, head), next, head, InStack)
  BY DEF StackInv, CompleteOK, Complete, Chain
<1>3. ListFrom(next', head) = ListFrom(next, head)
  BY <1>1, <1>2, ListKept
<1>4. Chain(head)' = Chain(head)
  BY <1>3 DEF Chain
<1>5. \A i \in 1 .. Len(Chain(head)) : Chain(head)[i] \in InStack
  BY <1>2, ListFacts DEF Chain
<1>. QED
  BY <1>4, <1>5 DEF Contents

\* A thread's outcome changes when its compare-and-swap succeeds, and when it
\* finds the head NULL again.
LEMMA OutcomeStep ==
  ASSUME StackInv, StoreBuffer = 0, NEW t \in Thread, NEW u \in Thread,
         Step(t) \/ Drain(t) \/ FreeAndInit(t)
  PROVE  \/ PopSucceed(t) /\ u = t
         \/ PopConfirm(t) /\ head = NULL /\ u = t
         \/ Outcome(u)' = Outcome(u)
<1> USE NullAssumption DEF StackInv, SafeInv, TypeOK, Pointer, Goto, heapVars,
        recVars, hpVars, localVars, PrivateOK, Mine, Recycling, Outcome
<1>1. CASE \E v \in Value : PushMalloc(t, v)
  BY <1>1 DEF PushMalloc
<1>2. CASE PushLoad(t)
  BY <1>2 DEF PushLoad
<1>3. CASE PushSucceed(t)
  BY <1>3 DEF PushSucceed, PushPublish
<1>4. CASE PushRetry(t) \/ PushNoMemory(t)
  BY <1>4 DEF PushRetry, PushNoMemory
<1>5. CASE PopBegin(t) \/ PopBeginFirst(t) \/ HpAcquire(t)
  BY <1>5 DEF PopBegin, PopBeginFirst, HpAcquire, HpTake
<1>6. CASE HpTaken(t) \/ HpExhausted(t) \/ PopInvalidArgument(t)
  BY <1>6 DEF HpTaken, HpExhausted, PopInvalidArgument
<1>7. CASE PopLoad(t)
  BY <1>7 DEF PopLoad
<1>8. CASE PopPublish(t) \/ PopCrash(t)
  BY <1>8 DEF PopPublish, PopCrash
<1>9. CASE PopMoved(t)
  BY <1>9 DEF PopMoved
<1>10. CASE PopConfirm(t) /\ ~ (head = NULL /\ u = t)
  BY <1>10 DEF PopConfirm
<1>11. CASE PopReadNext(t)
  BY <1>11 DEF PopReadNext
<1>12. CASE PopSucceed(t) /\ u # t
  BY <1>12 DEF PopSucceed, PopSwap
<1>13. CASE PopRetry(t)
  BY <1>13 DEF PopRetry
<1>14. CASE PopFail(t)
  BY <1>14 DEF PopFail
<1>15. CASE PopTake(t)
  BY <1>15 DEF PopTake
<1>16. CASE RecLoad(t) \/ RecStore(t) \/ RecRetry(t)
  BY <1>16 DEF RecLoad, RecStore, RecRetry
<1>17. CASE RetirePopped(t)
  BY <1>17 DEF RetirePopped, Retire, PutOnList
<1>18. CASE RetireHazard(t)
  BY <1>18 DEF RetireHazard, Retire, PutOnList, Advance
<1>19. CASE Count(t) \/ Reset(t) \/ GrabNothing(t)
  BY <1>19 DEF Count, CountTo, Reset, GrabNothing
<1>20. CASE Grab(t)
  BY <1>20 DEF Grab
<1>21. CASE ScanClear(t) \/ ScanHazard(t)
  BY <1>21 DEF ScanClear, ScanHazard
<1>22. CASE ScanFree(t)
  BY <1>22 DEF ScanFree, Advance
<1>23. CASE ExitClearPointer(t) \/ ExitClearId(t) \/ Drain(t)
  BY <1>23 DEF ExitClearPointer, ExitClearId, Drain
<1>24. CASE FreeAndInit(t)
  BY <1>24 DEF FreeAndInit, Renew, Free
<1>. QED
  BY <1>1, <1>2, <1>3, <1>4, <1>5, <1>6, <1>7, <1>8, <1>9, <1>10, <1>11, <1>12,
     <1>13, <1>14, <1>15, <1>16, <1>17, <1>18, <1>19, <1>20, <1>21, <1>22,
     <1>23, <1>24 DEF Step, Push, Pop, GetHazard, Reclaim, Exit

Outcomes == [u \in Thread |-> Outcome(u)]

\* The compare-and-swap of a push is the push of the atomic stack.
LEMMA PushRefines ==
  ASSUME StackInv, TypeOK', StoreBuffer = 0, NEW t \in Thread, PushSucceed(t)
  PROVE  \E v \in Value : Contents' = <<v>> \o Contents /\ Outcomes' = Outcomes
<1>1. Chain(head)' = <<node[t]>> \o Chain(head) /\ node[t] \in Node
  BY PushEffect
<1>2. Chain(head) \in Seq(Node)
  <2>1. IsList(Chain(head), next, head, InStack) /\ InStack \in SUBSET Node
    BY DEF StackInv, CompleteOK, Complete, InStack
  <2>. QED
    BY <2>1 DEF IsList
<1>3. Contents = Values(data, Chain(head)) /\ Contents' = Values(data', Chain(head)')
  BY DEF Contents, Values
<1>4. data' = data
  BY DEF PushSucceed, PushPublish
<1>5. Contents' = <<data[node[t]]>> \o Contents
  BY <1>1, <1>2, <1>3, <1>4, ValuesPush
<1>6. data[node[t]] \in Value
  BY <1>1 DEF StackInv, SafeInv, TypeOK
<1>7. \A u \in Thread : Outcome(u)' = Outcome(u)
  <2>1. pc[t] = "PushCas"
    BY DEF PushSucceed, PushPublish, Goto
  <2>. QED
    BY <2>1, OutcomeStep DEF Step, Push, PopSucceed, PopSwap, PopConfirm, Goto
<1>. QED
  BY <1>5, <1>6, <1>7 DEF Outcomes

\* The compare-and-swap of a pop is its pop.
LEMMA PopRefines ==
  ASSUME StackInv, TypeOK', StoreBuffer = 0, NEW t \in Thread, PopSucceed(t)
  PROVE  /\ Contents # <<>> /\ Contents' = Tail(Contents)
         /\ Outcomes' = [Outcomes EXCEPT ![t] = Head(Contents)]
<1>1. /\ Chain(head) # <<>> /\ Head(Chain(head)) = old_head[t]
      /\ Chain(head)' = Tail(Chain(head))
  BY PopEffect
<1>2. Chain(head) \in Seq(Node)
  <2>1. IsList(Chain(head), next, head, InStack) /\ InStack \in SUBSET Node
    BY DEF StackInv, CompleteOK, Complete, InStack
  <2>. QED
    BY <2>1 DEF IsList
<1>3. Contents = Values(data, Chain(head)) /\ Contents' = Values(data', Chain(head)')
  BY DEF Contents, Values
<1>4. data' = data /\ pc'[t] = "PopClear" /\ old_head'[t] = old_head[t]
  BY DEF PopSucceed, PopSwap, Goto, StackInv, SafeInv, TypeOK
<1>5. /\ Contents # <<>> /\ Contents' = Tail(Contents)
      /\ Head(Contents) = data[old_head[t]]
  BY <1>1, <1>2, <1>3, <1>4, ValuesPop
<1>6. Outcome(t)' = data[old_head[t]]
  <2>1. old_head[t] # NULL
    BY DEF PopSucceed, PopSwap, Goto, StackInv, SafeInv, HazardsOK
  <2>. QED
    BY <1>4, <2>1 DEF Outcome
<1>7. \A u \in Thread : u # t => Outcome(u)' = Outcome(u)
  BY OutcomeStep DEF Step, Pop
<1>. QED
  BY <1>5, <1>6, <1>7 DEF Outcomes

\* The second load of a NULL head finds the stack empty.
LEMMA EmptyRefines ==
  ASSUME StackInv, StoreBuffer = 0, NEW t \in Thread, PopConfirm(t), head = NULL
  PROVE  /\ Contents = <<>> /\ Contents' = Contents
         /\ Outcomes' = [Outcomes EXCEPT ![t] = Empty]
<1>1. Contents = <<>>
  <2>1. next \in [Node -> Pointer]
    BY DEF StackInv, SafeInv, TypeOK
  <2>2. Chain(head) = <<>>
    BY <2>1, ListOfNull DEF Chain
  <2>. QED
    BY <2>2 DEF Contents
<1>2. Contents' = Contents
  BY DEF PopConfirm, heapVars, Contents, Chain
<1>3. Outcome(t)' = Empty
  BY DEF PopConfirm, Goto, localVars, Outcome, StackInv, SafeInv, TypeOK
<1>4. \A u \in Thread : u # t => Outcome(u)' = Outcome(u)
  BY OutcomeStep DEF Step, Pop
<1>. QED
  BY <1>1, <1>2, <1>3, <1>4 DEF Outcomes

\* Every step of the code is a step of the atomic stack, or none.
LEMMA RefinementStep ==
  StoreBuffer = 0 /\ StackInv /\ StackInv' /\ [Next]_vars
    => [Abstract!Next]_(Abstract!vars)
<1> SUFFICES ASSUME StoreBuffer = 0, StackInv, StackInv', [Next]_vars
             PROVE  [Abstract!Next]_(Abstract!vars)
  OBVIOUS
<1>1. TypeOK'
  BY DEF StackInv, SafeInv
<1>2. CASE Next
  <2>1. PICK t \in Thread : Step(t) \/ Drain(t) \/ FreeAndInit(t)
    BY <1>2 DEF Next
  <2>2. CASE PushSucceed(t)
    <3>1. \E v \in Value : Abstract!Push(v)
      BY <1>1, <2>2, PushRefines DEF Abstract!Push, Outcomes
    <3>. QED
      BY <3>1 DEF Abstract!Next
  <2>3. CASE PopSucceed(t)
    <3>1. Abstract!Pop(t)
      BY <1>1, <2>3, PopRefines DEF Abstract!Pop, Outcomes
    <3>. QED
      BY <3>1 DEF Abstract!Next
  <2>4. CASE PopConfirm(t) /\ head = NULL
    <3>1. Abstract!PopEmpty(t)
      BY <2>4, EmptyRefines DEF Abstract!PopEmpty, Outcomes
    <3>. QED
      BY <3>1 DEF Abstract!Next
  <2>5. CASE FreeAndInit(t)
    <3>1. Contents' = <<>>
      BY <1>1, <2>5, RenewEffect DEF Contents
    <3>2. \A u \in Thread : Outcome(u)' = Outcome(u)
      BY <2>5, OutcomeStep DEF FreeAndInit, Renew, PopSucceed, PopSwap, PopConfirm, Goto
    <3>3. Abstract!Renew
      BY <3>1, <3>2 DEF Abstract!Renew
    <3>. QED
      BY <3>3 DEF Abstract!Next
  <2>6. CASE ~ (PushSucceed(t) \/ PopSucceed(t) \/ FreeAndInit(t)
                  \/ (PopConfirm(t) /\ head = NULL))
    <3>1. Contents' = Contents
      BY <1>1, <2>1, <2>6, ContentsStep
    <3>2. \A u \in Thread : Outcome(u)' = Outcome(u)
      BY <2>1, <2>6, OutcomeStep
    <3>. QED
      BY <3>1, <3>2 DEF Abstract!vars
  <2>. QED
    BY <2>2, <2>3, <2>4, <2>5, <2>6
<1>3. CASE UNCHANGED vars
  <2>1. Contents' = Contents /\ \A u \in Thread : Outcome(u)' = Outcome(u)
    BY <1>3 DEF vars, heapVars, localVars, Contents, Chain, Outcome
  <2>. QED
    BY <2>1 DEF Abstract!vars
<1>. QED
  BY <1>2, <1>3

\* The stack without a lock is an atomic stack: under sequential consistency no
\* value is lost, popped twice or popped out of order, for any number of threads,
\* nodes and slots, though nodes are freed and used again.
THEOREM StackLinearizable == StoreBuffer = 0 /\ Spec => Linearizable
<1>1. SUFFICES ASSUME StoreBuffer = 0 PROVE Spec => Linearizable
  OBVIOUS
<1>2. Init => Abstract!Init
  <2> SUFFICES ASSUME Init PROVE Abstract!Init
    OBVIOUS
  <2>1. StackInv
    BY <1>1, CompleteInit
  <2>2. next \in [Node -> Pointer] /\ head = NULL
    BY <2>1 DEF Init, StackInv, SafeInv, TypeOK
  <2>3. Contents = <<>>
    BY <2>2, ListOfNull DEF Contents, Chain
  <2>4. \A u \in Thread : Outcome(u) = Nothing
    BY DEF Init, Outcome
  <2>. QED
    BY <2>3, <2>4 DEF Abstract!Init
<1>. QED
  BY <1>1, <1>2, RefinementStep, StackInvariant, PTL DEF Spec, Linearizable, Abstract!Spec
=============================================================================
