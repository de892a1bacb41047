---------------------------- MODULE AbstractMap ----------------------------
(***************************************************************************)
(* What a skip list promises (lab4/SkipList.h): a map from keys to values  *)
(* that threads insert into, remove from and search.  An insertion or a    *)
(* removal takes effect once, in one step between its start and its end,   *)
(* or fails without an effect.  A search reports what the map held for its *)
(* key at some moment of the call.                                         *)
(***************************************************************************)
CONSTANTS
  Thread, Key, Value,
  Absent,    \* what the map holds for a key that is not in it
  Success,   \* result of an insertion or a removal that returned 0
  Failure    \* result of an insertion that returned -1

VARIABLES
  map,       \* the contents
  call       \* the call of each thread, with the results it may return now

vars == <<map, call>>

Idle == [op |-> "none"]

Init ==
  /\ map = [k \in Key |-> Absent]
  /\ call = [t \in Thread |-> Idle]

Become(t, c) == call' = [call EXCEPT ![t] = c]

\* A call for key k, which wants the map to hold w.
Begin(t, o, k, w, rs) ==
  /\ call[t] = Idle
  /\ Become(t, [op |-> o, key |-> k, val |-> w, results |-> rs])
  /\ UNCHANGED map

\* The call of t takes effect, and every search for its key may see it.
TakeEffect(t) ==
  /\ call[t].op \in {"insert", "remove"}
  /\ Success \notin call[t].results
  /\ call' = [u \in Thread |->
       CASE u = t -> [call[t] EXCEPT !.results = {Success}]
         [] call[u].op = "search" /\ call[u].key = call[t].key
              -> [call[u] EXCEPT !.results = @ \cup {call[t].val}]
         [] OTHER -> call[u]]
  /\ map' = [map EXCEPT ![call[t].key] = call[t].val]

\* A search settles what it reports.
Report(t) ==
  /\ call[t].op = "search"
  /\ \E r \in call[t].results :
       Become(t, [call[t] EXCEPT !.op = "report", !.results = {r}])
  /\ UNCHANGED map

Return(t) ==
  /\ call[t].op \in {"insert", "remove", "report"}
  /\ call[t].results # {}
  /\ Become(t, Idle)
  /\ UNCHANGED map

Next == \E t \in Thread :
  \/ \E k \in Key : \/ \E v \in Value : Begin(t, "insert", k, v, {Failure})
                    \/ Begin(t, "remove", k, Absent, {})
                    \/ Begin(t, "search", k, Absent, {map[k]})
  \/ TakeEffect(t) \/ Report(t) \/ Return(t)

Spec == Init /\ [][Next]_vars
=============================================================================
