----------------------------- MODULE MCSkipList -----------------------------
\* Two threads, two keys and two values: both threads remove the key 1.
EXTENDS SkipList

CONSTANTS Left, Right  \* the threads

Insert(k, v) == [op |-> "insert", key |-> k, val |-> v]
Remove(k)    == [op |-> "remove", key |-> k, val |-> Absent]
Find(k)      == [op |-> "search", key |-> k, val |-> Absent]

CallsOf == [t \in Thread |->
  IF t = Left THEN {Insert(1, "v"), Remove(1)}
  ELSE {Insert(2, "v"), Insert(2, "w"), Remove(1), Find(1)}]
=============================================================================
