--------------------------- MODULE AbstractStack ---------------------------
(***************************************************************************)
(* What a linearizable stack of lab3 promises its callers (Stack.h): push  *)
(* and pop each take effect in one step, a pop returns the value pushed    *)
(* last, and reports emptiness only when the stack is empty.               *)
(* The stack of module Stack is shown to implement this module.            *)
(***************************************************************************)
EXTENDS Sequences

CONSTANTS
  Thread,  \* the threads that call the stack
  Value,   \* the values of Data_t that are pushed
  Nothing, \* outcome of a thread that has not popped yet
  Empty    \* outcome of a pop that returned -1: no element

VARIABLES
  stk,     \* the values in the stack, the top first
  out      \* out[t]: the outcome of the last pop of thread t

vars == <<stk, out>>

Outcome == Value \cup {Nothing, Empty}

Init ==
  /\ stk = <<>>
  /\ out = [t \in Thread |-> Nothing]

\* stack_push returned 0: v is the new top.
Push(v) ==
  /\ stk' = <<v>> \o stk
  /\ UNCHANGED out

\* stack_pop returned 0: the top value is handed to t.
Pop(t) ==
  /\ stk # <<>>
  /\ out' = [out EXCEPT ![t] = Head(stk)]
  /\ stk' = Tail(stk)

\* stack_pop returned -1 with NO_ELEMENT.
PopEmpty(t) ==
  /\ stk = <<>>
  /\ out' = [out EXCEPT ![t] = Empty]
  /\ UNCHANGED stk

\* stack_free, then stack_init of the next stack.
Renew ==
  /\ stk' = <<>>
  /\ UNCHANGED out

Next ==
  \/ \E v \in Value : Push(v)
  \/ \E t \in Thread : Pop(t) \/ PopEmpty(t)
  \/ Renew

Spec == Init /\ [][Next]_vars
=============================================================================
