------------------------------ MODULE FifoQueue ------------------------------
(***************************************************************************)
(* What a buffer between threads promises: each item that is added is      *)
(* taken by one thread, once, in the order of the additions; a thread is   *)
(* told that there is none only when there is none; what is left when the  *)
(* threads have ended is thrown away with the buffer.                      *)
(* LinkedQueue is shown to implement this.                                 *)
(***************************************************************************)
EXTENDS Naturals, Sequences

CONSTANTS
  Producers,  \* the threads that add
  Consumers,  \* the threads that take
  NULL        \* the answer that there is no item

VARIABLES
  queue,  \* the items added and not yet taken
  added,  \* added[p]: how many items p has added
  result, \* result[c]: what c got the last time it looked, an item or NULL
  closed  \* all threads have ended

vars == <<queue, added, result, closed>>

Init ==
  /\ queue = <<>>
  /\ added = [p \in Producers |-> 0]
  /\ result = [c \in Consumers |-> NULL]
  /\ closed = FALSE

(* The n-th item of p is <<p, n>>. *)
Add(p) ==
  /\ ~closed
  /\ added' = [added EXCEPT ![p] = @ + 1]
  /\ queue' = Append(queue, <<p, added[p] + 1>>)
  /\ UNCHANGED <<result, closed>>

Take(c) ==
  /\ ~closed /\ queue # <<>>
  /\ result' = [result EXCEPT ![c] = Head(queue)]
  /\ queue' = Tail(queue)
  /\ UNCHANGED <<added, closed>>

FindNothing(c) ==
  /\ ~closed /\ queue = <<>>
  /\ result' = [result EXCEPT ![c] = NULL]
  /\ UNCHANGED <<queue, added, closed>>

Close ==
  /\ closed' = TRUE
  /\ UNCHANGED <<queue, added, result>>

Discard ==
  /\ closed /\ queue # <<>>
  /\ queue' = Tail(queue)
  /\ UNCHANGED <<added, result, closed>>

Next ==
  \/ \E p \in Producers : Add(p)
  \/ \E c \in Consumers : Take(c) \/ FindNothing(c)
  \/ Close \/ Discard

Spec == Init /\ [][Next]_vars
=============================================================================
