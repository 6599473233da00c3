------------------------------ MODULE BatchLog ------------------------------
(***************************************************************************)
(* What the log of determined batches promises: the records are the        *)
(* batches in epoch order, the same on every replica, and a replica sends  *)
(* from its log nothing but batches of it.  BatchLogFile is shown to       *)
(* implement this.                                                         *)
(***************************************************************************)
EXTENDS Naturals, Sequences

CONSTANTS
  Replicas,
  Master,
  Sizes     \* how long the message of a batch may be

VARIABLES
  log,  \* log[r]: the batches in the log of replica r
  sent  \* sent[r]: the batches replica r has sent from its log

vars == <<log, sent>>

Init ==
  /\ log = [r \in Replicas |-> <<>>]
  /\ sent = [r \in Replicas |-> {}]

(* The master determines the next batch. *)
Determine ==
  /\ \E n \in Sizes :
       log' = [log EXCEPT
                 ![Master] = Append(@, [epoch_id |-> Len(@), size |-> n])]
  /\ UNCHANGED sent

(* A slave logs the batch of the next epoch. *)
Follow(r) ==
  /\ r # Master /\ Len(log[r]) < Len(log[Master])
  /\ log' = [log EXCEPT ![r] = Append(@, log[Master][Len(@) + 1])]
  /\ UNCHANGED sent

Send(r) ==
  /\ \E i \in 1 .. Len(log[r]) :
       sent' = [sent EXCEPT ![r] = @ \cup {log[r][i]}]
  /\ UNCHANGED log

Next == Determine \/ \E r \in Replicas : Follow(r) \/ Send(r)

Spec == Init /\ [][Next]_vars
=============================================================================
