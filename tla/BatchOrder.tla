----------------------------- MODULE BatchOrder -----------------------------
(***************************************************************************)
(* What batch replication promises, without saying how: the master         *)
(* determines one sequence of batches, numbered by epoch from 0, and every *)
(* replica hands those same batches to its write scheduler in epoch order, *)
(* each exactly once.  BatchReplication is shown to implement this.        *)
(***************************************************************************)
EXTENDS Naturals, Sequences

CONSTANTS
  Replicas,  \* the master and the slaves
  TxSets     \* what a batch may contain

VARIABLES
  determined,  \* the batches determined so far, in epoch order
  handed       \* handed[r]: the batches replica r gave its write scheduler

vars == <<determined, handed>>

Init ==
  /\ determined = <<>>
  /\ handed = [r \in Replicas |-> <<>>]

(* A batch is closed; its epoch is its position in the sequence. *)
Determine ==
  /\ \E txs \in TxSets :
       determined' = Append(determined,
                            [epoch_id |-> Len(determined), tx_set |-> txs])
  /\ UNCHANGED handed

(* Replica r receives the first batch it does not have yet. *)
HandOver(r) ==
  /\ Len(handed[r]) < Len(determined)
  /\ handed' = [handed EXCEPT ![r] = Append(@, determined[Len(@) + 1])]
  /\ UNCHANGED determined

Next == Determine \/ \E r \in Replicas : HandOver(r)

Spec == Init /\ [][Next]_vars

(* No replica is left behind for ever. *)
FairSpec == Spec /\ \A r \in Replicas : WF_vars(HandOver(r))
=============================================================================
