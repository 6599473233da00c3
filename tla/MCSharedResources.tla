-------------------------- MODULE MCSharedResources --------------------------
(***************************************************************************)
(* What threads and processes share: under a mutex the records of the      *)
(* storage (Storage) and the lists of batches and transactions             *)
(* (LinkedQueue), and the connections of a slave with its clients          *)
(* (ClientConnections).  A thread uses one of them at a time, and they     *)
(* have no state in common, so that they do not meet; a behaviour of this  *)
(* module is one of one of them, and part says of which.                   *)
(***************************************************************************)
EXTENDS Storage, LinkedQueue, ClientConnections

CONSTANTS w1, w2, r1, p1, p2, c1, n1, n2

VARIABLE part  \* "storage", "queue", "connections"

allVars == <<part, storageVars, vars, connectionVars>>

(* The parts, when it is not their turn, begin in one way.  The first      *)
(* client program is either, a later one client_time.                      *)
SharedInit ==
  /\ part \in {"storage", "queue", "connections"}
  /\ StorageInit /\ Init /\ ConnectionsInit
  /\ part # "storage" => \A t \in Callers : key[t] = 0
  /\ part # "connections" => program[1] = "client_time"
  /\ \A r \in 2 .. Runs : program[r] = "client_time"

SharedNext ==
  /\ UNCHANGED part
  /\ \/ /\ part = "storage" /\ StorageNext
        /\ UNCHANGED <<vars, connectionVars>>
     \/ /\ part = "queue" /\ Next
        /\ UNCHANGED <<storageVars, connectionVars>>
     \/ /\ part = "connections" /\ ConnectionsNext
        /\ UNCHANGED <<storageVars, vars>>

SharedSpec ==
  /\ SharedInit /\ [][SharedNext]_allVars
  /\ (part = "queue") => Fairness
  /\ (part = "connections") => ConnectionsFairness
=============================================================================
