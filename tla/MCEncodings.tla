----------------------------- MODULE MCEncodings -----------------------------
(***************************************************************************)
(* What becomes of the data when it is written down: the bytes of messages *)
(* (MessageCodec), the records of the log (BatchLogFile), numbers that are *)
(* too short for a long run (ShortIds), and the numbers of the ports       *)
(* (Ports).  The four share no state, so that their interleavings would    *)
(* show nothing more; a behaviour of this module is one of one of them,    *)
(* and part says of which.                                                 *)
(***************************************************************************)
EXTENDS MessageCodec, BatchLogFile, ShortIds, Ports

CONSTANTS m, s1, s2

VARIABLE part  \* "messages", "file", "ids", "ports"

(* A write with a key above one byte, a read with an id beyond the signed  *)
(* shorts, and the finish request: init_tx sets every field to -1.         *)
Tx(r, c, id, type, key) ==
  [replica_id |-> r, client_id |-> c, id |-> id, type |-> type, key |-> key,
   value |-> -1]
MCTxs == {Tx(1, 0, 0, 1, 300), Tx(6, 9, 40000, 0, 5), Tx(-1, -1, 65535, 3, -1)}
MCAckIds == {255, 256, 32767}
MCEpochs == {0, 300}
MCReplicaIds == {6}

allVars == <<part, vars, fileVars, idsVars, portsVars>>

(* The messages, when it is not their turn, begin in one way.              *)
EncodingsInit ==
  /\ part \in {"messages", "file", "ids", "ports"}
  /\ Init /\ FileInit /\ IdsInit /\ PortsInit
  /\ part # "messages" => link = "batch" /\ send_msg[0] = 0 /\ recv_msg[0] = 0

EncodingsNext ==
  /\ UNCHANGED part
  /\ \/ /\ part = "messages" /\ Next
        /\ UNCHANGED <<fileVars, idsVars, portsVars>>
     \/ /\ part = "file" /\ FileNext
        /\ UNCHANGED <<vars, idsVars, portsVars>>
     \/ /\ part = "ids" /\ IdsNext
        /\ UNCHANGED <<vars, fileVars, portsVars>>
     \/ /\ part = "ports" /\ PortsNext
        /\ UNCHANGED <<vars, fileVars, idsVars>>

EncodingsSpec == EncodingsInit /\ [][EncodingsNext]_allVars

=============================================================================
