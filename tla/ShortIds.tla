------------------------------- MODULE ShortIds -------------------------------
(***************************************************************************)
(* The integers that are too short for a long run.                         *)
(*                                                                         *)
(*   tx/transaction.h:23          id of a Tx, an unsigned short            *)
(*   utils/message.c:293-313      id of an ACK_ADD, a short that becomes   *)
(*                                an int                                   *)
(*   master/master_sequencer.c:267, 337   recieved_tx_id, an int           *)
(*   batch/batch.h:12, utils/log.c:54     epoch_id of a Batch, a short,    *)
(*                                and the offset in the log made from it   *)
(*                                                                         *)
(* A short has the values -HALF .. HALF-1, an unsigned short 0 .. 2*HALF-1 *)
(* (HALF is 32768 in the program).  The model follows one client, its      *)
(* thread in the client interface, the master's thread for it and the      *)
(* epoch thread; replication and the write scheduler of the slave hand it  *)
(* the determined batches in order.  Requests are numbered by the client's *)
(* own int, which the properties can tell from the id.                     *)
(***************************************************************************)
EXTENDS Integers, Sequences

CONSTANTS
  HALF,         \* half the values of a short
  MaxRequests,  \* bound: how many requests the client makes
  MaxBatches    \* bound: how many batches the epoch thread closes

ASSUME HalfAssumption == HALF \in Nat \ {0}
ASSUME RequestsAssumption == MaxRequests \in Nat /\ MaxBatches \in Nat

VARIABLES
  requests,        \* how many requests the client has made
  thread_pc,       \* "receive", "request_write", "wait_flag"
  tx_id,           \* the id in the thread's Tx
  complete_flag,
  addNet,          \* ADD_TO_BATCH_MESSAGEs: the id, and the request it is for
  ackAddNet,       \* the ids in the ACK_ADD_MESSAGEs
  recieved_tx_id,
  batch,           \* the requests in the open batch
  epoch,           \* current_epoch_id
  log,             \* the records at the offsets written to
  determined,      \* the determined batches
  exited,          \* exit(1) has ended the process of the master
  executed,        \* how many batches the slave has executed
  acknowledged     \* history: the requests whose ACK the thread has taken

clientVars == <<requests, thread_pc, tx_id, complete_flag, acknowledged>>
netVars    == <<addNet, ackAddNet>>
masterVars == <<recieved_tx_id, batch, epoch, log, determined, exited>>
idsVars == <<clientVars, netVars, masterVars, executed>>

(* What is left of n in an unsigned short, and in a short.                 *)
Unsigned(n) == n % (2 * HALF)
Short(n) == IF Unsigned(n) < HALF THEN Unsigned(n) ELSE Unsigned(n) - 2 * HALF

IdsInit ==
  /\ requests = 0 /\ thread_pc = "receive" /\ tx_id = 0 /\ complete_flag = 0
  /\ addNet = {} /\ ackAddNet = {}
  /\ recieved_tx_id = -1
  /\ batch = {} /\ epoch = 0 /\ log = <<>> /\ determined = <<>>
  /\ exited = FALSE
  /\ executed = 0
  /\ acknowledged = {}

-----------------------------------------------------------------------------
(* The client's int as it arrives in the unsigned id of the thread's Tx.   *)
TxId(n) == Unsigned(n)

AddMsg == [id |-> tx_id, request |-> requests - 1]

RequestWrite ==
  /\ thread_pc = "receive" /\ requests < MaxRequests
  /\ requests' = requests + 1
  /\ tx_id' = TxId(requests)
  /\ complete_flag' = 0
  /\ thread_pc' = "request_write"
  /\ addNet' = addNet \cup {AddMsg'}
  /\ UNCHANGED <<acknowledged, ackAddNet, masterVars, executed>>

(* A read takes an id of the client, too; the read scheduler answers it.   *)
RequestRead ==
  /\ thread_pc = "receive" /\ requests < MaxRequests
  /\ requests' = requests + 1
  /\ tx_id' = TxId(requests)
  /\ complete_flag' = 1
  /\ thread_pc' = "wait_flag"
  /\ UNCHANGED <<acknowledged, netVars, masterVars, executed>>

(* The RTO has passed.  The same datagram again changes nothing in the     *)
(* set of those that may arrive; the thread stays where it is.             *)
ResendAdd ==
  /\ thread_pc = "request_write"
  /\ addNet' = addNet \cup {AddMsg}
  /\ UNCHANGED <<clientVars, ackAddNet, masterVars, executed>>

(* The id of the ACK, a short, and the id of the transaction, an unsigned  *)
(* short, are compared as ints.                                            *)
RecvAckAdd ==
  /\ thread_pc = "request_write"
  /\ \E id \in ackAddNet : id = tx_id
  /\ thread_pc' = "wait_flag"
  /\ acknowledged' = acknowledged \cup {requests - 1}
  /\ UNCHANGED <<requests, tx_id, complete_flag, netVars, masterVars, executed>>

Respond ==
  /\ thread_pc = "wait_flag" /\ complete_flag = 1
  /\ thread_pc' = "receive"
  /\ UNCHANGED <<requests, tx_id, complete_flag, acknowledged, netVars,
                 masterVars, executed>>

-----------------------------------------------------------------------------
RecvAdd(m) ==
  /\ ~exited
  /\ m \in addNet
  /\ ackAddNet' = ackAddNet \cup {Short(m.id)}
  /\ IF m.id <= recieved_tx_id
       THEN UNCHANGED <<recieved_tx_id, batch>>
       ELSE /\ recieved_tx_id' = m.id
            /\ batch' = batch \cup {m.request}
  /\ UNCHANGED <<clientVars, addNet, epoch, log, determined, exited, executed>>

(* Mutant: the epoch id of a Batch is unsigned. *)
LogOffsetUnsigned(e) == Unsigned(e)

(* The offset of the record, in records.                                   *)
LogOffset(e) == Short(e)

(* The epoch thread; lseek refuses a negative offset, and append_log exits *)
(* then.                                                                   *)
CloseEpoch ==
  /\ ~exited /\ epoch < MaxBatches
  /\ batch' = {}
  /\ epoch' = epoch + 1
  /\ IF LogOffset(epoch) < 0
       THEN exited' = TRUE /\ UNCHANGED <<log, determined>>
       ELSE /\ determined' = Append(determined, batch)
            /\ log' = [o \in (DOMAIN log) \cup {LogOffset(epoch)} |->
                         IF o = LogOffset(epoch) THEN batch ELSE log[o]]
            /\ UNCHANGED exited
  /\ UNCHANGED <<clientVars, netVars, recieved_tx_id, executed>>

(* The slave's write scheduler: the flag of the Tx goes up if a            *)
(* transaction of this client is in the batch.                             *)
ExecuteBatch ==
  /\ executed < Len(determined)
  /\ executed' = executed + 1
  /\ complete_flag' = IF determined[executed + 1] = {} THEN complete_flag ELSE 1
  /\ UNCHANGED <<requests, thread_pc, tx_id, acknowledged, netVars, masterVars>>

IdsNext ==
  \/ RequestWrite \/ RequestRead \/ ResendAdd \/ RecvAckAdd \/ Respond
  \/ \E m \in addNet : RecvAdd(m)
  \/ CloseEpoch \/ ExecuteBatch

IdsSpec == IdsInit /\ [][IdsNext]_idsVars

(* The threads run; a datagram that is sent again and again arrives; the   *)
(* epochs pass.                                                            *)
Fairness ==
  /\ WF_idsVars(ResendAdd) /\ WF_idsVars(RecvAckAdd) /\ WF_idsVars(Respond)
  /\ \A n \in 0 .. MaxRequests - 1 :
       WF_idsVars(RecvAdd([id |-> TxId(n), request |-> n]))
  /\ WF_idsVars(CloseEpoch) /\ WF_idsVars(ExecuteBatch)

FairIdsSpec == IdsSpec /\ Fairness

-----------------------------------------------------------------------------
(* Ids are unsigned and those of ACKs are not; the log has no record at a  *)
(* negative offset; nothing is executed before it is determined.           *)
IdsTypeOK ==
  /\ requests \in 0 .. MaxRequests
  /\ thread_pc \in {"receive", "request_write", "wait_flag"}
  /\ tx_id \in 0 .. 2 * HALF - 1 /\ complete_flag \in {0, 1}
  /\ addNet \subseteq [id : 0 .. 2 * HALF - 1, request : 0 .. requests - 1]
  /\ ackAddNet \subseteq -HALF .. HALF - 1
  /\ recieved_tx_id \in -1 .. 2 * HALF - 1
  /\ batch \subseteq 0 .. requests - 1
  /\ epoch \in 0 .. MaxBatches /\ exited \in BOOLEAN
  /\ DOMAIN log \subseteq 0 .. HALF - 1
  /\ determined \in Seq(SUBSET (0 .. requests - 1))
  /\ executed \in 0 .. Len(determined)
  /\ acknowledged \subseteq 0 .. requests - 1

(* What has come into a batch, or would have: a master that has ended      *)
(* answers for nothing any more.                                           *)
Added ==
  batch \cup (UNION {determined[i] : i \in 1 .. Len(determined)})
        \cup (IF exited THEN 0 .. requests ELSE {})

(* "各クライアントに一意なトランザクションID" (transaction.h:22): a write the    *)
(* thread takes as received by the master is in a batch: the ACK was not   *)
(* that of another transaction with the same id, and the master did not    *)
(* mistake it for one it had (master_sequencer.c:337).  The ids of the     *)
(* first 2 * HALF requests are unique; the next request has the first id   *)
(* again, and its ACK may be that of the first.                            *)
AcknowledgedWasAdded == \A n \in acknowledged : n < 2 * HALF => n \in Added

(* Every determined batch stays in the log at the offset of its epoch: a   *)
(* record is never used again for a later epoch, because the master stops  *)
(* first (log.c:54, 67).                                                   *)
LogKeepsBatches ==
  \A i \in 1 .. Len(determined) :
    Short(i - 1) \in DOMAIN log /\ log[Short(i - 1)] = determined[i]

(* Until ids come again, the thread has only the last request in its hand: *)
(* all earlier ones that the master may still get are acknowledged, what   *)
(* the master would take for an old one is in a batch, and so is what it   *)
(* has acknowledged with an id that has not become negative.               *)
UniqueIdsInv ==
  /\ requests > 0 => tx_id = requests - 1
  /\ \A msg \in addNet :
       /\ msg.id = msg.request
       /\ \/ msg.request \in acknowledged
          \/ msg.request = requests - 1 /\ thread_pc = "request_write"
       /\ msg.id <= recieved_tx_id => msg.request \in Added
  /\ recieved_tx_id < requests
  /\ \A id \in ackAddNet : id >= 0 => id \in Added

(* The epochs are as many as the batches, until the process ends, and it   *)
(* ends before the epoch ids would come again as offsets.                  *)
EpochInv ==
  /\ Len(determined) <= HALF
  /\ ~exited => epoch = Len(determined)

(* As long as ids do not come again, a write that is acknowledged has been *)
(* added (transaction.h:22, master_sequencer.c:337); and however long the  *)
(* run is, no record of the log is used for two epochs (log.c:54, 67).     *)
IdsInv ==
  /\ IdsTypeOK
  /\ thread_pc # "receive" => requests > 0
  /\ thread_pc = "request_write" => AddMsg \in addNet
  /\ requests <= 2 * HALF => UniqueIdsInv
  /\ AcknowledgedWasAdded
  /\ EpochInv /\ LogKeepsBatches

(* "complete flagが立つまで待機" (client_interface.c:159): the thread waits   *)
(* until the flag is up, and no longer, whatever its id.                   *)
FlagEndsWaiting ==
  (thread_pc # "receive" /\ complete_flag = 1) ~> (thread_pc = "receive")
=============================================================================
