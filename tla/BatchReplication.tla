-------------------------- MODULE BatchReplication --------------------------
(***************************************************************************)
(* Replication of the epoch batches from the master to the slaves over     *)
(* UDP, in the proposed method (slaves of one region acknowledge to each   *)
(* other and fetch missing batches from each other) and in the             *)
(* conventional one (master to slave only).                                *)
(*                                                                         *)
(*   master/master_sequencer.c   the epoch thread and one sender thread    *)
(*                               per slave                                 *)
(*   slave/slave_sequencer.c     the sequencer thread of each slave        *)
(*   utils/log.c                 the batch log, addressed by epoch         *)
(*                                                                         *)
(* What a batch contains is a member of TxSets here.  The write scheduler, *)
(* which empties write_tx_buffer, is not part of this module: the buffer   *)
(* keeps every batch that was added to it.  The behaviours are those       *)
(* between the start and the finish request.                               *)
(***************************************************************************)
EXTENDS Integers, Sequences

CONSTANTS
  Master,     \* replica id 0
  Slaves,     \* replica ids 1 .. REPLICA_NUM-1
  Region,     \* Region[s]: the region of slave s
  TxSets,     \* the possible contents of a batch
  exp,        \* the method the experiment runs
  MaxEpoch,   \* bound: the last epoch the master determines
  Loss,       \* the kinds of datagrams the network removes
  NoBatch     \* no batch (a NULL or not yet assigned pointer)

Replicas == {Master} \cup Slaves

(* epoch_id is a C short and travels as one: up to SHRT_MAX the            *)
(* conversions between int and short keep the value.                       *)
Batches == [epoch_id : 0 .. MaxEpoch, tx_set : TxSets]

ASSUME MasterAssumption   == Master \notin Slaves
ASSUME ExpAssumption      == exp \in {"proposed_method", "conventional_method"}
ASSUME MaxEpochAssumption == MaxEpoch \in 0 .. 32767
ASSUME LossAssumption ==
  Loss \subseteq {"batch", "ack_to_master", "ack_to_peer", "request"}
ASSUME NoBatchAssumption  == NoBatch \notin Batches

VARIABLES
  \* the master's epoch thread
  epoch_pc,             \* what it does next
  batch_epoch_id,       \* batch->epoch_id, the batch that is collecting
  rev_batch,            \* the batch that was just closed
  determined_epoch_id,  \* last epoch the sender threads may send
  \* the master's sender threads, one per slave
  next_epoch_id,        \* the next epoch to send
  send_msg,             \* the batch being sent, NoBatch between two batches
  \* the slaves' sequencers
  next_batch_epoch_id,  \* the epoch the slave expects
  \* on every replica
  batch_log,            \* the log file: epoch -> batch message
  write_tx_buffer,      \* the batches handed to the write scheduler
  status,               \* "running", or how the sequencer came to a halt
  \* the network: the datagrams that can still be delivered
  batchNet,             \* BATCH_MESSAGE
  ackNet,               \* ACK_BATCH_MESSAGE
  requestNet            \* REQUEST_BATCH_MESSAGE

epochVars  == <<epoch_pc, batch_epoch_id, rev_batch, determined_epoch_id>>
senderVars == <<next_epoch_id, send_msg>>
slaveVars  == <<next_batch_epoch_id>>
localVars  == <<batch_log, write_tx_buffer>>
netVars    == <<batchNet, ackNet, requestNet>>
vars == <<epochVars, senderVars, slaveVars, localVars, status, netVars>>

-----------------------------------------------------------------------------
(* append_log writes the record at the offset of its epoch, whatever is    *)
(* there; read_log of an epoch beyond the end of the file never returns:   *)
(* read_all repeats a read(2) that gives 0 bytes, holding the log's mutex. *)
(* On the master that stops every other use of the log, on a slave the     *)
(* only thread of the sequencer.                                           *)
append_log(log, batch, epoch_id) ==
  [e \in DOMAIN log \cup {epoch_id} |->
     IF e = epoch_id THEN batch ELSE log[e]]

InLog(r, epoch_id) == epoch_id \in DOMAIN batch_log[r]

BatchMsg(dst, batch) == [dst |-> dst, batch |-> batch]
AckMsg(dst, src, epoch_id) ==
  [dst |-> dst, src |-> src, epoch_id |-> epoch_id]
RequestMsg(dst, src, epoch_id) ==
  [dst |-> dst, src |-> src, epoch_id |-> epoch_id]

(* The other slaves of the region, which the proposed method acknowledges  *)
(* to besides the master.                                                  *)
Peers(s) ==
  {id \in Slaves : /\ exp = "proposed_method"
                   /\ id # s
                   /\ Region[id] = Region[s]}

(* Mutant: any ACK ends the sending, whichever batch it acknowledges. *)
AcknowledgesAny(acked, sent) == TRUE

(* The sender takes an ACK of the batch it sends; the proposed method also *)
(* one of a later batch, which the slave got from a peer.                  *)
Acknowledges(acked, sent) ==
  IF exp = "proposed_method" THEN acked >= sent ELSE acked = sent

-----------------------------------------------------------------------------
Init ==
  /\ epoch_pc = "collect"
  /\ batch_epoch_id = 0
  /\ rev_batch = NoBatch
  /\ determined_epoch_id = -1
  /\ next_epoch_id = [s \in Slaves |-> 0]
  /\ send_msg = [s \in Slaves |-> NoBatch]
  /\ next_batch_epoch_id = [s \in Slaves |-> 0]
  /\ batch_log = [r \in Replicas |-> [e \in {} |-> NoBatch]]
  /\ write_tx_buffer = [r \in Replicas |-> <<>>]
  /\ status = [r \in Replicas |-> "running"]
  /\ batchNet = {}
  /\ ackNet = {}
  /\ requestNet = {}

-----------------------------------------------------------------------------
(* The epoch thread: when the epoch is over it swaps the batch for a new   *)
(* one of epoch current_epoch_id + 1 ...                                   *)
CutBatch ==
  /\ epoch_pc = "collect"
  /\ batch_epoch_id <= MaxEpoch
  /\ \E txs \in TxSets :
       rev_batch' = [epoch_id |-> batch_epoch_id, tx_set |-> txs]
  /\ batch_epoch_id' = determined_epoch_id + 2
  /\ epoch_pc' = "append"
  /\ UNCHANGED <<determined_epoch_id, senderVars, slaveVars, localVars,
                 status, netVars>>

(* ... writes the closed batch to the log ... *)
AppendBatch ==
  /\ status[Master] = "running"
  /\ epoch_pc = "append"
  /\ batch_log' = [batch_log EXCEPT
                     ![Master] = append_log(@, rev_batch, rev_batch.epoch_id)]
  /\ epoch_pc' = "determine"
  /\ UNCHANGED <<batch_epoch_id, rev_batch, determined_epoch_id, senderVars,
                 slaveVars, write_tx_buffer, status, netVars>>

(* Mutant: determined is the epoch of batch, not of rev_batch. *)
DetermineCollecting ==
  /\ epoch_pc = "determine"
  /\ determined_epoch_id' = batch_epoch_id
  /\ epoch_pc' = "enqueue"
  /\ UNCHANGED <<batch_epoch_id, rev_batch, senderVars, slaveVars, localVars,
                 status, netVars>>

(* ... lets the sender threads send it ... *)
Determine ==
  /\ epoch_pc = "determine"
  /\ determined_epoch_id' = determined_epoch_id + 1
  /\ epoch_pc' = "enqueue"
  /\ UNCHANGED <<batch_epoch_id, rev_batch, senderVars, slaveVars, localVars,
                 status, netVars>>

(* ... and gives it to the master's own scheduler. *)
Enqueue ==
  /\ epoch_pc = "enqueue"
  /\ write_tx_buffer' = [write_tx_buffer EXCEPT
                           ![Master] = Append(@, rev_batch)]
  /\ epoch_pc' = "collect"
  /\ UNCHANGED <<batch_epoch_id, rev_batch, determined_epoch_id, senderVars,
                 slaveVars, batch_log, status, netVars>>

-----------------------------------------------------------------------------
(* Mutant: the sender looks one epoch ahead of what is determined. *)
BeginSendEarly(s) ==
  /\ status[Master] = "running"
  /\ send_msg[s] = NoBatch
  /\ determined_epoch_id + 1 >= next_epoch_id[s]
  /\ IF InLog(Master, next_epoch_id[s])
       THEN LET batch == batch_log[Master][next_epoch_id[s]]
            IN  /\ send_msg' = [send_msg EXCEPT ![s] = batch]
                /\ batchNet' = batchNet \cup {BatchMsg(s, batch)}
                /\ UNCHANGED status
       ELSE /\ status' = [status EXCEPT ![Master] = "read_log"]
            /\ UNCHANGED <<send_msg, batchNet>>
  /\ UNCHANGED <<epochVars, next_epoch_id, slaveVars, localVars, ackNet,
                 requestNet>>

(* The sender thread of slave s reads the next batch from the log, once it *)
(* is determined, and sends it.  From here to the ACK, send_epoch_id is    *)
(* next_epoch_id[s].                                                       *)
BeginSend(s) ==
  /\ status[Master] = "running"
  /\ send_msg[s] = NoBatch
  /\ determined_epoch_id >= next_epoch_id[s]
  /\ IF InLog(Master, next_epoch_id[s])
       THEN LET batch == batch_log[Master][next_epoch_id[s]]
            IN  /\ send_msg' = [send_msg EXCEPT ![s] = batch]
                /\ batchNet' = batchNet \cup {BatchMsg(s, batch)}
                /\ UNCHANGED status
       ELSE /\ status' = [status EXCEPT ![Master] = "read_log"]
            /\ UNCHANGED <<send_msg, batchNet>>
  /\ UNCHANGED <<epochVars, next_epoch_id, slaveVars, localVars, ackNet,
                 requestNet>>

(* Mutant: the sender gives the batch up when the RTO has passed. *)
ResendGivesUp(s) ==
  /\ send_msg[s] # NoBatch
  /\ send_msg' = [send_msg EXCEPT ![s] = NoBatch]
  /\ next_epoch_id' = [next_epoch_id EXCEPT ![s] = @ + 1]
  /\ UNCHANGED <<epochVars, slaveVars, localVars, status, netVars>>

(* The RTO has passed without an ACK; that may happen at any time. *)
Resend(s) ==
  /\ send_msg[s] # NoBatch
  /\ batchNet' = batchNet \cup {BatchMsg(s, send_msg[s])}
  /\ UNCHANGED <<epochVars, senderVars, slaveVars, localVars, status, ackNet,
                 requestNet>>

(* Mutant: all senders listen on one port, and do not look who acknowledges. *)
RecvAckOfAnyone(s) ==
  /\ send_msg[s] # NoBatch
  /\ \E m \in ackNet :
       /\ m.dst = Master
       /\ Acknowledges(m.epoch_id, next_epoch_id[s])
       /\ next_epoch_id' = [next_epoch_id EXCEPT ![s] = m.epoch_id + 1]
  /\ send_msg' = [send_msg EXCEPT ![s] = NoBatch]
  /\ UNCHANGED <<epochVars, slaveVars, localVars, status, netVars>>

(* An ACK from slave s arrives at the port the sender of s listens on.  An *)
(* ACK that does not acknowledge the batch being sent changes nothing.     *)
RecvAck(s) ==
  /\ send_msg[s] # NoBatch
  /\ \E m \in ackNet :
       /\ m.dst = Master
       /\ m.src = s
       /\ Acknowledges(m.epoch_id, next_epoch_id[s])
       /\ next_epoch_id' = [next_epoch_id EXCEPT ![s] = m.epoch_id + 1]
  /\ send_msg' = [send_msg EXCEPT ![s] = NoBatch]
  /\ UNCHANGED <<epochVars, slaveVars, localVars, status, netVars>>

-----------------------------------------------------------------------------
(* Mutant: a batch that was received before is accepted again. *)
AcceptBatchAgain(s, m) ==
  /\ status[s] = "running"
  /\ m \in batchNet
  /\ m.dst = s
  /\ m.batch.epoch_id <= next_batch_epoch_id[s]
  /\ next_batch_epoch_id' = [next_batch_epoch_id EXCEPT
                               ![s] = m.batch.epoch_id + 1]
  /\ batch_log' = [batch_log EXCEPT
                     ![s] = append_log(@, m.batch, m.batch.epoch_id)]
  /\ write_tx_buffer' = [write_tx_buffer EXCEPT ![s] = Append(@, m.batch)]
  /\ ackNet' = ackNet \cup {AckMsg(r, s, m.batch.epoch_id) :
                              r \in {Master} \cup Peers(s)}
  /\ UNCHANGED <<epochVars, senderVars, status, batchNet, requestNet>>

(* Slave s receives the batch it expects, from the master or from a peer:  *)
(* it logs it, gives it to the scheduler and acknowledges it to the master *)
(* and to its peers.                                                       *)
AcceptBatch(s, m) ==
  /\ status[s] = "running"
  /\ m \in batchNet
  /\ m.dst = s
  /\ m.batch.epoch_id = next_batch_epoch_id[s]
  /\ next_batch_epoch_id' = [next_batch_epoch_id EXCEPT ![s] = @ + 1]
  /\ batch_log' = [batch_log EXCEPT
                     ![s] = append_log(@, m.batch, m.batch.epoch_id)]
  /\ write_tx_buffer' = [write_tx_buffer EXCEPT ![s] = Append(@, m.batch)]
  /\ ackNet' = ackNet \cup {AckMsg(r, s, m.batch.epoch_id) :
                              r \in {Master} \cup Peers(s)}
  /\ UNCHANGED <<epochVars, senderVars, status, batchNet, requestNet>>

(* Mutant: a batch received before is ignored, as a duplicate. *)
OtherBatchSilent(s, m) ==
  /\ status[s] = "running"
  /\ m \in batchNet
  /\ m.dst = s
  /\ m.batch.epoch_id > next_batch_epoch_id[s]
  /\ status' = [status EXCEPT ![s] = "assert"]
  /\ UNCHANGED <<epochVars, senderVars, slaveVars, localVars, netVars>>

(* Slave s receives any other batch.  One it already has it acknowledges   *)
(* again, to the master only, who may have missed the first one; one from  *)
(* beyond a gap fails the assertion.                                       *)
OtherBatch(s, m) ==
  /\ status[s] = "running"
  /\ m \in batchNet
  /\ m.dst = s
  /\ m.batch.epoch_id # next_batch_epoch_id[s]
  /\ IF m.batch.epoch_id < next_batch_epoch_id[s]
       THEN /\ ackNet' = ackNet \cup {AckMsg(Master, s, m.batch.epoch_id)}
            /\ UNCHANGED status
       ELSE /\ status' = [status EXCEPT ![s] = "assert"]
            /\ UNCHANGED ackNet
  /\ UNCHANGED <<epochVars, senderVars, slaveVars, localVars, batchNet,
                 requestNet>>

(* A peer acknowledges a batch that slave s does not have: s asks that     *)
(* peer for the batch it expects.                                          *)
RecvPeerAck(s, m) ==
  /\ status[s] = "running"
  /\ exp = "proposed_method"
  /\ m \in ackNet
  /\ m.dst = s
  /\ m.epoch_id >= next_batch_epoch_id[s]
  /\ requestNet' = requestNet \cup
                     {RequestMsg(m.src, s, next_batch_epoch_id[s])}
  /\ UNCHANGED <<epochVars, senderVars, slaveVars, localVars, status,
                 batchNet, ackNet>>

(* Slave s is asked for a batch and sends it from its log. *)
RecvRequest(s, m) ==
  /\ status[s] = "running"
  /\ exp = "proposed_method"
  /\ m \in requestNet
  /\ m.dst = s
  /\ IF InLog(s, m.epoch_id)
       THEN /\ batchNet' = batchNet \cup
                             {BatchMsg(m.src, batch_log[s][m.epoch_id])}
            /\ UNCHANGED status
       ELSE /\ status' = [status EXCEPT ![s] = "read_log"]
            /\ UNCHANGED batchNet
  /\ UNCHANGED <<epochVars, senderVars, slaveVars, localVars, ackNet,
                 requestNet>>

-----------------------------------------------------------------------------
(* UDP.  A datagram can be delivered, again and in any order, until the    *)
(* network drops it: receiving leaves it in its set, and these actions     *)
(* remove it.  That covers loss, delay, reordering and duplication.        *)
(* A kind that is not in Loss is never removed: a lost datagram is then    *)
(* one that is just never delivered.  That misses no state of the nodes;   *)
(* it matters only to liveness, and there only for the kinds the fairness  *)
(* condition speaks of.                                                    *)
DropBatch ==
  /\ "batch" \in Loss
  /\ \E m \in batchNet : batchNet' = batchNet \ {m}
  /\ UNCHANGED <<epochVars, senderVars, slaveVars, localVars, status, ackNet,
                 requestNet>>

DropAck ==
  /\ \E m \in ackNet :
       /\ (IF m.dst = Master THEN "ack_to_master" ELSE "ack_to_peer") \in Loss
       /\ ackNet' = ackNet \ {m}
  /\ UNCHANGED <<epochVars, senderVars, slaveVars, localVars, status,
                 batchNet, requestNet>>

DropRequest ==
  /\ "request" \in Loss
  /\ \E m \in requestNet : requestNet' = requestNet \ {m}
  /\ UNCHANGED <<epochVars, senderVars, slaveVars, localVars, status,
                 batchNet, ackNet>>

-----------------------------------------------------------------------------
Next ==
  \/ CutBatch \/ AppendBatch \/ Determine \/ Enqueue
  \/ \E s \in Slaves :
       \/ BeginSend(s) \/ Resend(s) \/ RecvAck(s)
       \/ \E m \in batchNet : AcceptBatch(s, m) \/ OtherBatch(s, m)
       \/ \E m \in ackNet : RecvPeerAck(s, m)
       \/ \E m \in requestNet : RecvRequest(s, m)
  \/ DropBatch \/ DropAck \/ DropRequest

Spec == Init /\ [][Next]_vars

(* Every thread keeps running, and a datagram that is sent again and again *)
(* arrives again and again.  Nothing is assumed of peer ACKs and requests: *)
(* they are sent once, and the network may lose them all.                  *)
Fairness ==
  /\ WF_vars(CutBatch \/ AppendBatch \/ Determine \/ Enqueue)
  /\ \A s \in Slaves :
       /\ WF_vars(BeginSend(s) \/ Resend(s))
       /\ SF_vars(RecvAck(s))
       /\ \A b \in Batches :
            SF_vars(\/ AcceptBatch(s, BatchMsg(s, b))
                    \/ OtherBatch(s, BatchMsg(s, b)))

FairSpec == Spec /\ Fairness

-----------------------------------------------------------------------------
EpochIds == 0 .. MaxEpoch

(* The types of the variables, by owner; the domain of a log is what the   *)
(* file holds.                                                             *)
EpochThreadType ==
  /\ epoch_pc \in {"collect", "append", "determine", "enqueue"}
  /\ batch_epoch_id \in 0 .. MaxEpoch + 1
  /\ rev_batch \in Batches \cup {NoBatch}
  /\ determined_epoch_id \in -1 .. MaxEpoch

SenderType ==
  /\ next_epoch_id \in [Slaves -> 0 .. MaxEpoch + 1]
  /\ send_msg \in [Slaves -> Batches \cup {NoBatch}]

SlaveType ==
  /\ next_batch_epoch_id \in [Slaves -> 0 .. MaxEpoch + 1]
  /\ status \in [Replicas -> {"running", "assert", "read_log"}]

LogType ==
  /\ DOMAIN batch_log = Replicas
  /\ \A r \in Replicas : /\ DOMAIN batch_log[r] \subseteq EpochIds
                         /\ \A e \in DOMAIN batch_log[r] :
                              batch_log[r][e] \in Batches

BufferType == write_tx_buffer \in [Replicas -> Seq(Batches)]

NetType ==
  /\ batchNet \subseteq [dst : Slaves, batch : Batches]
  /\ ackNet \subseteq [dst : Replicas, src : Slaves, epoch_id : EpochIds]
  /\ requestNet \subseteq [dst : Slaves, src : Slaves, epoch_id : EpochIds]

TypeOK == /\ EpochThreadType /\ SenderType /\ SlaveType
          /\ LogType /\ BufferType /\ NetType

(* No sequencer halts: the assertion on a batch from beyond a gap ("should *)
(* not come") never fails, whoever sent the batch and however late, and no *)
(* thread asks the log for an epoch that was not written yet, be it a      *)
(* sender thread that runs while the epoch thread closes a batch or a      *)
(* slave that serves a peer.                                               *)
NoHalt == \A r \in Replicas : status[r] = "running"

(* Every replica gives its write scheduler the same batches in the same    *)
(* order, without a gap or a repetition: two buffers agree as far as they  *)
(* both go.                                                                *)
ReplicaAgreement ==
  \A q, r \in Replicas :
    \A i \in DOMAIN write_tx_buffer[q] \cap DOMAIN write_tx_buffer[r] :
      write_tx_buffer[q][i] = write_tx_buffer[r][i]

(* A slave never runs a batch the master has not closed and logged: what a *)
(* buffer holds is on the master's file, at its epoch.                     *)
RunsOnlyLogged ==
  \A r \in Replicas : \A i \in DOMAIN write_tx_buffer[r] :
    /\ InLog(Master, i - 1)
    /\ write_tx_buffer[r][i] = batch_log[Master][i - 1]

(* The sender of slave s moves past a batch only if s logged it, even when *)
(* it skips epochs because of an acknowledgement of a later one; so no     *)
(* batch is left out for a slave.                                          *)
AckedIsLogged ==
  \A s \in Slaves : \A e \in 0 .. next_epoch_id[s] - 1 : InLog(s, e)

(* A slave is asked only for a batch it has, however late the request      *)
(* arrives, and never by itself: read_log of another one would not return. *)
RequestsAreServable ==
  \A m \in requestNet : m.dst # m.src /\ InLog(m.dst, m.epoch_id)

(* The log is append-only: no record is overwritten by another batch, and  *)
(* a position, once sent past or accepted, is never taken back, whatever   *)
(* stale acknowledgement or batch arrives.                                 *)
NeverTakenBack ==
  [][/\ \A r \in Replicas : \A e \in DOMAIN batch_log[r] :
          e \in DOMAIN batch_log'[r] /\ batch_log'[r][e] = batch_log[r][e]
     /\ \A s \in Slaves : /\ next_epoch_id'[s] >= next_epoch_id[s]
                          /\ next_batch_epoch_id'[s] >= next_batch_epoch_id[s]
    ]_vars

(* Every batch the master determines reaches the write scheduler of every  *)
(* replica, though any datagram may be lost, and though the peers' help is *)
(* not to be relied on.                                                    *)
EveryBatchArrives ==
  \A e \in EpochIds :
    determined_epoch_id >= e ~> \A r \in Replicas : Len(write_tx_buffer[r]) > e

(* Every determined batch is acknowledged in the end: the sender does not  *)
(* resend for ever a batch the slave has, got from a peer or acknowledged  *)
(* in a datagram that was lost.                                            *)
EveryBatchAcknowledged ==
  \A e \in EpochIds :
    determined_epoch_id >= e ~> \A s \in Slaves : next_epoch_id[s] > e

-----------------------------------------------------------------------------
(* The inductive invariant, in named parts.                                *)

(* What the epoch thread has done of closing a batch: how far the log and  *)
(* the epoch of the collecting batch are ahead of determined_epoch_id.     *)
EpochThreadInv ==
  LET det == determined_epoch_id
  IN  /\ epoch_pc \in {"append", "determine"} <=> batch_epoch_id = det + 2
      /\ epoch_pc \in {"collect", "enqueue"} <=> batch_epoch_id = det + 1
      /\ epoch_pc = "append" =>
           rev_batch # NoBatch /\ rev_batch.epoch_id = det + 1
      /\ epoch_pc = "determine" => batch_log[Master][det + 1] = rev_batch
      /\ epoch_pc = "enqueue" => det >= 0 /\ batch_log[Master][det] = rev_batch
      /\ DOMAIN batch_log[Master] =
           0 .. (IF epoch_pc = "determine" THEN det + 1 ELSE det)

(* Each record is at the position of its epoch.                            *)
LogInv ==
  \A r \in Replicas : \A e \in DOMAIN batch_log[r] :
    batch_log[r][e].epoch_id = e

(* A slave's log is a prefix of what the master has determined.            *)
SlaveInv ==
  \A s \in Slaves :
    /\ next_batch_epoch_id[s] <= determined_epoch_id + 1
    /\ DOMAIN batch_log[s] = 0 .. next_batch_epoch_id[s] - 1
    /\ \A e \in DOMAIN batch_log[s] : batch_log[s][e] = batch_log[Master][e]

(* The scheduler's buffer holds the log, in epoch order.                   *)
BufferInv ==
  /\ Len(write_tx_buffer[Master]) =
       (IF epoch_pc = "enqueue" THEN determined_epoch_id
                                ELSE determined_epoch_id + 1)
  /\ \A s \in Slaves : Len(write_tx_buffer[s]) = next_batch_epoch_id[s]
  /\ \A r \in Replicas : \A i \in DOMAIN write_tx_buffer[r] :
       write_tx_buffer[r][i] = batch_log[Master][i - 1]

(* The sender of s is never ahead of s, and sends what is on the log.      *)
SenderInv ==
  \A s \in Slaves :
    /\ next_epoch_id[s] <= next_batch_epoch_id[s]
    /\ send_msg[s] # NoBatch =>
         /\ next_epoch_id[s] <= determined_epoch_id
         /\ send_msg[s] = batch_log[Master][next_epoch_id[s]]

(* A batch the network still holds is a determined one, and not from       *)
(* beyond what its receiver expects.                                       *)
BatchNetInv ==
  \A m \in batchNet :
    /\ m.batch.epoch_id <= determined_epoch_id
    /\ m.batch.epoch_id <= next_batch_epoch_id[m.dst]
    /\ m.batch = batch_log[Master][m.batch.epoch_id]

(* An ACK speaks of a batch its sender has.                                *)
AckNetInv ==
  \A m \in ackNet : m.epoch_id < next_batch_epoch_id[m.src] /\ m.dst # m.src

(* A request asks for a batch its receiver has, and is not ahead of the    *)
(* one who asks.                                                           *)
RequestNetInv ==
  \A m \in requestNet :
    /\ m.dst # m.src
    /\ m.epoch_id < next_batch_epoch_id[m.dst]
    /\ m.epoch_id <= next_batch_epoch_id[m.src]

IInv == /\ TypeOK /\ NoHalt /\ EpochThreadInv /\ LogInv /\ SlaveInv
        /\ BufferInv /\ SenderInv
        /\ BatchNetInv /\ AckNetInv /\ RequestNetInv

-----------------------------------------------------------------------------
(* What this implements: the determined batches are those of the master's  *)
(* log up to determined_epoch_id.                                          *)
determined ==
  [i \in 1 .. determined_epoch_id + 1 |-> batch_log[Master][i - 1]]

BO == INSTANCE BatchOrder WITH handed <- write_tx_buffer

(* Batch replication implements BatchOrder: every step of the epoch, the   *)
(* sender and the sequencer threads is a Determine, a HandOver or nothing. *)
ImplementsBatchOrder == BO!Spec
=============================================================================
